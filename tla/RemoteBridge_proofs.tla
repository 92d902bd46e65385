------------------------ MODULE RemoteBridge_proofs ------------------------
(***************************************************************************)
(* The safety of RemoteBridge for any number of messages and worker        *)
(* registrations: one open transport (OneTransportOpen), of the newest     *)
(* epoch (OpenIsNewest); the types (TypeCorrect); and the order in which   *)
(* messages reach the server through one transport after another           *)
(* (WrittenOrder).                                                         *)
(***************************************************************************)
EXTENDS RemoteBridge, SequenceTheorems, TLAPS

Places == {"no", "token", "fetching", "fetched", "creating", "ending"}

Typed ==
    /\ session \in Session
    /\ made \in Nat \ {0} /\ current = made
    /\ epoch \in [Transports -> Nat]
    /\ closed \in [Transports -> BOOLEAN]
    /\ recovering \in BOOLEAN
    /\ rec \in [Recoveries -> Places]
    /\ fresh \in [Recoveries -> Nat]
    /\ torn \in {"no", "archiving", "done"}
    /\ serverEpoch \in Nat /\ serverEpoch <= session.epochs

\* One recovery at a time, and the flag says so.
Single ==
    /\ \A r \in Recoveries : rec[r] # "no" => recovering
    /\ \A r, s \in Recoveries : rec[r] # "no" /\ rec[s] # "no" => r = s

\* A recovery that has credentials has those of the last registration, and no
\* transport was made for it yet.
Counted ==
    /\ made <= serverEpoch
    /\ \A r \in Recoveries : rec[r] \in {"fetched", "creating"} =>
            made < serverEpoch /\ fresh[r] = serverEpoch

\* Only the last transport may be open, and it is closed before another one
\* is made.
Shut ==
    /\ \A t \in 1..made : t # made => closed[t]
    /\ \A r \in Recoveries : rec[r] = "creating" => closed[made]
    /\ torn = "done" => closed[made]

\* An outdated transport is being replaced.
Newest ==
    \/ torn # "no" \/ fruitless = TRUE
    \/ closed[made] \/ epoch[made] = serverEpoch
    \/ \E r \in Recoveries : rec[r] \in {"fetching", "fetched", "creating"}

IInv == Typed /\ Single /\ Counted /\ Shut /\ Newest

-----------------------------------------------------------------------------

\* No transport is opened again.
Growing ==
    /\ closed' \in [Transports -> BOOLEAN]
    /\ \A t \in Transports : closed[t] => closed'[t]

\* What most steps do: a transport may be closed, and that may start a
\* recovery.
Aside ==
    /\ UNCHANGED <<session, made, current, epoch, fresh, torn, fruitless,
                   serverEpoch>>
    /\ Growing
    /\ \/ UNCHANGED <<recovering, rec>>
       \/ /\ ~recovering /\ recovering' = TRUE
          /\ rec' = [rec EXCEPT !["auth"] = "token"]

LEMMA MadeIsTransport ==
    ASSUME IInv
    PROVE  /\ 1..made \subseteq Transports
           /\ made \in Transports
           /\ \A r \in Recoveries : rec[r] \in {"fetched", "creating"} =>
                    made + 1 \in Transports
BY DEF IInv, Typed, Counted, Transports, Session

LEMMA AsideKeeps ==
    ASSUME IInv, Aside
    PROVE  IInv'
<1>0. /\ Transports' = Transports
      /\ "auth" \in Recoveries
      /\ made' = made
    BY DEF Aside, Transports, Recoveries
<1>1. \A r \in Recoveries :
            \/ rec'[r] = rec[r]
            \/ rec[r] = "no" /\ rec'[r] = "token"
    BY <1>0 DEF Aside, IInv, Typed, Single
<1>2. Typed'
    BY <1>0 DEF Aside, Growing, IInv, Typed, Places
<1>3. Single'
    BY <1>0 DEF Aside, IInv, Typed, Single
<1>4. Counted'
    BY <1>1 DEF Aside, IInv, Counted
<1>5. Shut'
    BY <1>0, <1>1, MadeIsTransport DEF Aside, Growing, IInv, Shut
<1>6. Newest'
    <2>1. \A r \in Recoveries :
            rec[r] \in {"fetching", "fetched", "creating"} => rec'[r] = rec[r]
        BY <1>1
    <2>2. closed[made] => closed'[made]
        BY MadeIsTransport DEF Aside, Growing
    <2> QED
        BY <1>0, <2>1, <2>2 DEF Aside, IInv, Newest
<1> QED
    BY <1>2, <1>3, <1>4, <1>5, <1>6 DEF IInv

LEMMA ClosingGrows ==
    ASSUME Typed, NEW t, Close(t)
    PROVE  Growing
BY DEF Typed, Close, Growing

LEMMA ClosingCurrent ==
    ASSUME IInv, CloseCurrent
    PROVE  Growing /\ closed'[made]
<1>1. CASE closed[current]
    BY <1>1 DEF CloseCurrent, IInv, Typed, Growing
<1>2. CASE ~closed[current]
    <2>1. closed' = [closed EXCEPT ![made] = TRUE] /\ Close(current)
        BY <1>2 DEF CloseCurrent, Close, IInv, Typed
    <2> QED
        BY <2>1, ClosingGrows, MadeIsTransport DEF IInv, Typed
<1> QED
    BY <1>1, <1>2

LEMMA SupersededAside ==
    ASSUME IInv, NEW t \in Transports, Superseded(t),
           UNCHANGED <<session, made, current, epoch, fresh, torn, fruitless,
                       serverEpoch>>
    PROVE  IInv'
<1>1. Growing
    BY ClosingGrows DEF Superseded, IInv, Typed, Growing
<1>2. Aside
    BY <1>1 DEF Superseded, OnClose, Aside
<1> QED
    BY <1>2, AsideKeeps

-----------------------------------------------------------------------------
(* Recoveries and teardown *)

\* The recovery r of a step is the only one.
LEMMA Others ==
    ASSUME IInv, NEW r \in Recoveries, rec[r] # "no"
    PROVE  recovering /\ \A s \in Recoveries : s # r => rec[s] = "no"
BY DEF IInv, Single

\* A recovery moves on and touches nothing else that counts.
LEMMA Moves ==
    ASSUME IInv, NEW r \in Recoveries, rec[r] \in {"token", "fetching"},
           NEW place \in {"fetching", "ending"},
           rec' = [rec EXCEPT ![r] = place],
           place = "fetching" \/ rec[r] = "token" \/ fruitless' = TRUE,
           fruitless => fruitless',
           UNCHANGED <<session, made, current, epoch, closed, recovering,
                       fresh, torn, serverEpoch>>
    PROVE  IInv'
<1>0. /\ Transports' = Transports /\ made' = made
      /\ \A s \in Recoveries : s # r => rec[s] = "no" /\ rec'[s] = "no"
      /\ rec'[r] = place /\ recovering
    BY Others DEF Transports, IInv, Typed
<1>1. Typed'
    BY <1>0 DEF IInv, Typed, Places
<1>2. Single'
    BY <1>0 DEF IInv, Single
<1>3. Counted' /\ Shut'
    BY <1>0 DEF IInv, Counted, Shut
<1>4. Newest'
    BY <1>0 DEF IInv, Newest
<1> QED
    BY <1>1, <1>2, <1>3, <1>4 DEF IInv

LEMMA RefreshTimerKeeps ==
    ASSUME IInv, RefreshTimer
    PROVE  IInv'
<1>0. /\ Transports' = Transports /\ "refresh" \in Recoveries
      /\ UNCHANGED <<session, made, current, epoch, closed, fresh, torn,
                     fruitless, serverEpoch>>
      /\ ~recovering /\ recovering' = TRUE
      /\ rec' = [rec EXCEPT !["refresh"] = "fetching"]
    BY DEF RefreshTimer, MayRefresh, Transports, Recoveries, transportVars,
           gateVars, serverVars
<1>1. /\ rec'["refresh"] = "fetching"
      /\ \A r \in Recoveries : r # "refresh" => rec'[r] = "no"
    BY <1>0 DEF IInv, Typed, Single
<1>2. Typed' /\ Single'
    BY <1>0, <1>1 DEF IInv, Typed, Single, Places
<1>3. Counted' /\ Shut'
    BY <1>0, <1>1 DEF IInv, Counted, Shut
<1>4. Newest'
    BY <1>0, <1>1 DEF Newest
<1> QED
    BY <1>2, <1>3, <1>4 DEF IInv

LEMMA FetchKeeps ==
    ASSUME IInv, NEW r \in Recoveries, Fetch(r)
    PROVE  IInv'
<1>0. /\ Transports' = Transports
      /\ UNCHANGED <<session, made, current, epoch, closed, recovering,
                     torn, fruitless>>
      /\ rec[r] = "fetching"
      /\ serverEpoch' = serverEpoch + 1 /\ serverEpoch < session.epochs
    BY DEF Fetch, Transports, transportVars, gateVars
<1>1. recovering /\ \A s \in Recoveries : s # r => rec[s] = "no"
    BY <1>0, Others
<1>2. \/ /\ fresh' = [fresh EXCEPT ![r] = serverEpoch']
         /\ rec' = [rec EXCEPT ![r] = "fetched"]
      \/ UNCHANGED <<fresh, rec>>
    BY DEF Fetch
<1>3. /\ rec' \in [Recoveries -> Places] /\ fresh' \in [Recoveries -> Nat]
      /\ \A s \in Recoveries : s # r => rec'[s] = "no"
      /\ \/ rec'[r] = "fetched" /\ fresh'[r] = serverEpoch'
         \/ rec'[r] = "fetching"
    BY <1>0, <1>1, <1>2 DEF IInv, Typed, Places
<1>4. Typed'
    BY <1>0, <1>3 DEF IInv, Typed, Session
<1>5. Single'
    BY <1>0, <1>1, <1>3 DEF Single
<1>6. Counted'
    BY <1>0, <1>3 DEF IInv, Typed, Counted
<1>7. Shut' /\ Newest'
    BY <1>0, <1>3 DEF IInv, Shut, Newest
<1> QED
    BY <1>4, <1>5, <1>6, <1>7 DEF IInv

LEMMA RebuildKeeps ==
    ASSUME IInv, NEW r \in Recoveries, Rebuild(r)
    PROVE  IInv'
<1>0. /\ Transports' = Transports
      /\ UNCHANGED <<session, made, current, epoch, recovering, torn,
                     fruitless, serverEpoch>>
      /\ rec[r] = "fetched"
    BY DEF Rebuild, Transports, serverVars
<1>1. recovering /\ \A s \in Recoveries : s # r => rec[s] = "no"
    BY <1>0, Others
<1>2. CASE torn # "no"
    <2>1. /\ rec' = [rec EXCEPT ![r] = "ending"]
          /\ fresh' = [fresh EXCEPT ![r] = 0] /\ closed' = closed
        BY <1>2 DEF Rebuild
    <2>2. /\ rec'[r] = "ending"
          /\ \A s \in Recoveries : s # r => rec'[s] = "no"
        BY <1>1, <2>1 DEF IInv, Typed
    <2>3. Typed' /\ Single'
        BY <1>0, <1>1, <2>1, <2>2 DEF IInv, Typed, Single, Places
    <2>4. Counted' /\ Shut' /\ Newest'
        BY <1>0, <1>2, <2>1, <2>2 DEF IInv, Counted, Shut, Newest
    <2> QED
        BY <2>3, <2>4 DEF IInv
<1>3. CASE torn = "no"
    <2>1. rec' = [rec EXCEPT ![r] = "creating"] /\ CloseCurrent
          /\ fresh' = fresh
        BY <1>3 DEF Rebuild
    <2>2. /\ rec'[r] = "creating"
          /\ \A s \in Recoveries : s # r => rec'[s] = "no"
        BY <1>1, <2>1 DEF IInv, Typed
    <2>3. Growing /\ closed'[made]
        BY <2>1, ClosingCurrent
    <2>4. Typed' /\ Single'
        BY <1>0, <1>1, <2>1, <2>2, <2>3
        DEF IInv, Typed, Single, Places, Growing
    <2>5. Counted' /\ Newest'
        BY <1>0, <2>1, <2>2 DEF IInv, Counted, Newest
    <2>6. Shut'
        BY <1>0, <2>3, MadeIsTransport DEF IInv, Shut, Growing
    <2> QED
        BY <2>4, <2>5, <2>6 DEF IInv
<1> QED
    BY <1>2, <1>3

LEMMA CreateKeeps ==
    ASSUME IInv, NEW r \in Recoveries, Create(r)
    PROVE  IInv'
<1>0. /\ Transports' = Transports
      /\ UNCHANGED <<session, recovering, torn, fruitless, serverEpoch>>
      /\ rec[r] = "creating"
      /\ rec' = [rec EXCEPT ![r] = "ending"]
      /\ fresh' = [fresh EXCEPT ![r] = 0]
      /\ made' = made + 1 /\ current' = made + 1
      /\ epoch' = [epoch EXCEPT ![made + 1] = fresh[r]]
    BY DEF Create, Transports, serverVars
<1>1. /\ recovering
      /\ made \in Nat \ {0} /\ made + 1 \in Transports
      /\ 1..made \subseteq Transports
      /\ rec'[r] = "ending"
      /\ \A s \in Recoveries : s # r => rec'[s] = "no"
    BY <1>0, Others, MadeIsTransport DEF IInv, Typed
<1>2. /\ closed' \in [Transports -> BOOLEAN]
      /\ \A t \in 1..made : closed'[t] = closed[t]
      /\ torn # "no" => closed'[made + 1]
    <2>1. \/ torn = "no" /\ closed' = closed
          \/ closed' = [closed EXCEPT ![made + 1] = TRUE]
        BY DEF Create, TornMeanwhile
    <2>2. \A t \in 1..made : t # made + 1
        BY <1>1
    <2>3. closed \in [Transports -> BOOLEAN]
        BY DEF IInv, Typed
    <2> QED
        BY <1>1, <2>1, <2>2, <2>3
<1>3. Typed'
    <2>1. epoch' \in [Transports -> Nat]
        BY <1>0, <1>1 DEF IInv, Typed
    <2>2. rec' \in [Recoveries -> Places] /\ fresh' \in [Recoveries -> Nat]
        BY <1>0 DEF IInv, Typed, Places
    <2>3. made' \in Nat \ {0} /\ current' = made'
        BY <1>0, <1>1
    <2> QED
        BY <1>0, <1>2, <2>1, <2>2, <2>3 DEF IInv, Typed
<1>3a. Single'
    BY <1>0, <1>1 DEF Single
<1>4. Counted'
    BY <1>0, <1>1 DEF IInv, Typed, Counted
<1>5. \A t \in 1..(made + 1) : t # made + 1 => t \in 1..made
    BY <1>1
<1>6. Shut'
    <2>1. \A t \in 1..made : closed[t]
        BY <1>0 DEF IInv, Shut
    <2> QED
        BY <1>0, <1>1, <1>2, <1>5, <2>1 DEF Shut
<1>7. Newest'
    <2>1. epoch'[made + 1] = serverEpoch
        BY <1>0, <1>1 DEF IInv, Typed, Counted
    <2> QED
        BY <1>0, <2>1 DEF Newest
<1> QED
    BY <1>3, <1>3a, <1>4, <1>6, <1>7 DEF IInv

LEMMA RecoveryEndsKeeps ==
    ASSUME IInv, NEW r \in Recoveries, RecoveryEnds(r)
    PROVE  IInv'
<1>0. /\ Transports' = Transports
      /\ UNCHANGED <<session, made, current, epoch, closed, fresh, torn,
                     fruitless, serverEpoch>>
      /\ rec[r] = "ending" /\ recovering' = FALSE
      /\ rec' = [rec EXCEPT ![r] = "no"]
    BY DEF RecoveryEnds, Transports, transportVars, gateVars, serverVars
<1>1. \A s \in Recoveries : rec'[s] = "no" /\ (s # r => rec[s] = "no")
    BY <1>0, Others DEF IInv, Typed
<1>2. Typed' /\ Single'
    BY <1>0, <1>1 DEF IInv, Typed, Single, Places
<1>3. Counted' /\ Shut'
    BY <1>0, <1>1 DEF IInv, Counted, Shut
<1>4. Newest'
    BY <1>0, <1>1 DEF IInv, Newest
<1> QED
    BY <1>2, <1>3, <1>4 DEF IInv

LEMMA ArchivedKeeps ==
    ASSUME IInv, Archived
    PROVE  IInv'
<1>0. /\ Transports' = Transports
      /\ UNCHANGED <<session, made, current, epoch, fresh, fruitless,
                     recovering, rec, serverEpoch>>
      /\ torn' = "done" /\ CloseCurrent
    BY DEF Archived, Transports, recoveryVars, serverVars
<1>1. Growing /\ closed'[made]
    BY <1>0, ClosingCurrent
<1>2. Typed' /\ Single'
    BY <1>0, <1>1 DEF IInv, Typed, Single, Growing
<1>3. Counted' /\ Newest'
    BY <1>0 DEF IInv, Counted, Newest
<1>4. Shut'
    BY <1>0, <1>1, MadeIsTransport DEF IInv, Shut, Growing
<1> QED
    BY <1>2, <1>3, <1>4 DEF IInv

-----------------------------------------------------------------------------
(* The theorems *)

LEMMA InitIInv == Init => IInv
<1> SUFFICES ASSUME Init PROVE IInv
    OBVIOUS
<1>1. session \in Session /\ 1 \in Transports
    BY SessionsAssumption DEF Init, Session, Transports
<1>2. Typed
    <2>1. /\ epoch \in [Transports -> Nat]
          /\ closed \in [Transports -> BOOLEAN]
          /\ rec \in [Recoveries -> Places] /\ fresh \in [Recoveries -> Nat]
        BY DEF Init, Places
    <2>2. serverEpoch = 1 /\ 1 <= session.epochs
        BY <1>1 DEF Init, Session
    <2>3. /\ made = 1 /\ current = 1 /\ serverEpoch = 1
          /\ recovering = FALSE /\ torn = "no"
        BY DEF Init
    <2>4. recovering \in BOOLEAN
        BY <2>3
    <2>5. made \in Nat \ {0} /\ current = made
        BY <2>3
    <2>6. torn \in {"no", "archiving", "done"}
        BY <2>3
    <2>7. serverEpoch \in Nat /\ serverEpoch <= session.epochs
        BY <2>2, <2>3
    <2> QED
        BY <1>1, <2>1, <2>4, <2>5, <2>6, <2>7 DEF Typed
<1>2a. Single
    BY DEF Init, Single
<1>3. Counted /\ Shut /\ Newest
    BY <1>1 DEF Init, Counted, Shut, Newest
<1> QED
    BY <1>2, <1>2a, <1>3 DEF IInv

LEMMA NextIInv ==
    ASSUME IInv, [Next]_vars
    PROVE  IInv'
<1>1. CASE UNCHANGED vars
    BY <1>1, AsideKeeps
    DEF vars, transportVars, recoveryVars, serverVars, Aside, Growing, IInv,
        Typed
<1>2. CASE WriteMessages
    BY <1>2, AsideKeeps
    DEF WriteMessages, recoveryVars, serverVars, Aside, Growing, IInv, Typed
<1>3. ASSUME NEW t \in Transports, Connection(t) PROVE IInv'
    <2>1. CASE Deliver(t)
        BY <2>1, AsideKeeps
        DEF Deliver, recoveryVars, Aside, Growing, IInv, Typed
    <2>2. CASE Rejected(t)
        <3>1. UNCHANGED <<session, made, current, epoch, fresh, torn,
                          fruitless, serverEpoch>>
            BY <2>2 DEF Rejected, serverVars
        <3>2. CASE closed[t]
            <4>1. closed' = closed /\ OnClose(4090)
                BY <2>2, <3>2 DEF Rejected
            <4> QED
                <5>1. Growing
                    BY <4>1 DEF Growing, IInv, Typed
                <5>2. Aside
                    BY <3>1, <4>1, <5>1 DEF OnClose, Aside
                <5> QED
                    BY <5>2, AsideKeeps
        <3>3. CASE ~closed[t]
            BY <2>2, <3>1, <3>3, SupersededAside DEF Rejected
        <3> QED
            BY <3>2, <3>3
    <2>3. CASE FlushReturns(t)
        BY <2>3, AsideKeeps
        DEF FlushReturns, recoveryVars, serverVars, Aside, Growing, IInv, Typed
    <2>4. CASE Register(t)
        BY <2>4, AsideKeeps
        DEF Register, gateVars, recoveryVars, serverVars, Aside, Growing, IInv,
            Typed
    <2>5. CASE Restored(t)
        BY <2>5, AsideKeeps
        DEF Restored, recoveryVars, serverVars, Aside, Growing, IInv, Typed
    <2>6. CASE InitFails(t)
        BY <2>6, SupersededAside DEF InitFails, serverVars
    <2> QED
        BY <1>3, <2>1, <2>2, <2>3, <2>4, <2>5, <2>6 DEF Connection
<1>4. CASE StreamLost
    <2>1. PICK t \in Transports, code \in {401, 4092} : StreamEnds(t, code)
        BY <1>4 DEF StreamLost
    <2>2. Growing
        BY <2>1, ClosingGrows DEF StreamEnds, IInv
    <2>3. /\ UNCHANGED <<session, made, current, epoch, fresh, torn,
                         fruitless, serverEpoch>>
          /\ OnClose(code)
        BY <2>1 DEF StreamEnds, serverVars
    <2>4. Aside
        BY <2>2, <2>3 DEF OnClose, Aside
    <2> QED
        BY <2>4, AsideKeeps
<1>5. CASE GetToken
    <2>1. /\ "auth" \in Recoveries /\ rec["auth"] = "token"
          /\ UNCHANGED <<session, made, current, epoch, closed, recovering,
                         fresh, fruitless, torn, serverEpoch>>
          /\ \/ rec' = [rec EXCEPT !["auth"] = "fetching"]
             \/ rec' = [rec EXCEPT !["auth"] = "ending"]
        BY <1>5 DEF GetToken, Recoveries, transportVars, serverVars
    <2> QED
        BY <2>1, Moves
<1>6. CASE RefreshTimer
    BY <1>6, RefreshTimerKeeps
<1>7. ASSUME NEW r \in Recoveries, Recover(r) PROVE IInv'
    <2>1. CASE FetchFails(r)
        <3>1. /\ rec[r] = "fetching" /\ fruitless' = TRUE
              /\ rec' = [rec EXCEPT ![r] = "ending"]
              /\ UNCHANGED <<session, made, current, epoch, closed,
                             recovering, fresh, torn, serverEpoch>>
            BY <2>1 DEF FetchFails, transportVars, serverVars
        <3> QED
            BY <3>1, Moves
    <2> QED
        BY <1>7, <2>1, FetchKeeps, RebuildKeeps, CreateKeeps,
           RecoveryEndsKeeps DEF Recover
<1>8. CASE Teardown
    <2>1. /\ torn' = "archiving" /\ torn = "no"
          /\ UNCHANGED <<session, made, current, epoch, closed, recovering,
                         rec, fresh, fruitless, serverEpoch>>
        BY <1>8 DEF Teardown, recoveryVars, serverVars
    <2> QED
        BY <2>1 DEF IInv, Typed, Transports, Single, Counted, Shut, Newest
<1>9. CASE Archived
    BY <1>9, ArchivedKeeps
<1> QED
    BY <1>1, <1>2, <1>3, <1>4, <1>5, <1>6, <1>7, <1>8, <1>9 DEF Next

\* Of all the transports the bridge ever made at most one is open, and none is
\* left open behind a teardown, wherever the teardown met a recovery.
THEOREM OneTransportOpen == Spec => []OneOpen
<1>1. Init => IInv
    BY InitIInv
<1>2. IInv /\ [Next]_vars => IInv'
    BY NextIInv
<1>3. IInv => OneOpen
    <2> SUFFICES ASSUME IInv PROVE OneOpen
        OBVIOUS
    <2>1. \A t \in 1..made : t # made => closed[t]
        BY DEF IInv, Shut
    <2>2. torn = "done" => closed[made]
        BY DEF IInv, Shut
    <2> QED
        BY <2>1, <2>2 DEF OneOpen
<1> QED
    BY <1>1, <1>2, <1>3, PTL DEF Spec

\* A transport that is still open when no recovery is under way was registered
\* last, so that the server accepts what it sends.
THEOREM OpenIsNewest == Spec => []NewestEpoch
<1>1. Init => IInv
    BY InitIInv
<1>2. IInv /\ [Next]_vars => IInv'
    BY NextIInv
<1>3. IInv => NewestEpoch
    BY DEF IInv, Typed, Newest, NewestEpoch, Stale
<1> QED
    BY <1>1, <1>2, <1>3, PTL DEF Spec

-----------------------------------------------------------------------------
(* Sequences of messages *)

\* u is what s holds from place k + 1 on, or the beginning of that.
Piece(u, s, k) == \A i \in DOMAIN u : i + k \in DOMAIN s /\ u[i] = s[i + k]

LEMMA TailIsPiece ==
    ASSUME NEW s \in Seq(Messages), s # <<>>
    PROVE  /\ Tail(s) \in Seq(Messages) /\ Head(s) \in Messages
           /\ Head(s) = s[1] /\ 1 \in DOMAIN s
           /\ Piece(Tail(s), s, 1)
<1>1. /\ Tail(s) \in Seq(Messages) /\ Head(s) = s[1]
      /\ Len(Tail(s)) = Len(s) - 1 /\ Len(s) \in Nat \ {0}
      /\ \A i \in 1..Len(Tail(s)) : Tail(s)[i] = s[i + 1]
    BY HeadTailProperties, EmptySeq
<1> QED
    BY <1>1 DEF Piece

LEMMA FirstIsPiece ==
    ASSUME NEW s \in Seq(Messages), NEW n \in 0..Len(s)
    PROVE  SubSeq(s, 1, n) \in Seq(Messages) /\ Piece(SubSeq(s, 1, n), s, 0)
<1>1. n \in Nat /\ Len(s) \in Nat /\ n <= Len(s)
    BY LenProperties
<1>2. CASE n = 0
    <2>1. SubSeq(s, 1, n) = <<>>
        BY <1>2, SubSeqEmpty
    <2> QED
        BY <2>1 DEF Piece
<1>3. CASE n # 0
    <2>1. /\ SubSeq(s, 1, n) \in Seq(Messages) /\ Len(SubSeq(s, 1, n)) = n
          /\ \A i \in 1..n : SubSeq(s, 1, n)[i] = s[i]
        BY <1>1, <1>3, SubSeqProperties
    <2> QED
        BY <1>1, <2>1 DEF Piece
<1> QED
    BY <1>2, <1>3

LEMMA ConcatTyped ==
    ASSUME NEW s \in Seq(Messages), NEW u \in Seq(Messages)
    PROVE  /\ s \o u \in Seq(Messages)
           /\ DOMAIN s = 1..Len(s) /\ Len(s) \in Nat
           /\ DOMAIN u = 1..Len(u) /\ Len(u) \in Nat
           /\ DOMAIN (s \o u) = 1..(Len(s) + Len(u))
           /\ \A i \in DOMAIN s : i \in DOMAIN (s \o u) /\ (s \o u)[i] = s[i]
           /\ \A i \in DOMAIN (s \o u) :
                \/ i \in DOMAIN s /\ (s \o u)[i] = s[i]
                \/ /\ i > Len(s) /\ i - Len(s) \in DOMAIN u
                   /\ (s \o u)[i] = u[i - Len(s)]
OBVIOUS

LEMMA SingleTyped ==
    ASSUME NEW m \in Messages
    PROVE  /\ <<m>> \in Seq(Messages) /\ DOMAIN <<m>> = {1} /\ <<m>>[1] = m
           /\ \A s \in Seq(Messages) : Append(s, m) = s \o <<m>>
OBVIOUS

-----------------------------------------------------------------------------
(* Types *)

Clients == {"none", "registering", "restoring", "ready", "failed"}
States  == {"ready", "connected", "reconnecting", "failed"}

\* The types that the argument above does not need.
Contents ==
    /\ session \in Sessions
    /\ epoch \in [Transports -> 1..session.epochs]
    /\ client \in [Transports -> Clients]
    /\ sse \in [Transports -> BOOLEAN] /\ beat \in [Transports -> BOOLEAN]
    /\ queue \in [Transports -> Seq(Messages)]
    /\ gate \in [active : BOOLEAN, pending : Seq(Messages)]
    /\ ~gate.active => gate.pending = <<>>
    /\ flushDone \in BOOLEAN /\ flushing \subseteq 1..made
    /\ fruitless \in BOOLEAN /\ state \in States
    /\ fresh \in [Recoveries -> 0..session.epochs]
    /\ 1 <= serverEpoch
    /\ log \in Seq(Messages)
    /\ written \in 0..session.live

LEMMA EnqueueTyped ==
    ASSUME queue \in [Transports -> Seq(Messages)], NEW t \in Transports,
           NEW s \in Seq(Messages), Enqueue(t, s)
    PROVE  /\ queue' \in [Transports -> Seq(Messages)]
           /\ \A u \in Transports : u # t => queue'[u] = queue[u]
           /\ queue'[t] = IF closed[t] THEN queue[t] ELSE queue[t] \o s
<1>1. queue[t] \o s \in Seq(Messages)
    BY ConcatTyped
<1> QED
    BY <1>1 DEF Enqueue

LEMMA CloseTyped ==
    ASSUME queue \in [Transports -> Seq(Messages)],
           sse \in [Transports -> BOOLEAN], beat \in [Transports -> BOOLEAN],
           NEW t \in Transports,
           Close(t) \/ UNCHANGED <<closed, sse, beat, queue>>
    PROVE  /\ queue' \in [Transports -> Seq(Messages)]
           /\ sse' \in [Transports -> BOOLEAN]
           /\ beat' \in [Transports -> BOOLEAN]
           /\ \A u \in Transports : Piece(queue'[u], queue[u], 0)
<1>0. \A s \in Seq(Messages) : Piece(s, s, 0)
    BY DEF Piece
<1>1. CASE Close(t)
    <2>1. PICK n \in 0..Len(queue[t]) :
                queue' = [queue EXCEPT ![t] = SubSeq(@, 1, n)]
        BY <1>1 DEF Close
    <2>2. /\ SubSeq(queue[t], 1, n) \in Seq(Messages)
          /\ Piece(SubSeq(queue[t], 1, n), queue[t], 0)
        BY FirstIsPiece
    <2>3. /\ queue' \in [Transports -> Seq(Messages)]
          /\ queue'[t] = SubSeq(queue[t], 1, n)
          /\ \A u \in Transports : u # t => queue'[u] = queue[u]
        BY <2>1, <2>2
    <2>4. \A u \in Transports : Piece(queue'[u], queue[u], 0)
        BY <1>0, <2>2, <2>3
    <2> QED
        BY <1>1, <2>3, <2>4 DEF Close
<1>2. CASE UNCHANGED <<closed, sse, beat, queue>>
    BY <1>0, <1>2
<1> QED
    BY <1>1, <1>2

LEMMA OnCloseTyped ==
    ASSUME NEW code, OnClose(code), state \in States
    PROVE  state' \in States
BY DEF OnClose, States

LEMMA ContentsInit == Init => Contents
<1> SUFFICES ASSUME Init PROVE Contents
    OBVIOUS
<1>1. session \in Sessions /\ session \in Session
    BY SessionsAssumption DEF Init
<1>2. session.initial \in BOOLEAN /\ 1 \in 1..session.epochs
      /\ 0 \in 0..session.live /\ 0 \in 0..session.epochs
    BY <1>1 DEF Session
<1>3. /\ epoch \in [Transports -> 1..session.epochs]
      /\ client \in [Transports -> Clients]
      /\ sse \in [Transports -> BOOLEAN] /\ beat \in [Transports -> BOOLEAN]
      /\ queue \in [Transports -> Seq(Messages)]
      /\ fresh \in [Recoveries -> 0..session.epochs]
    BY <1>2 DEF Init, Clients
<1>4. /\ gate \in [active : BOOLEAN, pending : Seq(Messages)]
      /\ gate.pending = <<>> /\ log \in Seq(Messages)
    BY <1>2 DEF Init
<1>5. flushDone \in BOOLEAN /\ flushing = {} /\ fruitless \in BOOLEAN
    BY DEF Init
<1>6. state \in States /\ 1 <= serverEpoch /\ written \in 0..session.live
    BY <1>2 DEF Init, States
<1> QED
    BY <1>1, <1>3, <1>4, <1>5, <1>6 DEF Contents

\* A connection's steps.
LEMMA ContentsConnection ==
    ASSUME IInv, Contents, NEW t \in Transports, Connection(t)
    PROVE  Contents'
<1> USE DEF Contents
<1>0. /\ Transports' = Transports /\ current \in Transports /\ current \in 1..made
      /\ session \in Session /\ gate.pending \in Seq(Messages)
      /\ <<History>> \in Seq(Messages) /\ made' = made
    <2>1. session' = session /\ made' = made
        BY DEF Connection, Deliver, Rejected, FlushReturns, Register, Restored,
               InitFails
    <2> QED
        BY <2>1, MadeIsTransport, SingleTyped DEF IInv, Typed, Transports, Messages
<1>1. CASE Deliver(t)
    <2>1. queue[t] \in Seq(Messages) /\ queue[t] # <<>>
        BY <1>1 DEF Deliver
    <2>2. Tail(queue[t]) \in Seq(Messages) /\ Head(queue[t]) \in Messages
        BY <2>1, TailIsPiece
    <2>3. log' \in Seq(Messages)
        BY <1>1, <2>2, SingleTyped, ConcatTyped DEF Deliver, Arrived
    <2>4. queue' \in [Transports -> Seq(Messages)]
        BY <1>1, <2>2 DEF Deliver
    <2> QED
        BY <1>0, <1>1, <2>3, <2>4 DEF Deliver, gateVars, recoveryVars
<1>2. CASE Rejected(t) \/ InitFails(t)
    <2>1. /\ queue' \in [Transports -> Seq(Messages)]
          /\ sse' \in [Transports -> BOOLEAN] /\ beat' \in [Transports -> BOOLEAN]
        <3>1. CASE /\ queue' = [queue EXCEPT ![t] = <<>>]
                   /\ beat' = [beat EXCEPT ![t] = FALSE] /\ sse' = sse
            BY <3>1
        <3>2. CASE Superseded(t)
            BY <3>2, CloseTyped DEF Superseded
        <3> QED
            BY <1>2, <3>1, <3>2 DEF Rejected, InitFails
    <2>2. client' \in [Transports -> Clients]
        BY <1>2 DEF Rejected, InitFails, Clients
    <2>3. state' \in States
        BY <1>2, OnCloseTyped DEF Rejected, InitFails, Superseded
    <2>4. UNCHANGED <<session, made, epoch, gateVars, fresh, fruitless, serverVars,
                      written>>
        BY <1>2 DEF Rejected, InitFails
    <2> QED
        BY <1>0, <2>1, <2>2, <2>3, <2>4 DEF gateVars, serverVars
<1>3. CASE FlushReturns(t)
    <2>1. CASE UNCHANGED <<gate, queue, state>>
        BY <1>0, <1>3, <2>1 DEF FlushReturns, recoveryVars, serverVars
    <2>2. CASE Drain(current) /\ state' = "connected"
        <3>1. queue' \in [Transports -> Seq(Messages)]
            BY <1>0, <2>2, EnqueueTyped DEF Drain
        <3>2. gate' \in [active : BOOLEAN, pending : Seq(Messages)] /\ gate'.pending = <<>>
            BY <2>2 DEF Drain, NoGate
        <3> QED
            BY <1>0, <1>3, <2>2, <3>1, <3>2
            DEF FlushReturns, recoveryVars, serverVars, States
    <2> QED
        BY <1>3, <2>1, <2>2 DEF FlushReturns
<1>4. CASE Register(t)
    BY <1>0, <1>4 DEF Register, gateVars, recoveryVars, serverVars, Clients
<1>5. CASE Restored(t)
    <2>1. client' \in [Transports -> Clients]
        BY <1>5 DEF Restored, Clients
    <2>2. /\ queue' \in [Transports -> Seq(Messages)] /\ state' \in States
          /\ flushDone' \in BOOLEAN /\ flushing' \subseteq 1..made
        <3>1. CASE session.initial /\ ~flushDone
            <4>1. /\ flushDone' = TRUE /\ flushing' = flushing \union {current}
                  /\ Enqueue(current, <<History>>) /\ state' = state
                BY <1>5, <3>1 DEF Restored, OnConnect
            <4>2. queue' \in [Transports -> Seq(Messages)]
                BY <1>0, <4>1, EnqueueTyped
            <4> QED
                BY <1>0, <4>1, <4>2
        <3>2. CASE ~(session.initial /\ ~flushDone)
            BY <1>5, <3>2 DEF Restored, OnConnect, States
        <3> QED
            BY <3>1, <3>2
    <2> QED
        BY <1>0, <1>5, <2>1, <2>2 DEF Restored, recoveryVars, serverVars
<1> QED
    BY <1>1, <1>2, <1>3, <1>4, <1>5 DEF Connection

LEMMA ContentsRecover ==
    ASSUME IInv, Contents, NEW r \in Recoveries, Recover(r)
    PROVE  Contents'
<1> USE DEF Contents
<1>0. /\ Transports' = Transports /\ current \in Transports
      /\ session \in Session /\ session' = session
      /\ gate.pending \in Seq(Messages) /\ made \in Nat
    <2>1. session' = session
        BY DEF Recover, Fetch, FetchFails, Rebuild, Create, RecoveryEnds
    <2> QED
        BY <2>1, MadeIsTransport DEF IInv, Typed, Transports
<1>1. CASE Fetch(r)
    <2>1. serverEpoch' = serverEpoch + 1 /\ serverEpoch < session.epochs
        BY <1>1 DEF Fetch
    <2>2. serverEpoch' \in 0..session.epochs /\ 1 <= serverEpoch'
        BY <1>0, <2>1 DEF IInv, Typed, Session
    <2>3. fresh' \in [Recoveries -> 0..session.epochs]
        BY <1>1, <2>2 DEF Fetch
    <2> QED
        BY <1>0, <1>1, <2>2, <2>3 DEF Fetch, transportVars, gateVars
<1>2. CASE FetchFails(r)
    BY <1>0, <1>2 DEF FetchFails, transportVars, gateVars, serverVars, States
<1>3. CASE Rebuild(r)
    <2>1. /\ queue' \in [Transports -> Seq(Messages)]
          /\ sse' \in [Transports -> BOOLEAN] /\ beat' \in [Transports -> BOOLEAN]
        BY <1>0, <1>3, CloseTyped DEF Rebuild, CloseCurrent
    <2>2. 0 \in 0..session.epochs
        BY <1>0 DEF Session
    <2>3. fresh' \in [Recoveries -> 0..session.epochs] /\ flushDone' \in BOOLEAN
        BY <1>3, <2>2 DEF Rebuild
    <2>4. /\ gate' \in [active : BOOLEAN, pending : Seq(Messages)]
          /\ ~gate'.active => gate'.pending = <<>>
        BY <1>3 DEF Rebuild
    <2> QED
        BY <1>0, <1>3, <2>1, <2>3, <2>4 DEF Rebuild, serverVars
<1>4. CASE Create(r)
    <2>1. /\ made + 1 \in Transports /\ 0 \in 0..session.epochs
          /\ fresh[r] \in 1..session.epochs
        BY <1>0, <1>4, MadeIsTransport DEF Create, IInv, Typed, Counted, Session
    <2>2. /\ epoch' \in [Transports -> 1..session.epochs]
          /\ fresh' \in [Recoveries -> 0..session.epochs]
        BY <1>4, <2>1 DEF Create
    <2>3. /\ client' \in [Transports -> Clients] /\ sse' \in [Transports -> BOOLEAN]
        BY <1>4, <2>1 DEF Create, Clients
    <2>4. queue' \in [Transports -> Seq(Messages)]
        BY <1>0, <1>4, <2>1, EnqueueTyped DEF Create, Drain
    <2>5. gate' \in [active : BOOLEAN, pending : Seq(Messages)] /\ gate'.pending = <<>>
        <3>1. gate' = NoGate
            BY <1>4 DEF Create, Drain
        <3>2. NoGate.pending = <<>> /\ NoGate.active = FALSE
            BY DEF NoGate
        <3>3. NoGate \in [active : BOOLEAN, pending : Seq(Messages)]
            BY DEF NoGate
        <3> QED
            BY <3>1, <3>2, <3>3
    <2>6. flushing' \subseteq 1..made'
        BY <1>0, <1>4 DEF Create
    <2> QED
        BY <1>0, <1>4, <2>2, <2>3, <2>4, <2>5, <2>6 DEF Create, serverVars
<1>5. CASE RecoveryEnds(r)
    BY <1>0, <1>5 DEF RecoveryEnds, transportVars, gateVars, serverVars
<1> QED
    BY <1>1, <1>2, <1>3, <1>4, <1>5 DEF Recover

LEMMA ContentsNext ==
    ASSUME IInv, Contents, [Next]_vars
    PROVE  Contents'
<1> USE DEF Contents
<1>0. /\ current \in Transports /\ session \in Session
      /\ gate.pending \in Seq(Messages) /\ <<Result>> \in Seq(Messages)
    BY MadeIsTransport, SingleTyped DEF IInv, Typed, Messages
<1>1. CASE UNCHANGED vars
    BY <1>1 DEF vars, transportVars, gateVars, recoveryVars, serverVars, Transports
<1>2. CASE WriteMessages
    <2>1. /\ written' = written + 1 /\ written < session.live
          /\ session' = session /\ Transports' = Transports
        BY <1>2 DEF WriteMessages, Transports
    <2>2. written' \in 0..session.live /\ written' \in Messages
        BY <1>0, <2>1 DEF Session, Messages, Live
    <2>3. /\ gate' \in [active : BOOLEAN, pending : Seq(Messages)]
          /\ ~gate'.active => gate'.pending = <<>>
        <3>1. Append(gate.pending, written') \in Seq(Messages)
            BY <1>0, <2>2
        <3> QED
            BY <1>2, <3>1 DEF WriteMessages, Gated
    <2>4. queue' \in [Transports -> Seq(Messages)]
        BY <1>0, <1>2, <2>2, EnqueueTyped, SingleTyped DEF WriteMessages
    <2> QED
        BY <1>2, <2>1, <2>2, <2>3, <2>4 DEF WriteMessages, recoveryVars, serverVars
<1>3. ASSUME NEW t \in Transports, Connection(t) PROVE Contents'
    BY <1>3, ContentsConnection
<1>4. CASE StreamLost
    <2>1. PICK t \in Transports, code \in {401, 4092} : StreamEnds(t, code)
        BY <1>4 DEF StreamLost
    <2>2. /\ queue' \in [Transports -> Seq(Messages)]
          /\ sse' \in [Transports -> BOOLEAN] /\ beat' \in [Transports -> BOOLEAN]
        BY <2>1, CloseTyped DEF StreamEnds
    <2>3. state' \in States
        BY <2>1, OnCloseTyped DEF StreamEnds
    <2> QED
        BY <2>1, <2>2, <2>3 DEF StreamEnds, gateVars, serverVars, Transports
<1>5. CASE GetToken \/ RefreshTimer
    <2>1. UNCHANGED <<session, transportVars, gateVars, fresh, fruitless,
                      serverVars, written>>
        BY <1>5 DEF GetToken, RefreshTimer
    <2>2. state' \in States
        BY <1>5 DEF GetToken, RefreshTimer, States
    <2> QED
        BY <2>1, <2>2 DEF transportVars, gateVars, serverVars, Transports
<1>6. ASSUME NEW r \in Recoveries, Recover(r) PROVE Contents'
    BY <1>6, ContentsRecover
<1>7. CASE Teardown
    <2>1. queue' \in [Transports -> Seq(Messages)]
        BY <1>0, <1>7, EnqueueTyped DEF Teardown
    <2>2. gate' \in [active : BOOLEAN, pending : Seq(Messages)] /\ gate'.pending = <<>>
        BY <1>7 DEF Teardown, NoGate
    <2> QED
        BY <1>7, <2>1, <2>2 DEF Teardown, recoveryVars, serverVars, Transports
<1>8. CASE Archived
    <2>1. /\ queue' \in [Transports -> Seq(Messages)]
          /\ sse' \in [Transports -> BOOLEAN] /\ beat' \in [Transports -> BOOLEAN]
        BY <1>0, <1>8, CloseTyped DEF Archived, CloseCurrent
    <2> QED
        BY <1>8, <2>1 DEF Archived, gateVars, recoveryVars, serverVars, Transports
<1> QED
    BY <1>1, <1>2, <1>3, <1>4, <1>5, <1>6, <1>7, <1>8 DEF Next

Bridge == IInv /\ Contents

LEMMA BridgeInvariant == Spec => []Bridge
<1>1. Init => Bridge
    BY InitIInv, ContentsInit DEF Bridge
<1>2. Bridge /\ [Next]_vars => Bridge'
    BY NextIInv, ContentsNext DEF Bridge
<1> QED
    BY <1>1, <1>2, PTL DEF Spec

\* Every variable keeps its type; a closed gate holds no messages, and no
\* recovery goes beyond the worker registrations there are.
THEOREM TypeCorrect == Spec => []TypeOK
<1>1. Bridge => TypeOK
    <2> SUFFICES ASSUME Bridge PROVE TypeOK
        OBVIOUS
    <2>1. /\ made \in Transports /\ current \in 1..made
          /\ serverEpoch \in 1..session.epochs
        BY MadeIsTransport DEF Bridge, IInv, Typed, Contents, Session
    <2>2. {closed, sse, beat} \subseteq [Transports -> BOOLEAN]
          /\ {recovering, fruitless} \subseteq BOOLEAN
        BY DEF Bridge, IInv, Typed, Contents
    <2> QED
        BY <2>1, <2>2
        DEF Bridge, IInv, Typed, Places, Contents, Clients, States, TypeOK
<1> QED
    BY <1>1, BridgeInvariant, PTL

-----------------------------------------------------------------------------
(* Which transport may still deliver *)

\* Only the last transport has the server's epoch; when a recovery has got new
\* credentials not even that one has.
Behind ==
    /\ \A t \in 1..made : epoch[t] <= serverEpoch
    /\ \A t \in 1..made : t # made => epoch[t] < serverEpoch
    /\ \A r \in Recoveries : rec[r] \in {"fetched", "creating"} =>
            epoch[made] < serverEpoch

LEMMA BehindNext ==
    ASSUME Bridge, Behind, [Next]_vars
    PROVE  Behind'
<1>0. /\ 1..made \subseteq Transports /\ made \in Transports /\ made \in Nat \ {0}
      /\ rec \in [Recoveries -> Places] /\ epoch \in [Transports -> Nat]
      /\ serverEpoch \in Nat
    BY MadeIsTransport DEF Bridge, IInv, Typed
<1>1. CASE /\ UNCHANGED <<made, epoch, serverEpoch>>
           /\ \A r \in Recoveries : rec'[r] \in {"fetched", "creating"} =>
                    rec[r] \in {"fetched", "creating"}
    BY <1>1 DEF Behind
<1>2. ASSUME NEW r \in Recoveries, Fetch(r) PROVE Behind'
    <2>1. made' = made /\ epoch' = epoch /\ serverEpoch' = serverEpoch + 1
        BY <1>2 DEF Fetch, transportVars
    <2> QED
        BY <1>0, <2>1 DEF Behind
<1>3. ASSUME NEW r \in Recoveries, Create(r) PROVE Behind'
    <2>1. /\ made' = made + 1 /\ serverEpoch' = serverEpoch /\ rec[r] = "creating"
          /\ epoch' = [epoch EXCEPT ![made + 1] = fresh[r]]
          /\ rec' = [rec EXCEPT ![r] = "ending"]
        BY <1>3 DEF Create, serverVars
    <2>2. /\ fresh[r] = serverEpoch /\ made + 1 \in Transports
          /\ \A s \in Recoveries : s # r => rec[s] = "no"
        BY <2>1, MadeIsTransport, Others DEF Bridge, IInv, Counted
    <2>3. epoch'[made + 1] = serverEpoch /\ \A t \in 1..made : epoch'[t] = epoch[t]
        BY <1>0, <2>1, <2>2
    <2>4. \A t \in 1..made : epoch[t] < serverEpoch
        BY <1>0, <2>1 DEF Behind
    <2>5. \A t \in 1..made' : t = made + 1 \/ t \in 1..made
        BY <1>0, <2>1
    <2>6. \A s \in Recoveries : rec'[s] \in {"no", "ending"}
        BY <1>0, <2>1, <2>2
    <2> QED
        BY <1>0, <2>1, <2>3, <2>4, <2>5, <2>6 DEF Behind
<1>4. CASE UNCHANGED vars
    BY <1>1, <1>4 DEF vars, transportVars, recoveryVars, serverVars
<1>5. CASE WriteMessages \/ Teardown \/ Archived
    BY <1>1, <1>5 DEF WriteMessages, Teardown, Archived, recoveryVars, serverVars
<1>6. ASSUME NEW t \in Transports,
             Connection(t) \/ (\E code \in {401, 4092} : StreamEnds(t, code))
      PROVE  Behind'
    <2>1. UNCHANGED <<made, epoch, serverEpoch>>
        BY <1>6 DEF Connection, Deliver, Rejected, FlushReturns, Register, Restored,
                    InitFails, StreamEnds, serverVars
    <2>2. rec' = rec \/ rec' = [rec EXCEPT !["auth"] = "token"]
        BY <1>6 DEF Connection, Deliver, Rejected, FlushReturns, Register, Restored,
                    InitFails, StreamEnds, recoveryVars, Superseded, OnClose
    <2> QED
        BY <1>0, <1>1, <2>1, <2>2
<1>7. CASE GetToken \/ RefreshTimer
    <2>1. UNCHANGED <<made, epoch, serverEpoch>>
        BY <1>7 DEF GetToken, RefreshTimer, transportVars, serverVars
    <2>2. \/ rec' = [rec EXCEPT !["auth"] = "fetching"]
          \/ rec' = [rec EXCEPT !["auth"] = "ending"]
          \/ rec' = [rec EXCEPT !["refresh"] = "fetching"]
        BY <1>7 DEF GetToken, RefreshTimer
    <2> QED
        BY <1>0, <1>1, <2>1, <2>2
<1>8. ASSUME NEW r \in Recoveries, FetchFails(r) \/ Rebuild(r) \/ RecoveryEnds(r)
      PROVE  Behind'
    <2>1. UNCHANGED <<made, epoch, serverEpoch>>
        BY <1>8 DEF FetchFails, Rebuild, RecoveryEnds, transportVars, serverVars
    <2>2. \/ rec' = [rec EXCEPT ![r] = "ending"]
          \/ rec' = [rec EXCEPT ![r] = "no"]
          \/ rec[r] = "fetched" /\ rec' = [rec EXCEPT ![r] = "creating"]
        BY <1>8 DEF FetchFails, Rebuild, RecoveryEnds
    <2> QED
        BY <1>0, <1>1, <2>1, <2>2
<1> QED
    BY <1>2, <1>3, <1>4, <1>5, <1>6, <1>7, <1>8 DEF Next, StreamLost, Recover

-----------------------------------------------------------------------------
(* What a step does to the messages *)

\* Nothing, but that queues lose messages when their transport is closed.
Shrinks ==
    /\ UNCHANGED <<session, made, log, written>>
    /\ gate'.pending = gate.pending /\ (gate.active => gate'.active)
    /\ flushing' \subseteq flushing
    /\ torn' = "no" => torn = "no"
    /\ closed[made] => closed'[made]
    /\ closed'[made] \/ queue'[made] = queue[made]
    /\ \A t \in Transports : Piece(queue'[t], queue[t], 0)

FlushBegins(t) == Restored(t) /\ session.initial /\ ~flushDone
FlushEnds(t)   == FlushReturns(t) /\ ~FlushStale(t)

\* A transport is closed, or nothing happens to it.
LEMMA ClosingShrinks ==
    ASSUME Bridge, NEW t \in Transports,
           Close(t) \/ UNCHANGED <<closed, sse, beat, queue>>,
           UNCHANGED <<session, made, log, written, flushing>>,
           torn' = "no" => torn = "no",
           gate'.pending = gate.pending, gate.active => gate'.active
    PROVE  Shrinks
<1>1. \A u \in Transports : Piece(queue'[u], queue[u], 0)
    BY CloseTyped DEF Bridge, Contents
<1>2. /\ closed[made] => closed'[made]
      /\ closed'[made] \/ queue'[made] = queue[made]
    <2>1. CASE Close(t)
        <3>1. closed' = [closed EXCEPT ![t] = TRUE]
            BY <2>1 DEF Close
        <3>2. \A u \in Transports : u # t => queue'[u] = queue[u]
            BY <2>1 DEF Close, Bridge, Contents
        <3> QED
            BY <3>1, <3>2, MadeIsTransport DEF Bridge, IInv, Typed
    <2>2. CASE UNCHANGED <<closed, sse, beat, queue>>
        BY <2>2
    <2> QED
        BY <2>1, <2>2
<1> QED
    BY <1>1, <1>2 DEF Shrinks

LEMMA WhatSteps ==
    ASSUME Bridge, [Next]_vars
    PROVE  \/ Shrinks \/ WriteMessages \/ Teardown
           \/ \E t \in Transports : Deliver(t) \/ FlushBegins(t) \/ FlushEnds(t)
           \/ \E r \in Recoveries : Create(r)
<1>0. /\ current \in Transports /\ current = made
      /\ queue \in [Transports -> Seq(Messages)]
    BY MadeIsTransport DEF Bridge, IInv, Typed, Contents
<1>1. CASE UNCHANGED <<session, made, closed, sse, beat, queue, log, written, gate,
                       flushing, torn>>
    BY <1>0, <1>1, ClosingShrinks
<1>2. CASE UNCHANGED vars
    BY <1>1, <1>2 DEF vars, transportVars, gateVars, serverVars
<1>3. ASSUME NEW t \in Transports, Connection(t), ~Deliver(t), ~FlushBegins(t),
             ~FlushEnds(t)
      PROVE  Shrinks
    <2>1. CASE Rejected(t) /\ closed[t]
        <3>1. /\ queue' = [queue EXCEPT ![t] = <<>>] /\ closed' = closed
              /\ UNCHANGED <<session, made, log, written, gate, flushing, torn>>
            BY <2>1 DEF Rejected, gateVars, serverVars
        <3>2. \A u \in Transports : Piece(queue'[u], queue[u], 0)
            BY <1>0, <3>1 DEF Piece
        <3>3. closed'[made] \/ queue'[made] = queue[made]
            BY <1>0, <2>1, <3>1
        <3> QED
            BY <3>1, <3>2, <3>3 DEF Shrinks
    <2>2. CASE InitFails(t) \/ (Rejected(t) /\ ~closed[t])
        <3>1. /\ Close(t) \/ UNCHANGED <<closed, sse, beat, queue>>
              /\ UNCHANGED <<session, made, log, written, gate, flushing, torn>>
            BY <2>2 DEF Rejected, InitFails, Superseded, gateVars, serverVars
        <3> QED
            BY <3>1, ClosingShrinks
    <2>3. CASE FlushReturns(t)
        <3>1. /\ UNCHANGED <<gate, queue>> /\ flushing' = flushing \ {t}
              /\ UNCHANGED <<session, made, closed, log, written, torn>>
            BY <1>3, <2>3 DEF FlushEnds, FlushReturns, serverVars
        <3>2. \A u \in Transports : Piece(queue'[u], queue[u], 0)
            BY <1>0, <3>1 DEF Piece
        <3> QED
            BY <3>1, <3>2 DEF Shrinks
    <2>4. CASE Register(t)
        <3>1. UNCHANGED <<session, made, closed, queue, log, written, gate, flushing,
                          torn>>
            BY <2>4 DEF Register, gateVars, serverVars
        <3>2. \A u \in Transports : Piece(queue'[u], queue[u], 0)
            BY <1>0, <3>1 DEF Piece
        <3> QED
            BY <3>1, <3>2 DEF Shrinks
    <2>5. CASE Restored(t)
        <3>1. UNCHANGED <<session, made, closed, sse, beat, queue, log, written, gate,
                          flushing, torn>>
            BY <1>3, <2>5 DEF Restored, FlushBegins, OnConnect, serverVars
        <3> QED
            BY <1>0, <3>1, ClosingShrinks
    <2> QED
        BY <1>3, <2>1, <2>2, <2>3, <2>4, <2>5 DEF Connection
<1>4. CASE StreamLost
    <2>1. PICK t \in Transports, code \in {401, 4092} : StreamEnds(t, code)
        BY <1>4 DEF StreamLost
    <2> QED
        BY <2>1, ClosingShrinks DEF StreamEnds, gateVars, serverVars
<1>5. CASE GetToken \/ RefreshTimer
    BY <1>1, <1>5 DEF GetToken, RefreshTimer, transportVars, gateVars, serverVars
<1>6. ASSUME NEW r \in Recoveries, Recover(r), ~Create(r) PROVE Shrinks
    <2>1. CASE Fetch(r) \/ FetchFails(r) \/ RecoveryEnds(r)
        <3>1. UNCHANGED <<session, made, closed, sse, beat, queue, log, written, gate,
                          flushing, torn>>
            BY <2>1 DEF Fetch, FetchFails, RecoveryEnds, transportVars, gateVars,
                        serverVars
        <3> QED
            BY <1>0, <3>1, ClosingShrinks
    <2>2. CASE Rebuild(r)
        <3>1. /\ UNCHANGED <<session, made, log, written, flushing, torn>>
              /\ Close(current) \/ UNCHANGED <<closed, sse, beat, queue>>
            BY <2>2 DEF Rebuild, CloseCurrent, serverVars
        <3>2. gate'.pending = gate.pending /\ (gate.active => gate'.active)
            BY <2>2 DEF Rebuild, Bridge, Contents
        <3> QED
            BY <1>0, <3>1, <3>2, ClosingShrinks
    <2> QED
        BY <1>6, <2>1, <2>2 DEF Recover
<1>7. CASE Archived
    <2>1. /\ UNCHANGED <<session, made, log, written, flushing, gate>>
          /\ Close(current) \/ UNCHANGED <<closed, sse, beat, queue>>
          /\ torn' = "done"
        BY <1>7 DEF Archived, CloseCurrent, gateVars, serverVars
    <2> QED
        BY <1>0, <2>1, ClosingShrinks
<1> QED
    BY <1>2, <1>3, <1>4, <1>5, <1>6, <1>7 DEF Next

-----------------------------------------------------------------------------
(* Order *)

\* The live messages of s rise; those of s are below those of u; none is above
\* n.
Rising(s)   == \A i, j \in DOMAIN s :
                    i < j /\ s[i] \in Live /\ s[j] \in Live => s[i] < s[j]
Below(s, u) == \A i \in DOMAIN s, j \in DOMAIN u :
                    s[i] \in Live /\ u[j] \in Live => s[i] < u[j]
UpTo(s, n)  == \A i \in DOMAIN s : s[i] \in Live => s[i] <= n

\* What the server has, then the last transport's queue, then the gate.
Sorted ==
    /\ Rising(log) /\ Rising(queue[made]) /\ Rising(gate.pending)
    /\ Below(log, queue[made]) /\ Below(log, gate.pending)
    /\ Below(queue[made], gate.pending)
    /\ UpTo(log, written) /\ UpTo(queue[made], written)
    /\ UpTo(gate.pending, written)

Unmade == \A t \in Transports : t > made => queue[t] = <<>>

LEMMA PieceSorted ==
    ASSUME NEW u \in Seq(Messages), NEW s, NEW k \in Nat, Piece(u, s, k)
    PROVE  /\ Rising(s) => Rising(u)
           /\ \A w : Below(s, w) => Below(u, w)
           /\ \A w : Below(w, s) => Below(w, u)
           /\ \A n : UpTo(s, n) => UpTo(u, n)
<1>1. DOMAIN u \subseteq Nat
    OBVIOUS
<1>2. \A i, j \in DOMAIN u : i < j => i + k < j + k
    BY <1>1
<1> QED
    BY <1>2 DEF Piece, Rising, Below, UpTo

LEMMA ConcatSorted ==
    ASSUME NEW s \in Seq(Messages), NEW u \in Seq(Messages)
    PROVE  /\ Rising(s) /\ Rising(u) /\ Below(s, u) => Rising(s \o u)
           /\ \A w : Below(s, w) /\ Below(u, w) => Below(s \o u, w)
           /\ \A w : Below(w, s) /\ Below(w, u) => Below(w, s \o u)
           /\ \A n : UpTo(s, n) /\ UpTo(u, n) => UpTo(s \o u, n)
<1> DEFINE c == s \o u
<1>1. \A i \in DOMAIN c :
        \/ i \in DOMAIN s /\ c[i] = s[i]
        \/ i > Len(s) /\ i - Len(s) \in DOMAIN u /\ c[i] = u[i - Len(s)]
    BY ConcatTyped
<1>2. /\ DOMAIN c \subseteq Nat /\ Len(s) \in Nat
      /\ \A i \in DOMAIN s : i <= Len(s)
    BY ConcatTyped
<1>3. ASSUME Rising(s), Rising(u), Below(s, u), NEW i \in DOMAIN c, NEW j \in DOMAIN c,
             i < j, c[i] \in Live, c[j] \in Live
      PROVE  c[i] < c[j]
    <2> HIDE DEF c
    <2>1. CASE i \in DOMAIN s /\ c[i] = s[i] /\ j \in DOMAIN s /\ c[j] = s[j]
        BY <1>3, <2>1 DEF Rising
    <2>2. CASE /\ i \in DOMAIN s /\ c[i] = s[i]
               /\ j - Len(s) \in DOMAIN u /\ c[j] = u[j - Len(s)]
        BY <1>3, <2>2 DEF Below
    <2>3. CASE /\ i - Len(s) \in DOMAIN u /\ c[i] = u[i - Len(s)]
               /\ j - Len(s) \in DOMAIN u /\ c[j] = u[j - Len(s)]
        <3>1. i - Len(s) < j - Len(s)
            BY <1>2, <1>3
        <3> QED
            BY <1>3, <2>3, <3>1 DEF Rising
    <2>4. CASE i > Len(s) /\ j \in DOMAIN s
        BY <1>2, <1>3, <2>4
    <2> QED
        BY <1>1, <1>3, <2>1, <2>2, <2>3, <2>4
<1>4. Rising(s) /\ Rising(u) /\ Below(s, u) => Rising(c)
    BY <1>3 DEF Rising
<1> HIDE DEF c
<1>5. \A w : Below(s, w) /\ Below(u, w) => Below(c, w)
    BY <1>1 DEF Below
<1>6. \A w : Below(w, s) /\ Below(w, u) => Below(w, c)
    BY <1>1 DEF Below
<1>7. \A n : UpTo(s, n) /\ UpTo(u, n) => UpTo(c, n)
    BY <1>1 DEF UpTo
<1> QED
    BY <1>4, <1>5, <1>6, <1>7 DEF c

\* A message that is not live does not matter.
LEMMA OtherSorted ==
    ASSUME NEW m \in {History, Result}
    PROVE  /\ <<m>> \in Seq(Messages) /\ Rising(<<m>>)
           /\ \A w : Below(<<m>>, w) /\ Below(w, <<m>>)
           /\ \A n : UpTo(<<m>>, n)
<1>1. m \notin Live /\ m \in Messages
    BY MessagesAssumption DEF Live, Messages
<1>2. DOMAIN <<m>> = {1} /\ <<m>>[1] = m /\ <<m>> \in Seq(Messages)
    BY <1>1
<1> QED
    BY <1>1, <1>2 DEF Rising, Below, UpTo

LEMMA EmptySorted ==
    /\ Rising(<<>>) /\ \A w : Below(<<>>, w) /\ Below(w, <<>>)
    /\ \A n : UpTo(<<>>, n)
BY DEF Rising, Below, UpTo

\* A message is added to the last transport's queue, unless that is closed.
LEMMA OtherEnqueued ==
    ASSUME Bridge, Sorted, NEW m \in {History, Result}, Enqueue(made, <<m>>),
           UNCHANGED <<made, log, written>>,
           gate'.pending = gate.pending \/ gate'.pending = <<>>
    PROVE  Sorted'
<1>1. /\ made \in Transports /\ queue \in [Transports -> Seq(Messages)]
      /\ queue[made] \in Seq(Messages) /\ <<m>> \in Seq(Messages)
    BY MadeIsTransport, OtherSorted DEF Bridge, Contents
<1>2. queue'[made] = queue[made] \/ queue'[made] = queue[made] \o <<m>>
    BY <1>1, EnqueueTyped
<1>3. /\ Rising(queue'[made]) /\ Below(log, queue'[made])
      /\ Below(queue'[made], gate.pending) /\ UpTo(queue'[made], written)
    <2>1. /\ Rising(queue[made] \o <<m>>) /\ Below(log, queue[made] \o <<m>>)
          /\ Below(queue[made] \o <<m>>, gate.pending)
          /\ UpTo(queue[made] \o <<m>>, written)
        BY <1>1, ConcatSorted, OtherSorted DEF Sorted
    <2> QED
        BY <1>2, <2>1 DEF Sorted
<1> QED
    BY <1>3, EmptySorted DEF Sorted

\* The gate's messages go to the end of the last transport's queue.
LEMMA PendingEnqueued ==
    ASSUME Bridge, Sorted, Drain(made), UNCHANGED <<made, log, written>>
    PROVE  Sorted'
<1>1. /\ made \in Transports /\ queue \in [Transports -> Seq(Messages)]
      /\ queue[made] \in Seq(Messages) /\ gate.pending \in Seq(Messages)
      /\ Enqueue(made, gate.pending) /\ gate'.pending = <<>>
    BY MadeIsTransport DEF Bridge, Contents, Drain, NoGate
<1>2. queue'[made] = queue[made] \/ queue'[made] = queue[made] \o gate.pending
    BY <1>1, EnqueueTyped
<1>3. /\ Rising(queue'[made]) /\ Below(log, queue'[made]) /\ UpTo(queue'[made], written)
    <2>1. /\ Rising(queue[made] \o gate.pending)
          /\ Below(log, queue[made] \o gate.pending)
          /\ UpTo(queue[made] \o gate.pending, written)
        BY <1>1, ConcatSorted DEF Sorted
    <2> QED
        BY <1>2, <2>1 DEF Sorted
<1> QED
    BY <1>1, <1>3, EmptySorted DEF Sorted

\* A message is the newest when it is written.
LEMMA WriteSorted ==
    ASSUME Bridge, Sorted, WriteMessages
    PROVE  Sorted'
<1>1. /\ made \in Transports /\ queue \in [Transports -> Seq(Messages)]
      /\ queue[made] \in Seq(Messages) /\ gate.pending \in Seq(Messages)
      /\ written \in Nat /\ gate \in [active : BOOLEAN, pending : Seq(Messages)]
    BY MadeIsTransport DEF Bridge, IInv, Typed, Contents, Session
<1>2. made' = made /\ log' = log /\ written' = written + 1 /\ current = made
    BY DEF WriteMessages, serverVars, Bridge, IInv, Typed
<1>3. written' \in Live /\ written' \in Messages
    BY <1>1, <1>2 DEF Live, Messages
<1> DEFINE one == <<written'>>
<1>4. one \in Seq(Messages) /\ DOMAIN one = {1} /\ one[1] = written'
    BY <1>3
<1> HIDE DEF one
<1>5. Rising(one) /\ UpTo(one, written')
    BY <1>1, <1>2, <1>4 DEF Rising, UpTo
<1>6. /\ \A s : UpTo(s, written) => Below(s, one) /\ UpTo(s, written')
    BY <1>1, <1>2, <1>4 DEF UpTo, Below, Live
<1>7. CASE Gated
    <2>1. queue' = queue /\ gate'.pending = gate.pending \o one
        BY <1>1, <1>3, <1>7, SingleTyped DEF WriteMessages, one
    <2>2. /\ Rising(gate.pending \o one) /\ UpTo(gate.pending \o one, written')
          /\ Below(log, gate.pending \o one) /\ Below(queue[made], gate.pending \o one)
        BY <1>1, <1>4, <1>5, <1>6, ConcatSorted DEF Sorted
    <2> QED
        BY <1>2, <1>6, <2>1, <2>2 DEF Sorted
<1>8. CASE ~Gated
    <2>1. /\ gate' = gate /\ Enqueue(made, one) /\ gate.pending = <<>>
        BY <1>2, <1>8 DEF WriteMessages, one, Gated, Bridge, Contents
    <2>2. queue'[made] = queue[made] \/ queue'[made] = queue[made] \o one
        BY <1>1, <1>4, <2>1, EnqueueTyped
    <2>3. /\ Rising(queue[made] \o one) /\ UpTo(queue[made] \o one, written')
          /\ Below(log, queue[made] \o one)
        BY <1>1, <1>4, <1>5, <1>6, ConcatSorted DEF Sorted
    <2> QED
        BY <1>2, <1>6, <2>1, <2>2, <2>3, EmptySorted DEF Sorted
<1> QED
    BY <1>7, <1>8

\* Only the last transport delivers, what is first in its queue.
LEMMA DeliverSorted ==
    ASSUME Bridge, Behind, Unmade, Sorted, NEW t \in Transports, Deliver(t)
    PROVE  Sorted' /\ t = made
<1>1. /\ made \in Transports /\ queue \in [Transports -> Seq(Messages)]
      /\ log \in Seq(Messages) /\ made \in Nat \ {0}
      /\ queue[t] # <<>> /\ epoch[t] = serverEpoch /\ serverEpoch \in Nat
    BY MadeIsTransport DEF Bridge, IInv, Typed, Contents, Deliver, Stale
<1>2. t = made
    <2>1. ~(t > made)
        BY <1>1 DEF Unmade
    <2>2. t \in 1..made
        BY <1>1, <2>1 DEF Transports
    <2> QED
        BY <1>1, <2>2 DEF Behind
<1> DEFINE q == queue[made]
           m == Head(q)
<1>3. /\ log' = Arrived(m) /\ queue'[made] = Tail(q) /\ made' = made
      /\ gate' = gate /\ written' = written
    BY <1>1, <1>2 DEF Deliver, gateVars
<1>4. PICK u : /\ u = queue'[made] /\ u \in Seq(Messages) /\ Piece(u, q, 1)
               /\ m \in Messages /\ m = q[1] /\ 1 \in DOMAIN q
    BY <1>1, <1>2, <1>3, TailIsPiece
<1>5. /\ Rising(u) /\ Below(log, u) /\ Below(u, gate.pending)
      /\ UpTo(u, written)
    BY <1>4, PieceSorted DEF Sorted
<1>6. CASE log' = log
    BY <1>2, <1>3, <1>4, <1>5, <1>6 DEF Sorted
<1>7. CASE log' = log \o <<m>>
    <2>1. <<m>> \in Seq(Messages) /\ DOMAIN <<m>> = {1} /\ <<m>>[1] = m
        BY <1>4
    <2>2. Rising(<<m>>) /\ Below(<<m>>, gate.pending) /\ UpTo(<<m>>, written)
          /\ Below(log, <<m>>)
        BY <1>4, <2>1 DEF Rising, Below, UpTo, Sorted
    <2>3. Below(<<m>>, u)
        <3>1. ASSUME NEW j \in DOMAIN u, m \in Live, u[j] \in Live
              PROVE  m < u[j]
            <4>1. j + 1 \in DOMAIN q /\ u[j] = q[j + 1] /\ 1 < j + 1
                BY <1>4 DEF Piece
            <4> QED
                BY <1>4, <3>1, <4>1 DEF Sorted, Rising
        <3> QED
            BY <2>1, <3>1 DEF Below
    <2>4. /\ Rising(log \o <<m>>) /\ Below(log \o <<m>>, u)
          /\ Below(log \o <<m>>, gate.pending) /\ UpTo(log \o <<m>>, written)
        BY <1>1, <1>5, <2>1, <2>2, <2>3, ConcatSorted DEF Sorted
    <2> QED
        BY <1>2, <1>3, <1>4, <1>5, <1>7, <2>4 DEF Sorted
<1>8. log' = log \/ log' = log \o <<m>>
    BY <1>1, <1>3, <1>4, SingleTyped DEF Arrived
<1> QED
    BY <1>2, <1>6, <1>7, <1>8

LEMMA CreateSorted ==
    ASSUME Bridge, Unmade, Sorted, NEW r \in Recoveries, Create(r)
    PROVE  Sorted'
<1>1. /\ made + 1 \in Transports /\ queue \in [Transports -> Seq(Messages)]
      /\ gate.pending \in Seq(Messages) /\ made \in Nat
      /\ made' = made + 1 /\ log' = log /\ written' = written
    BY MadeIsTransport DEF Bridge, IInv, Typed, Contents, Create, serverVars
<1>2. queue[made + 1] = <<>>
    BY <1>1 DEF Unmade
<1>3. gate'.pending = <<>>
    BY DEF Create, Drain, NoGate
<1>4. queue'[made + 1] \in {<<>>, gate.pending}
    <2>1. CASE queue' = queue
        BY <1>2, <2>1
    <2>2. CASE Enqueue(made + 1, gate.pending)
        <3>1. <<>> \o gate.pending = gate.pending
            BY <1>1
        <3> QED
            BY <1>1, <1>2, <2>2, <3>1, EnqueueTyped
    <2> QED
        BY <2>1, <2>2 DEF Create, Drain
<1> QED
    BY <1>1, <1>3, <1>4, EmptySorted DEF Sorted

LEMMA SortedNext ==
    ASSUME Bridge, Behind, Unmade, Sorted, [Next]_vars
    PROVE  Sorted' /\ Unmade'
<1>0. /\ current = made /\ made \in Transports /\ made \in Nat
      /\ queue \in [Transports -> Seq(Messages)]
      /\ <<History>> \in Seq(Messages) /\ <<Result>> \in Seq(Messages)
      /\ gate.pending \in Seq(Messages)
    BY MadeIsTransport, OtherSorted DEF Bridge, IInv, Typed, Contents
\* A step that enqueues for the last transport only.
<1>a. ASSUME NEW s \in Seq(Messages), Enqueue(made, s), UNCHANGED <<session, made>>
      PROVE  Unmade'
    BY <1>0, <1>a, EnqueueTyped DEF Unmade, Transports
<1>1. CASE Shrinks
    <2>1. /\ UNCHANGED <<session, made, log, written>>
          /\ gate'.pending = gate.pending
          /\ \A t \in Transports : Piece(queue'[t], queue[t], 0)
        BY <1>1 DEF Shrinks
    <2>2. queue' \in [Transports -> Seq(Messages)]
        BY <2>1, ContentsNext DEF Bridge, Contents, Transports
    <2>3. Sorted'
        BY <1>0, <2>1, <2>2, PieceSorted DEF Sorted
    <2>4. ASSUME NEW t \in Transports, t > made PROVE queue'[t] = <<>>
        <3>1. Piece(queue'[t], <<>>, 0) /\ queue'[t] \in Seq(Messages)
            BY <2>1, <2>2, <2>4 DEF Unmade
        <3>2. DOMAIN queue'[t] = {}
            BY <3>1 DEF Piece
        <3>3. Len(queue'[t]) = 0
            <4>1. DOMAIN queue'[t] = 1..Len(queue'[t]) /\ Len(queue'[t]) \in Nat
                BY <3>1
            <4>2. 1 \notin 1..Len(queue'[t])
                BY <3>2, <4>1
            <4> QED
                BY <4>1, <4>2
        <3> QED
            BY <3>1, <3>3, EmptySeq
    <2> QED
        BY <2>1, <2>3, <2>4 DEF Unmade, Transports
<1>2. CASE WriteMessages
    <2>1. UNCHANGED <<session, made>> /\ written' \in Messages
        BY <1>2 DEF WriteMessages, Bridge, IInv, Typed, Contents, Session, Messages, Live
    <2>2. <<written'>> \in Seq(Messages)
        BY <2>1
    <2>3. queue' = queue \/ Enqueue(made, <<written'>>)
        BY <1>0, <1>2 DEF WriteMessages
    <2>4. Unmade'
        BY <1>a, <2>1, <2>2, <2>3 DEF Unmade, Transports
    <2> QED
        BY <1>2, <2>4, WriteSorted
<1>3. CASE Teardown
    <2>1. /\ UNCHANGED <<session, made, log, written>>
          /\ Enqueue(made, <<Result>>) /\ gate'.pending = <<>>
        BY <1>0, <1>3 DEF Teardown, serverVars, NoGate
    <2> QED
        BY <1>0, <1>a, <2>1, OtherEnqueued
<1>4. ASSUME NEW t \in Transports, Deliver(t) PROVE Sorted' /\ Unmade'
    <2>1. /\ UNCHANGED <<session, made>> /\ queue[t] # <<>>
          /\ queue' = [queue EXCEPT ![t] = Tail(@)]
        BY <1>4 DEF Deliver
    <2>2. Unmade'
        BY <1>0, <2>1 DEF Unmade, Transports
    <2> QED
        BY <1>4, <2>2, DeliverSorted
<1>5. ASSUME NEW t \in Transports, FlushBegins(t) PROVE Sorted' /\ Unmade'
    <2>1. /\ UNCHANGED <<session, made, log, written, gate>>
          /\ Enqueue(made, <<History>>)
        BY <1>0, <1>5 DEF FlushBegins, Restored, OnConnect, serverVars
    <2> QED
        BY <1>0, <1>a, <2>1, OtherEnqueued
<1>6. ASSUME NEW t \in Transports, FlushEnds(t) PROVE Sorted' /\ Unmade'
    <2>1. UNCHANGED <<session, made, log, written>> /\ Drain(made)
        BY <1>0, <1>6 DEF FlushEnds, FlushReturns, serverVars
    <2>2. Enqueue(made, gate.pending)
        BY <2>1 DEF Drain
    <2> QED
        BY <1>0, <1>a, <2>1, <2>2, PendingEnqueued
<1>7. ASSUME NEW r \in Recoveries, Create(r) PROVE Sorted' /\ Unmade'
    <2>1. /\ made' = made + 1 /\ session' = session /\ made + 1 \in Transports
          /\ queue' = queue \/ Enqueue(made + 1, gate.pending)
        BY <1>7, MadeIsTransport DEF Create, Drain, Bridge
    <2>2. \A t \in Transports : t # made + 1 => queue'[t] = queue[t]
        BY <1>0, <2>1, EnqueueTyped
    <2>3. \A t \in Transports : t > made + 1 => t # made + 1 /\ t > made
        BY <1>0 DEF Transports
    <2>4. Unmade'
        BY <2>1, <2>2, <2>3 DEF Unmade, Transports
    <2> QED
        BY <1>7, <2>4, CreateSorted
<1> QED
    BY <1>1, <1>2, <1>3, <1>4, <1>5, <1>6, <1>7, WhatSteps

-----------------------------------------------------------------------------
(* The history comes first *)

Has(s, m) == \E i \in DOMAIN s : s[i] = m

\* Before a live message in s there is the history.
Led(s) == \A j \in DOMAIN s : s[j] \in Live =>
            \E i \in DOMAIN s : i < j /\ s[i] = History

\* While the first transport is the only one: live messages wait in the gate
\* until the history was put in the queue, or the queue takes nothing.
HistoryFirst ==
    session.initial /\ made = 1 /\ torn = "no" =>
        /\ Led(log)
        /\ Has(log, History) \/ Led(queue[made])
        /\ flushing # {} \/ ~gate.active =>
                \/ closed[made]
                \/ Has(log, History)
                \/ Has(queue[made], History)

LEMMA ConcatLed ==
    ASSUME NEW s \in Seq(Messages), NEW u \in Seq(Messages)
    PROVE  /\ Has(s, History) => Has(s \o u, History)
           /\ Led(s) /\ Has(s, History) => Led(s \o u)
           /\ Led(s) /\ (\A j \in DOMAIN u : u[j] \notin Live) => Led(s \o u)
<1> DEFINE c == s \o u
<1>1. /\ DOMAIN s \subseteq Nat /\ DOMAIN c \subseteq Nat /\ Len(s) \in Nat
      /\ \A i \in DOMAIN s : i <= Len(s) /\ i \in DOMAIN c /\ c[i] = s[i]
    BY ConcatTyped
<1>2. \A i \in DOMAIN c :
        \/ i \in DOMAIN s /\ c[i] = s[i]
        \/ i > Len(s) /\ i - Len(s) \in DOMAIN u /\ c[i] = u[i - Len(s)]
    BY ConcatTyped
<1> HIDE DEF c
<1>3. Has(s, History) => Has(c, History)
    BY <1>1 DEF Has
<1>4. ASSUME Led(s), NEW j \in DOMAIN s, c[j] \in Live
      PROVE  \E i \in DOMAIN c : i < j /\ c[i] = History
    BY <1>1, <1>4 DEF Led
<1>5. ASSUME Has(s, History), NEW j \in DOMAIN c, j > Len(s)
      PROVE  \E i \in DOMAIN c : i < j /\ c[i] = History
    BY <1>1, <1>5 DEF Has
<1>6. Led(s) /\ Has(s, History) => Led(c)
    BY <1>2, <1>4, <1>5 DEF Led
<1>7. Led(s) /\ (\A j \in DOMAIN u : u[j] \notin Live) => Led(c)
    BY <1>2, <1>4 DEF Led
<1> QED
    BY <1>3, <1>6, <1>7 DEF c

LEMMA OtherLed ==
    ASSUME NEW s \in Seq(Messages), NEW m \in {History, Result}
    PROVE  /\ Led(s) => Led(s \o <<m>>)
           /\ m = History => Has(s \o <<m>>, History)
<1>1. /\ <<m>> \in Seq(Messages) /\ \A j \in DOMAIN <<m>> : <<m>>[j] \notin Live
    BY MessagesAssumption DEF Live, Messages
<1>2. /\ Len(s) + 1 \in DOMAIN (s \o <<m>>) /\ (s \o <<m>>)[Len(s) + 1] = m
    BY <1>1
<1> QED
    BY <1>1, <1>2, ConcatLed DEF Has

LEMMA TailLed ==
    ASSUME NEW s \in Seq(Messages), s # <<>>
    PROVE  /\ Led(s) => s[1] \notin Live
           /\ Led(s) /\ s[1] # History => Led(Tail(s))
           /\ Has(s, History) /\ s[1] # History => Has(Tail(s), History)
<1>1. PICK u : u = Tail(s)
    OBVIOUS
<1>2. PICK n : n = Len(s)
    OBVIOUS
<1>3. /\ n \in Nat /\ n > 0 /\ DOMAIN s = 1..n /\ DOMAIN u = 1..(n - 1)
      /\ \A i \in 1..(n - 1) : u[i] = s[i + 1]
    BY <1>1, <1>2, HeadTailProperties, EmptySeq
<1>4. \A i \in 1..n : i # 1 => i - 1 \in 1..(n - 1) /\ u[i - 1] = s[i]
    BY <1>3
<1>5. Led(s) => s[1] \notin Live
    BY <1>3 DEF Led
<1>6. ASSUME Led(s), s[1] # History PROVE Led(u)
    <2> SUFFICES ASSUME NEW j \in 1..(n - 1), s[j + 1] \in Live
                 PROVE  \E i \in 1..(n - 1) : i < j /\ u[i] = History
        BY <1>3 DEF Led
    <2>1. PICK i \in 1..n : i < j + 1 /\ s[i] = History
        BY <1>3, <1>6 DEF Led
    <2>2. i # 1
        BY <1>6, <2>1
    <2> QED
        BY <1>3, <1>4, <2>1, <2>2
<1>7. Has(s, History) /\ s[1] # History => Has(u, History)
    BY <1>3, <1>4 DEF Has
<1> QED
    BY <1>1, <1>5, <1>6, <1>7

LEMMA PieceLed ==
    ASSUME NEW u \in Seq(Messages), NEW s \in Seq(Messages), Piece(u, s, 0), Led(s)
    PROVE  Led(u)
<1>1. /\ Len(u) \in Nat /\ Len(s) \in Nat
      /\ DOMAIN u = 1..Len(u) /\ DOMAIN s = 1..Len(s)
    OBVIOUS
<1> SUFFICES ASSUME NEW j \in 1..Len(u), u[j] \in Live
             PROVE  \E i \in 1..Len(u) : i < j /\ u[i] = History
    BY <1>1 DEF Led
<1>2. \A i \in 1..Len(u) : i \in 1..Len(s) /\ u[i] = s[i]
    BY <1>1 DEF Piece
<1>3. PICK i \in 1..Len(s) : i < j /\ s[i] = History
    BY <1>1, <1>2 DEF Led
<1>4. i \in 1..Len(u)
    BY <1>1, <1>3
<1> QED
    BY <1>2, <1>3, <1>4

LEMMA HistoryFirstNext ==
    ASSUME Bridge, Behind, Unmade, Sorted, HistoryFirst, [Next]_vars
    PROVE  HistoryFirst'
<1> SUFFICES ASSUME session'.initial, made' = 1, torn' = "no"
             PROVE  /\ Led(log')
                    /\ Has(log', History) \/ Led(queue'[1])
                    /\ flushing' # {} \/ ~gate'.active =>
                            \/ closed'[1]
                            \/ Has(log', History)
                            \/ Has(queue'[1], History)
    BY DEF HistoryFirst
<1>0. /\ current = made /\ made \in Transports /\ made \in Nat \ {0}
      /\ queue \in [Transports -> Seq(Messages)] /\ log \in Seq(Messages)
      /\ <<History>> \in Seq(Messages) /\ gate.pending \in Seq(Messages)
      /\ History \notin Live
      /\ closed \in [Transports -> BOOLEAN] /\ flushing \subseteq 1..made
    BY MadeIsTransport, OtherSorted, MessagesAssumption
    DEF Bridge, IInv, Typed, Contents, Live
<1>1. /\ made' # made + 1 /\ torn' # "archiving"
    <2>1. \A n \in Nat \ {0} : n + 1 # 1
        OBVIOUS
    <2> QED
        BY <1>0, <2>1
<1>2. CASE Shrinks
    <2>1. queue' \in [Transports -> Seq(Messages)]
        BY <1>2, ContentsNext DEF Bridge, Contents, Transports, Shrinks
    <2>2. made = 1 /\ torn = "no" /\ session.initial /\ log' = log
        BY <1>2 DEF Shrinks
    <2>3. Led(queue[1]) => Led(queue'[1])
        BY <1>0, <1>2, <2>1, <2>2, PieceLed DEF Shrinks
    <2> QED
        BY <1>2, <2>2, <2>3 DEF HistoryFirst, Shrinks
<1>3. CASE WriteMessages
    <2>1. /\ made = 1 /\ torn = "no" /\ session.initial
          /\ UNCHANGED <<log, closed, flushing>> /\ gate'.active = gate.active
        BY <1>3 DEF WriteMessages, serverVars, Gated, Bridge, Contents
    <2>2. CASE queue' = queue
        BY <2>1, <2>2 DEF HistoryFirst
    <2>3. CASE queue' # queue
        <3>1. ~gate.active /\ Enqueue(1, <<written'>>)
            BY <1>0, <1>3, <2>1, <2>3 DEF WriteMessages, Gated
        <3>2. <<written'>> \in Seq(Messages)
            BY <1>3 DEF WriteMessages, Bridge, IInv, Typed, Contents, Session,
                        Messages, Live
        <3>3. ~closed[1] /\ queue'[1] = queue[1] \o <<written'>>
            BY <1>0, <2>1, <2>3, <3>1, <3>2, EnqueueTyped DEF Enqueue
        <3>4. Has(log, History) \/ (Led(queue[1]) /\ Has(queue[1], History))
            BY <2>1, <3>1, <3>3 DEF HistoryFirst
        <3>5. queue[1] \in Seq(Messages)
            BY <1>0, <2>1
        <3> QED
            BY <2>1, <3>2, <3>3, <3>4, <3>5, ConcatLed DEF HistoryFirst
    <2> QED
        BY <2>2, <2>3
<1>4. ASSUME NEW t \in Transports, Deliver(t)
      PROVE  /\ Led(log')
             /\ Has(log', History) \/ Led(queue'[1])
             /\ flushing' # {} \/ ~gate'.active =>
                    closed'[1] \/ Has(log', History) \/ Has(queue'[1], History)
    <2>1. /\ made = 1 /\ torn = "no" /\ session.initial /\ t = 1
          /\ UNCHANGED <<closed, flushing, gate>>
          /\ queue[1] # <<>> /\ queue[1] \in Seq(Messages)
          /\ log' = Arrived(Head(queue[1])) /\ queue'[1] = Tail(queue[1])
        BY <1>0, <1>4, DeliverSorted DEF Deliver, gateVars
    <2>2. PICK m \in Messages : m = queue[1][1] /\ log' = Arrived(m)
        BY <2>1, TailIsPiece
    <2>3. log' = log \/ (log' = log \o <<m>> /\ <<m>> \in Seq(Messages))
        BY <1>0, <2>2, SingleTyped DEF Arrived
    <2>4. CASE Has(log, History)
        BY <1>0, <2>1, <2>3, <2>4, ConcatLed DEF HistoryFirst
    <2>5. CASE ~Has(log, History)
        <3>1. Led(queue[1]) /\ m \notin Live
            BY <2>1, <2>2, <2>5, TailLed DEF HistoryFirst
        <3>2. m \in {History, Result}
            BY <3>1 DEF Messages
        <3>3. Led(log')
            BY <1>0, <2>1, <2>3, <3>2, OtherLed DEF HistoryFirst
        <3>4. CASE m = History
            <4>1. m \notin Items(log)
                BY <2>5, <3>4 DEF Has, Items
            <4>2. log' = log \o <<m>>
                BY <1>0, <2>2, <4>1, SingleTyped DEF Arrived
            <4> QED
                BY <1>0, <3>2, <3>3, <3>4, <4>2, OtherLed
        <3>5. CASE m # History
            <4>1. /\ Led(queue'[1])
                  /\ Has(queue[1], History) => Has(queue'[1], History)
                BY <2>1, <2>2, <3>1, <3>5, TailLed
            <4> QED
                BY <2>1, <2>5, <3>3, <4>1 DEF HistoryFirst
        <3> QED
            BY <3>4, <3>5
    <2> QED
        BY <2>4, <2>5
<1>5. ASSUME NEW t \in Transports, FlushBegins(t)
      PROVE  /\ Led(log')
             /\ Has(log', History) \/ Led(queue'[1])
             /\ closed'[1] \/ Has(log', History) \/ Has(queue'[1], History)
    <2>1. /\ made = 1 /\ torn = "no" /\ session.initial
          /\ UNCHANGED <<log, closed>> /\ Enqueue(1, <<History>>)
        BY <1>0, <1>5 DEF FlushBegins, Restored, OnConnect, serverVars
    <2>2. queue'[1] = IF closed[1] THEN queue[1] ELSE queue[1] \o <<History>>
        BY <1>0, <2>1, EnqueueTyped
    <2>3. queue[1] \in Seq(Messages)
        BY <1>0, <2>1
    <2> QED
        BY <2>1, <2>2, <2>3, OtherLed DEF HistoryFirst
<1>6. ASSUME NEW t \in Transports, FlushEnds(t)
      PROVE  /\ Led(log')
             /\ Has(log', History) \/ Led(queue'[1])
             /\ closed'[1] \/ Has(log', History) \/ Has(queue'[1], History)
    <2>1. /\ made = 1 /\ torn = "no" /\ session.initial /\ t \in flushing
          /\ UNCHANGED <<log, closed>> /\ Enqueue(1, gate.pending)
        BY <1>0, <1>6 DEF FlushEnds, FlushReturns, serverVars, Drain
    <2>2. queue'[1] = IF closed[1] THEN queue[1] ELSE queue[1] \o gate.pending
        BY <1>0, <2>1, EnqueueTyped
    <2>3. queue[1] \in Seq(Messages)
        BY <1>0, <2>1
    <2>4. closed[1] \/ Has(log, History) \/ Has(queue[1], History)
        BY <2>1 DEF HistoryFirst
    <2> QED
        BY <1>0, <2>1, <2>2, <2>3, <2>4, ConcatLed DEF HistoryFirst
<1>7. ~Teardown /\ \A r \in Recoveries : ~Create(r)
    BY <1>1 DEF Teardown, Create
<1> QED
    BY <1>2, <1>3, <1>4, <1>5, <1>6, <1>7, WhatSteps

LEMMA OrderInvariant == Spec => [](Bridge /\ Sorted /\ HistoryFirst)
<1> DEFINE All == Bridge /\ Behind /\ Unmade /\ Sorted /\ HistoryFirst
<1>1. Init => All
    <2> SUFFICES ASSUME Init PROVE All
        OBVIOUS
    <2>1. Bridge
        BY InitIInv, ContentsInit DEF Bridge
    <2>2. 1 \in Transports
        BY <2>1, MadeIsTransport DEF Init, Bridge
    <2>3. Behind
        BY <2>2 DEF Init, Behind
    <2>4. /\ queue[made] = <<>> /\ log = <<>> /\ gate.pending = <<>> /\ flushing = {}
          /\ gate.active = session.initial /\ Unmade
        BY <2>2 DEF Init, Unmade
    <2>5. Sorted
        BY <2>4, EmptySorted DEF Sorted
    <2>6. HistoryFirst
        BY <2>4 DEF HistoryFirst, Led
    <2> QED
        BY <2>1, <2>3, <2>4, <2>5, <2>6
<1>2. All /\ [Next]_vars => All'
    BY NextIInv, ContentsNext, BehindNext, SortedNext, HistoryFirstNext DEF Bridge
<1> QED
    BY <1>1, <1>2, PTL DEF Spec

\* However many transports a session goes through and wherever they break, the
\* server's log holds the live messages in the order they were written, with
\* gaps at most; and on the first transport the history precedes them all.
THEOREM WrittenOrder == Spec => []InOrder
<1>1. Bridge /\ Sorted /\ HistoryFirst => InOrder
    <2> SUFFICES ASSUME Bridge, Sorted, HistoryFirst PROVE InOrder
        OBVIOUS
    <2>0. written \in Nat /\ log \in Seq(Messages)
        BY DEF Bridge, IInv, Typed, Contents, Session
    <2>1. 1..written \subseteq Live
        BY <2>0 DEF Live
    <2>2. ASSUME NEW i \in 1..written, NEW j \in 1..written, i < j,
                 {i, j} \subseteq Items(log)
          PROVE  Before(i, j)
        <3>1. PICK p \in DOMAIN log, q \in DOMAIN log : log[p] = i /\ log[q] = j
            BY <2>2 DEF Items
        <3>2. p \in Nat /\ q \in Nat /\ i \in Nat /\ j \in Nat
            BY <2>0
        <3>3. ~(q < p) /\ p # q
            BY <2>1, <2>2, <3>1, <3>2 DEF Sorted, Rising
        <3> QED
            BY <3>1, <3>2, <3>3 DEF Before
    <2>3. ASSUME session.initial, made = 1, torn = "no", NEW m \in 1..written
          PROVE  Before(History, m)
        BY <2>1, <2>3 DEF HistoryFirst, Led, Before, Items
    <2> QED
        BY <2>2, <2>3 DEF InOrder
<1> QED
    BY <1>1, OrderInvariant, PTL
=============================================================================
