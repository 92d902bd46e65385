------------------------- MODULE WorkerState_proofs -------------------------
(***************************************************************************)
(* The worker at the server is a coalesced register, for any reports and   *)
(* any number of failed requests, when the session awaits initialize().    *)
(***************************************************************************)
EXTENDS WorkerState, SequenceTheorems, TLAPS

Patch == [keys : SUBSET Leaves, state : States \union {"none"}]

\* The patches among the first n of ps that set a leaf, and the last of them.
SetBy(ps, n, leaf) == {i \in 1..n : leaf \in ps[i].keys}

Last(ps, n, leaf) ==
    IF SetBy(ps, n, leaf) = {} THEN 0
    ELSE CHOOSE i \in SetBy(ps, n, leaf) : \A j \in SetBy(ps, n, leaf) : j <= i

\* Every non-empty set of patches that set a leaf has a last one.
LastIsLast(ps) ==
    \A n \in 0..Len(ps), leaf \in Leaves :
        SetBy(ps, n, leaf) # {} =>
            \E i \in SetBy(ps, n, leaf) : \A j \in SetBy(ps, n, leaf) : j <= i

\* A patch that merges those after the first a, up to the first b.
Part(ps, patch, a, b) ==
    /\ \A leaf : leaf \in DOMAIN patch <=>
            leaf \in Leaves /\ \E i \in SetBy(ps, b, leaf) : a < i
    /\ \A leaf \in DOMAIN patch : patch[leaf] = Last(ps, b, leaf)

\* A leaf of the server that may have an older value, and one that may not.
Holds(s, leaf) ==
    IF leaf \in setback
    THEN \E m \in 0..Len(patches) : server[leaf] = Last(patches, m, leaf)
    ELSE server[leaf] = Last(patches, s, leaf)

\* The server has the first s patches; what is being sent begins no later and
\* ends at b; what is pending follows it.
Cuts(a, s, b) ==
    /\ a <= s /\ s <= b /\ b <= Len(patches)
    /\ \A leaf \in Leaves : Holds(s, leaf)
    /\ \A put \in late : \E c, d \in Nat :
            c <= s /\ c <= d /\ d <= b /\ Part(patches, put[2], c, d)
    /\ loop # "off" => Part(patches, inflight, a, b)
    /\ arrived = TRUE => s = b
    /\ (loop = "off" /\ closed = FALSE) => s = b
    /\ closed = FALSE => Part(patches, pending, b, Len(patches))

Typed ==
    /\ script \in Scripts /\ script.waits /\ made \in Nat
    /\ patches \in Seq(Patch)
    /\ server \in [Leaves -> 0..Len(patches)] /\ setback \subseteq Leaves
    /\ loop \in {"off", "sending", "sleeping"}
    /\ arrived \in BOOLEAN /\ closed \in BOOLEAN
    /\ arrived = TRUE => loop = "sending"

IInv ==
    /\ Typed
    /\ init # "done" => patches = <<>>
    /\ LastIsLast(patches)
    /\ \E a, s, b \in Nat : Cuts(a, s, b)

-----------------------------------------------------------------------------
(* The last patch that sets a leaf *)

LEMMA LastBounds ==
    ASSUME NEW ps, LastIsLast(ps), Len(ps) \in Nat,
           NEW n \in 0..Len(ps), NEW leaf \in Leaves
    PROVE  /\ Last(ps, n, leaf) \in 0..n
           /\ SetBy(ps, n, leaf) # {} => Last(ps, n, leaf) \in SetBy(ps, n, leaf)
           /\ \A i \in SetBy(ps, n, leaf) : i <= Last(ps, n, leaf)
<1>0. n \in Nat
    OBVIOUS
<1>1. CASE SetBy(ps, n, leaf) = {}
    BY <1>0, <1>1 DEF Last
<1>2. CASE SetBy(ps, n, leaf) # {}
    <2>1. \E i \in SetBy(ps, n, leaf) : \A j \in SetBy(ps, n, leaf) : j <= i
        BY <1>2 DEF LastIsLast
    <2>2. /\ Last(ps, n, leaf) \in SetBy(ps, n, leaf)
          /\ \A j \in SetBy(ps, n, leaf) : j <= Last(ps, n, leaf)
        BY <1>2, <2>1 DEF Last
    <2>3. Last(ps, n, leaf) \in 1..n
        BY <2>2 DEF SetBy
    <2> QED
        BY <1>0, <2>2, <2>3
<1> QED
    BY <1>1, <1>2

\* Patches that do not set the leaf do not change its last one.
LEMMA LastStays ==
    ASSUME NEW ps, NEW n \in Nat, NEW m \in Nat, n <= m, NEW leaf,
           ~ \E i \in SetBy(ps, m, leaf) : n < i
    PROVE  Last(ps, m, leaf) = Last(ps, n, leaf)
<1>1. SetBy(ps, m, leaf) = SetBy(ps, n, leaf)
    BY DEF SetBy
<1> QED
    BY <1>1 DEF Last

\* The register does not go back.
LEMMA LastGrows ==
    ASSUME NEW ps, LastIsLast(ps), Len(ps) \in Nat,
           NEW n \in 0..Len(ps), NEW m \in 0..Len(ps),
           n <= m, NEW leaf \in Leaves
    PROVE  Last(ps, m, leaf) >= Last(ps, n, leaf)
<1>0. n \in Nat /\ m \in Nat
    OBVIOUS
<1>3. Last(ps, m, leaf) \in 0..m
    BY LastBounds
<1>1. CASE SetBy(ps, n, leaf) = {}
    BY <1>0, <1>1, <1>3 DEF Last
<1>2. CASE SetBy(ps, n, leaf) # {}
    <2>1. Last(ps, n, leaf) \in SetBy(ps, n, leaf)
        BY <1>2, LastBounds
    <2>2. Last(ps, n, leaf) \in SetBy(ps, m, leaf) /\ Last(ps, n, leaf) \in Nat
        BY <1>0, <2>1 DEF SetBy
    <2>3. \A i \in SetBy(ps, m, leaf) : i <= Last(ps, m, leaf)
        BY LastBounds
    <2> QED
        BY <1>3, <2>2, <2>3
<1> QED
    BY <1>1, <1>2

\* A new patch leaves the merges of the older ones as they are.
LEMMA AppendKeeps ==
    ASSUME NEW ps \in Seq(Patch), NEW patch \in Patch, NEW n \in 0..Len(ps),
           NEW leaf
    PROVE  /\ SetBy(Append(ps, patch), n, leaf) = SetBy(ps, n, leaf)
           /\ Last(Append(ps, patch), n, leaf) = Last(ps, n, leaf)
<1>1. \A i \in 1..n : Append(ps, patch)[i] = ps[i]
    OBVIOUS
<1>2. SetBy(Append(ps, patch), n, leaf) = SetBy(ps, n, leaf)
    BY <1>1 DEF SetBy
<1> QED
    BY <1>2 DEF Last

LEMMA AppendKeepsPart ==
    ASSUME NEW ps \in Seq(Patch), NEW patch \in Patch,
           NEW p, NEW a \in Nat, NEW b \in 0..Len(ps), Part(ps, p, a, b)
    PROVE  Part(Append(ps, patch), p, a, b)
<1>1. \A leaf : /\ SetBy(Append(ps, patch), b, leaf) = SetBy(ps, b, leaf)
                /\ Last(Append(ps, patch), b, leaf) = Last(ps, b, leaf)
    BY AppendKeeps
<1> QED
    BY <1>1 DEF Part

\* What the newest patch sets.
LEMMA AppendSets ==
    ASSUME NEW ps \in Seq(Patch), NEW patch \in Patch, NEW leaf
    PROVE  SetBy(Append(ps, patch), Len(ps) + 1, leaf)
             = SetBy(ps, Len(ps), leaf)
                \union (IF leaf \in patch.keys THEN {Len(ps) + 1} ELSE {})
<1> DEFINE n == Len(ps)
<1>1. n \in Nat /\ 1..(n + 1) = (1..n) \union {n + 1}
    OBVIOUS
<1>2. Append(ps, patch)[n + 1] = patch /\ \A i \in 1..n : Append(ps, patch)[i] = ps[i]
    OBVIOUS
<1> HIDE DEF n
<1>3. \A i : i \in 1..(n + 1) => (i \in 1..n \/ i = n + 1)
    BY <1>1
<1>4. \A i : i \in 1..n => i # n + 1 /\ i \in 1..(n + 1)
    BY <1>1
<1>5. SetBy(Append(ps, patch), n + 1, leaf)
             = SetBy(ps, n, leaf)
                \union (IF leaf \in patch.keys THEN {n + 1} ELSE {})
    BY <1>1, <1>2, <1>3, <1>4 DEF SetBy
<1> QED
    BY <1>5 DEF n

LEMMA AppendHasLast ==
    ASSUME NEW ps \in Seq(Patch), NEW patch \in Patch, LastIsLast(ps)
    PROVE  LastIsLast(Append(ps, patch))
<1> DEFINE qs == Append(ps, patch)
           len == Len(ps)
<1>0. len \in Nat /\ Len(qs) = len + 1
    OBVIOUS
<1> SUFFICES ASSUME NEW n \in 0..(len + 1), NEW leaf \in Leaves,
                    SetBy(qs, n, leaf) # {}
             PROVE  \E i \in SetBy(qs, n, leaf) :
                        \A j \in SetBy(qs, n, leaf) : j <= i
    BY <1>0 DEF LastIsLast
<1>1. CASE n \in 0..len
    <2>1. SetBy(qs, n, leaf) = SetBy(ps, n, leaf)
        BY <1>1, AppendKeeps
    <2> QED
        BY <1>1, <2>1 DEF LastIsLast
<1>2. CASE n = len + 1
    <2>1. SetBy(qs, n, leaf) = SetBy(ps, len, leaf)
                \union (IF leaf \in patch.keys THEN {len + 1} ELSE {})
        BY <1>2, AppendSets
    <2>2. CASE leaf \in patch.keys
        <3>1. n \in SetBy(qs, n, leaf)
            BY <1>2, <2>1, <2>2
        <3>2. \A j \in SetBy(qs, n, leaf) : j <= n
            BY <1>0, <1>2 DEF SetBy
        <3> QED
            BY <3>1, <3>2
    <2>3. CASE leaf \notin patch.keys
        <3>1. len \in 0..len /\ SetBy(qs, n, leaf) = SetBy(ps, len, leaf)
            BY <1>0, <2>1, <2>3
        <3> QED
            BY <3>1 DEF LastIsLast
    <2> QED
        BY <2>2, <2>3
<1> QED
    BY <1>0, <1>1, <1>2

-----------------------------------------------------------------------------
(* Merging *)

LEMMA PartNothing ==
    ASSUME NEW ps, NEW n \in Nat
    PROVE  Part(ps, NoPatch, n, n)
BY DEF Part, NoPatch, SetBy

\* coalescePatches() of two adjacent parts.
LEMMA PartsCoalesce ==
    ASSUME NEW ps, NEW p, NEW q, NEW a \in Nat, NEW b \in Nat, NEW c \in Nat,
           a <= b, b <= c, Part(ps, p, a, b), Part(ps, q, b, c)
    PROVE  Part(ps, Coalesce(p, q), a, c)
<1>1. /\ DOMAIN Coalesce(p, q) = DOMAIN p \union DOMAIN q
      /\ \A leaf \in DOMAIN p \union DOMAIN q :
            Coalesce(p, q)[leaf] = IF leaf \in DOMAIN q THEN q[leaf]
                                                         ELSE p[leaf]
    BY DEF Coalesce
<1>2. \A leaf : (\E i \in SetBy(ps, c, leaf) : a < i) <=>
                    \/ \E i \in SetBy(ps, b, leaf) : a < i
                    \/ \E i \in SetBy(ps, c, leaf) : b < i
    BY DEF SetBy
<1>3. ASSUME NEW leaf \in DOMAIN p, leaf \notin DOMAIN q
      PROVE  p[leaf] = Last(ps, c, leaf)
    <2>1. p[leaf] = Last(ps, b, leaf) /\ leaf \in Leaves
        BY <1>3 DEF Part
    <2>2. ~ \E i \in SetBy(ps, c, leaf) : b < i
        BY <1>3, <2>1 DEF Part
    <2> QED
        BY <2>1, <2>2, LastStays
<1>4. \A leaf \in DOMAIN q : q[leaf] = Last(ps, c, leaf)
    BY DEF Part
<1>5. \A leaf : leaf \in DOMAIN Coalesce(p, q) <=>
            leaf \in Leaves /\ \E i \in SetBy(ps, c, leaf) : a < i
    BY <1>1, <1>2 DEF Part
<1> QED
    BY <1>1, <1>3, <1>4, <1>5 DEF Part

\* The report that was just made, by itself.
LEMMA PartOfReport ==
    ASSUME NEW ps \in Seq(Patch), NEW patch \in Patch
    PROVE  Part(Append(ps, patch), [k \in patch.keys |-> Len(ps) + 1],
                Len(ps), Len(ps) + 1)
<1> DEFINE qs == Append(ps, patch)
           n == Len(ps)
<1>1. n \in Nat /\ patch.keys \subseteq Leaves
    BY DEF Patch
<1>2. \A leaf : SetBy(qs, n + 1, leaf) = SetBy(ps, n, leaf)
                \union (IF leaf \in patch.keys THEN {n + 1} ELSE {})
    BY AppendSets
<1>3. \A leaf : \A i \in SetBy(ps, n, leaf) : i \in Nat /\ i <= n
    BY <1>1 DEF SetBy
<1> HIDE DEF qs, n
<1>4. ASSUME NEW leaf
      PROVE  (\E i \in SetBy(qs, n + 1, leaf) : n < i) <=> leaf \in patch.keys
    <2>1. CASE leaf \in patch.keys
        <3>1. n + 1 \in SetBy(qs, n + 1, leaf) /\ n < n + 1
            BY <1>1, <1>2, <2>1
        <3> QED
            BY <2>1, <3>1
    <2>2. CASE leaf \notin patch.keys
        <3>1. SetBy(qs, n + 1, leaf) = SetBy(ps, n, leaf)
            BY <1>2, <2>2
        <3> QED
            BY <1>1, <1>3, <2>2, <3>1
    <2> QED
        BY <2>1, <2>2
<1>5. ASSUME NEW leaf \in patch.keys
      PROVE  Last(qs, n + 1, leaf) = n + 1
    <2>1. n + 1 \in SetBy(qs, n + 1, leaf)
        BY <1>2, <1>5
    <2>2. \A j \in SetBy(qs, n + 1, leaf) : j <= n + 1 /\ j \in Nat
        BY <1>1, <1>2, <1>3
    <2>3. \A i \in SetBy(qs, n + 1, leaf) :
            (\A j \in SetBy(qs, n + 1, leaf) : j <= i) => i = n + 1
        BY <1>1, <2>1, <2>2
    <2> QED
        BY <2>1, <2>2, <2>3 DEF Last
<1>6. Part(qs, [k \in patch.keys |-> n + 1], n, n + 1)
    BY <1>1, <1>4, <1>5 DEF Part
<1> QED
    BY <1>6 DEF qs, n

-----------------------------------------------------------------------------
(* The register that the server is *)

Keys == [i \in DOMAIN patches |-> patches[i].keys]

LEMMA KeysOfPatches ==
    ASSUME Typed
    PROVE  /\ Len(patches) \in Nat /\ DOMAIN patches = 1..Len(patches)
           /\ Keys \in Seq(SUBSET Leaves) /\ Len(Keys) = Len(patches)
           /\ \A i \in 1..Len(patches) : Keys[i] = patches[i].keys
<1>0. /\ Len(patches) \in Nat /\ DOMAIN patches = 1..Len(patches)
      /\ \A i \in 1..Len(patches) : patches[i] \in Patch
    BY DEF Typed
<1>1. /\ Len(patches) \in Nat /\ DOMAIN patches = 1..Len(patches)
      /\ \A i \in 1..Len(patches) : patches[i].keys \in SUBSET Leaves
    BY <1>0 DEF Patch
<1>2. Keys \in [1..Len(patches) -> SUBSET Leaves]
    BY <1>1 DEF Keys
<1> QED
    BY <1>1, <1>2 DEF Keys

LEMMA LatestIsLast ==
    ASSUME Typed, NEW n \in 0..Len(patches), NEW leaf
    PROVE  Register!Latest(n, leaf) = Last(patches, n, leaf)
<1>1. \A i \in 1..n : i \in DOMAIN patches
    BY KeysOfPatches
<1>2. {i \in 1..n : leaf \in [j \in DOMAIN patches |-> patches[j].keys][i]}
        = SetBy(patches, n, leaf)
    BY <1>1 DEF SetBy
<1>3. Register!Latest(n, leaf)
        = LET setting == {i \in 1..n :
                    leaf \in [j \in DOMAIN patches |-> patches[j].keys][i]}
          IN  IF setting = {} THEN 0
              ELSE CHOOSE i \in setting : \A j \in setting : j <= i
    BY Zenon DEF Register!Latest
<1> QED
    BY <1>2, <1>3, Zenon DEF Last

\* A PUT that leaves the merge of the first n patches at the server, outside
\* the leaves that are set back.
LEMMA ServerApplies ==
    ASSUME IInv, NEW n \in 0..Len(patches), patches' = patches, Typed',
           setback' \subseteq setback \/ setback \subseteq setback',
           \A leaf \in Leaves : Holds(n, leaf)',
           \A leaf \in Leaves : leaf \notin setback => leaf \in setback'
                \/ server'[leaf] >= server[leaf]
    PROVE  Register!Apply \/ Register!ApplyLate
<1>1. Keys' = Keys
    BY DEF Keys
<1>2. ASSUME NEW leaf \in Leaves
      PROVE  IF leaf \in setback'
             THEN \E m \in 0..Len(patches) :
                        server'[leaf] = Register!Latest(m, leaf)
             ELSE /\ server'[leaf] = Register!Latest(n, leaf)
                  /\ leaf \in setback \/ server'[leaf] >= server[leaf]
    <2>1. \A m \in 0..Len(patches) :
                Register!Latest(m, leaf) = Last(patches, m, leaf)
        BY LatestIsLast DEF IInv
    <2>2. Holds(n, leaf)'
        OBVIOUS
    <2> QED
        BY <2>1, <2>2 DEF Holds
<1>3. Len(Keys) = Len(patches)
    BY KeysOfPatches DEF IInv
<1>4. Register!Merged(n)
    BY <1>2, <1>3 DEF Register!Merged, Keys
<1>5. /\ server' \in [Leaves -> 0..Len(Keys)] /\ setback' \subseteq Leaves
      /\ \E m \in 0..Len(Keys) : Register!Merged(m)
    BY <1>3, <1>4 DEF Typed
<1> QED
    BY <1>1, <1>5 DEF Register!Apply, Register!ApplyLate, Keys

\* A report that is enqueued.
LEMMA EnqueueReports ==
    ASSUME Typed, NEW patch \in Patch, patches' = Append(patches, patch),
           server' = server, setback' = setback
    PROVE  Register!Report
<1> DEFINE n == Len(patches)
<1>1. n \in Nat /\ patches' \in Seq(Patch) /\ Len(patches') = n + 1
      /\ DOMAIN patches' = 1..(n + 1)
    BY DEF Typed
<1>2. /\ \A i \in 1..n : patches'[i] = patches[i]
      /\ patches'[n + 1] = patch
    BY DEF Typed
<1>3. Keys' = [i \in 1..(n + 1) |-> patches'[i].keys]
    BY <1>1 DEF Keys
<1>4. Append(Keys, patch.keys) = [i \in 1..(n + 1) |->
            IF i = n + 1 THEN patch.keys ELSE Keys[i]]
    BY KeysOfPatches
<1>5. \A i \in 1..(n + 1) :
        patches'[i].keys = IF i = n + 1 THEN patch.keys ELSE Keys[i]
    BY <1>1, <1>2, KeysOfPatches
<1>6. Keys' = Append(Keys, patch.keys)
    BY <1>3, <1>4, <1>5
<1>7. patch.keys \in SUBSET Leaves
    BY DEF Patch
<1> QED
    BY <1>6, <1>7 DEF Register!Report, Keys

-----------------------------------------------------------------------------
(* Every step is one of the register *)

RegisterStep == [Register!Next]_(Register!vars)

\* A step that touches neither the patches nor the server.
LEMMA Unseen ==
    ASSUME patches' = patches, server' = server, setback' = setback
    PROVE  RegisterStep
BY DEF RegisterStep, Register!vars

\* A step at the client's side moves what is sent and what is pending.
LEMMA CutsMove ==
    ASSUME NEW a \in Nat, NEW s \in Nat, NEW b \in Nat, Cuts(a, s, b),
           NEW x \in Nat, NEW z \in Nat, x <= s, b <= z, z <= Len(patches),
           UNCHANGED <<patches, server, late, setback>>,
           loop' # "off" => Part(patches, inflight', x, z),
           arrived' = TRUE => s = z,
           (loop' = "off" /\ closed' = FALSE) => s = z,
           closed' = FALSE => Part(patches, pending', z, Len(patches))
    PROVE  Cuts(x, s, z)'
<1>1. /\ \A leaf \in Leaves : Holds(s, leaf)'
      /\ s <= z
    BY DEF Cuts, Holds
<1>2. \A put \in late' : \E c, d \in Nat :
            c <= s /\ c <= d /\ d <= z /\ Part(patches, put[2], c, d)
    BY DEF Cuts
<1> QED
    BY <1>1, <1>2 DEF Cuts

\* enqueue() of a patch.
LEMMA EnqueueKeeps ==
    ASSUME IInv, NEW patch \in Patch, Enqueue(patch.keys, patch.state),
           UNCHANGED <<script, arrived, init, closed, server, late, setback>>,
           init = "done", made' \in Nat
    PROVE  IInv' /\ RegisterStep
<1> USE DEF IInv
<1>1. CASE closed = TRUE
    <2>1. UNCHANGED <<pending, inflight, loop, patches>>
        BY <1>1 DEF Enqueue
    <2>2. \A a, s, b \in Nat : Cuts(a, s, b) => Cuts(a, s, b)'
        BY <2>1 DEF Cuts, Holds
    <2> QED
        BY <2>1, <2>2, Unseen DEF Typed
<1>2. CASE closed = FALSE
    <2> DEFINE n == Len(patches)
               new == [k \in patch.keys |-> n + 1]
               merged == Coalesce(pending, new)
    <2>1. /\ patches' = Append(patches, [keys |-> patch.keys, state |-> patch.state])
          /\ Drain(merged)
        BY <1>2 DEF Enqueue
    <2>2. patch = [keys |-> patch.keys, state |-> patch.state]
        BY DEF Patch
    <2>3. /\ patches \in Seq(Patch) /\ patches' = Append(patches, patch)
          /\ n \in Nat /\ Len(patches') = n + 1
          /\ patches' \in Seq(Patch)
        BY <2>1, <2>2 DEF Typed
    <2>4. PICK a \in Nat, s \in Nat, b \in Nat : Cuts(a, s, b)
        OBVIOUS
    <2>5. a <= s /\ s <= b /\ b <= n /\ b \in 0..n /\ s \in 0..n
        BY <2>3, <2>4 DEF Cuts
    <2>6. loop # "off" => Part(patches', inflight, a, b)
        BY <2>3, <2>4, <2>5, AppendKeepsPart DEF Cuts
    <2>7. Part(patches', pending, b, n)
        <3>1. Part(patches, pending, b, n) /\ n \in 0..n
            BY <1>2, <2>3, <2>4 DEF Cuts
        <3> QED
            BY <2>3, <3>1, AppendKeepsPart
    <2>8. Part(patches', merged, b, n + 1)
        <3>1. Part(patches', new, n, n + 1)
            BY <2>3, PartOfReport
        <3> HIDE DEF n, new
        <3>2. Part(patches', Coalesce(pending, new), b, n + 1)
            BY <2>3, <2>5, <2>7, <3>1, PartsCoalesce
        <3> QED
            BY <3>2
    <2>9. /\ \A leaf \in Leaves : Holds(s, leaf)'
          /\ \A put \in late' : \E c, d \in Nat :
                c <= s /\ c <= d /\ d <= b /\ Part(patches', put[2], c, d)
        <3>1. \A leaf : \A m \in 0..n :
                Last(patches', m, leaf) = Last(patches, m, leaf)
            BY <2>3, AppendKeeps
        <3>2. s \in 0..n /\ \A m \in 0..n : m \in 0..Len(patches')
            BY <2>3, <2>5
        <3>3. \A leaf \in Leaves : Holds(s, leaf)'
            BY <2>4, <3>1, <3>2 DEF Cuts, Holds
        <3>4. ASSUME NEW put \in late, NEW c \in Nat, NEW d \in Nat, d <= b,
                     Part(patches, put[2], c, d)
              PROVE  Part(patches', put[2], c, d)
            <4>1. d \in 0..n
                BY <2>5, <3>4
            <4> QED
                BY <2>3, <3>4, <4>1, AppendKeepsPart
        <3> QED
            BY <2>4, <3>3, <3>4 DEF Cuts
    <2>10. \E x, y, z \in Nat : Cuts(x, y, z)'
        <3>1. CASE loop = "off" /\ merged # NoPatch
            <4>1. /\ inflight' = merged /\ pending' = NoPatch
                  /\ loop' = "sending"
                BY <1>2, <2>1, <3>1 DEF Drain
            <4>2. s = b /\ arrived' = FALSE /\ closed' = FALSE
                BY <1>2, <2>4, <3>1 DEF Cuts, Typed
            <4>3. Part(patches', pending', n + 1, n + 1)
                BY <2>3, <4>1, PartNothing
            <4> HIDE DEF merged, n
            <4>4. PICK m \in Nat : m = n + 1
                BY <2>3
            <4>5. /\ Part(patches', inflight', b, m)
                  /\ Part(patches', pending', m, Len(patches'))
                  /\ b <= m /\ m <= Len(patches')
                BY <2>3, <2>5, <2>8, <4>1, <4>3, <4>4
            <4>6. \A put \in late' : \E c, d \in Nat :
                    c <= b /\ c <= d /\ d <= m /\ Part(patches', put[2], c, d)
                BY <2>9, <4>2, <4>5
            <4>7. Cuts(b, b, m)'
                BY <2>9, <4>1, <4>2, <4>5, <4>6 DEF Cuts
            <4> QED
                BY <4>7
        <3>2. CASE ~(loop = "off" /\ merged # NoPatch)
            <4>1. pending' = merged /\ UNCHANGED <<inflight, loop>>
                BY <1>2, <2>1, <3>2 DEF Drain
            <4> HIDE DEF merged, n
            <4>2. Cuts(a, s, b)'
                <5>1. Len(patches') = n + 1 /\ b <= n + 1
                    BY <2>3, <2>5
                <5>2. /\ arrived' = TRUE => s = b
                      /\ (loop' = "off" /\ closed' = FALSE) => s = b
                    BY <2>4, <4>1 DEF Cuts
                <5> QED
                    BY <2>5, <2>6, <2>8, <2>9, <4>1, <5>1, <5>2 DEF Cuts
            <4> QED
                BY <4>2
        <3> QED
            BY <3>1, <3>2
    <2>11. LastIsLast(patches')
        BY <2>3, AppendHasLast
    <2>12. loop' \in {"off", "sending", "sleeping"}
           /\ (arrived' = TRUE => loop' = "sending")
        BY <2>1 DEF Drain, Typed
    <2>13. RegisterStep
        BY <2>3, EnqueueReports DEF RegisterStep, Register!Next
    <2>14. Typed'
        <3>1. server' \in [Leaves -> 0..Len(patches')]
            BY <2>3 DEF Typed
        <3> QED
            BY <2>3, <2>12, <3>1 DEF Typed
    <2> QED
        BY <2>10, <2>11, <2>13, <2>14
<1> QED
    BY <1>1, <1>2 DEF Typed

LEMMA MakeReportKeeps ==
    ASSUME IInv, MakeReport
    PROVE  IInv' /\ RegisterStep
<1> DEFINE report == script.reports[made + 1]
<1>1. /\ init = "done" /\ made' \in Nat /\ made + 1 \in 1..Len(script.reports)
      /\ UNCHANGED <<script, arrived, init, closed, server,
                     late, setback>>
    <2>1. script \in Scripts /\ script.waits /\ script.reports \in Seq(Report)
        BY ScriptsAssumption DEF IInv, Typed
    <2> QED
        BY <2>1 DEF MakeReport, IInv, Typed, serverVars
<1>2. report \in Report
    <2>1. script.reports \in Seq(Report)
        BY ScriptsAssumption DEF IInv, Typed
    <2> QED
        BY <1>1, <2>1
<1>3. CASE report.what = "metadata"
    <2>1. Enqueue(report.keys, "none")
        BY <1>3 DEF MakeReport
    <2> DEFINE patch == [keys |-> report.keys, state |-> "none"]
    <2>2. report.keys \subseteq Metadata
        BY <1>2, <1>3 DEF Report
    <2>3. patch \in Patch /\ Enqueue(patch.keys, patch.state)
        BY <2>1, <2>2 DEF Patch, Leaves
    <2> QED
        BY <1>1, <2>3, EnqueueKeeps
<1>4. CASE report.what # "metadata" /\ Repeats(report)
    <2>1. UNCHANGED <<pending, inflight, loop, patches>>
        BY <1>4 DEF MakeReport
    <2>2. \A a, s, b \in Nat : Cuts(a, s, b) => Cuts(a, s, b)'
        BY <1>1, <2>1 DEF Cuts, Holds
    <2> QED
        BY <1>1, <2>1, <2>2, Unseen DEF IInv, Typed
<1>5. CASE report.what # "metadata" /\ ~Repeats(report)
    <2>1. Enqueue({"worker_status", "details"}, report.state)
        BY <1>5 DEF MakeReport
    <2> DEFINE patch == [keys |-> {"worker_status", "details"},
                         state |-> report.state]
    <2>2. report.state \in States
        BY <1>2, <1>5 DEF Report
    <2>3. patch \in Patch /\ Enqueue(patch.keys, patch.state)
        BY <2>1, <2>2 DEF Patch, Leaves
    <2> QED
        BY <1>1, <2>3, EnqueueKeeps
<1> QED
    BY <1>3, <1>4, <1>5

-----------------------------------------------------------------------------
(* sendWithRetry() *)

\* A PUT that merges the patches from c to d, of which the server has the first
\* s, gives a leaf the last patch up to d that sets it, and leaves the others,
\* which no patch after c sets, as they are.
LEMMA OverlayHolds ==
    ASSUME IInv, NEW patch, NEW c \in Nat, NEW s \in Nat, NEW d \in Nat,
           c <= s, s <= d, d <= Len(patches), Part(patches, patch, c, d),
           \A leaf \in Leaves : Holds(s, leaf),
           server' = Overlay(patch), patches' = patches,
           setback \ DOMAIN patch \subseteq setback',
           setback' \subseteq setback \union DOMAIN patch
    PROVE  \A leaf \in Leaves : Holds(d, leaf)'
<1> SUFFICES ASSUME NEW leaf \in Leaves
             PROVE  Holds(d, leaf)'
    OBVIOUS
<1>1. d \in 0..Len(patches)
    BY KeysOfPatches DEF IInv
<1>2. CASE leaf \in DOMAIN patch
    <2>1. server'[leaf] = Last(patches, d, leaf)
        BY <1>2 DEF Overlay, Part
    <2> QED
        BY <1>1, <2>1 DEF Holds
<1>3. CASE leaf \notin DOMAIN patch
    <2>1. server'[leaf] = server[leaf] /\ (leaf \in setback' <=> leaf \in setback)
        BY <1>3 DEF Overlay
    <2>2. ~ \E i \in SetBy(patches, d, leaf) : s < i
        <3>1. ~ \E i \in SetBy(patches, d, leaf) : c < i
            BY <1>3 DEF Part
        <3>2. \A i \in SetBy(patches, d, leaf) : i \in Nat
            BY DEF SetBy
        <3> QED
            BY <3>1, <3>2
    <2>3. Last(patches, d, leaf) = Last(patches, s, leaf)
        BY <2>2, LastStays
    <2>4. Holds(s, leaf)
        OBVIOUS
    <2> QED
        BY <2>1, <2>3, <2>4 DEF Holds
<1> QED
    BY <1>2, <1>3

LEMMA OverlayTyped ==
    ASSUME IInv, NEW patch, NEW c \in Nat, NEW d \in Nat,
           d <= Len(patches), Part(patches, patch, c, d)
    PROVE  Overlay(patch) \in [Leaves -> 0..Len(patches)]
<1>1. d \in 0..Len(patches) /\ Len(patches) \in Nat
    BY KeysOfPatches DEF IInv
<1>2. \A leaf \in DOMAIN patch : patch[leaf] \in 0..Len(patches)
    BY <1>1, LastBounds DEF Part, IInv
<1> QED
    BY <1>2 DEF Overlay, IInv, Typed

LEMMA PutArrivesKeeps ==
    ASSUME IInv, PutArrives
    PROVE  IInv' /\ RegisterStep
<1>1. PICK a \in Nat, s \in Nat, b \in Nat : Cuts(a, s, b)
    BY DEF IInv
<1>2. /\ loop = "sending" /\ arrived' = TRUE
      /\ UNCHANGED <<script, made, pending, inflight, loop, init, closed, patches,
                     late>>
    BY DEF PutArrives, clientVars
<1>3. /\ server' = Overlay(inflight)
      /\ setback' = setback \ DOMAIN inflight
    BY DEF PutArrives
<1>4. a <= s /\ s <= b /\ b <= Len(patches) /\ Part(patches, inflight, a, b)
    BY <1>1, <1>2 DEF Cuts
<1>5. \A leaf \in Leaves : Holds(b, leaf)'
    BY <1>1, <1>2, <1>3, <1>4, OverlayHolds DEF Cuts
<1>6. Cuts(a, b, b)'
    BY <1>1, <1>2, <1>4, <1>5 DEF Cuts
<1>7. Typed'
    BY <1>2, <1>3, <1>4, OverlayTyped DEF IInv, Typed
<1>8. Register!Apply \/ Register!ApplyLate
    <2>1. Len(patches) \in Nat
        BY KeysOfPatches DEF IInv
    <2>2. b \in 0..Len(patches)
        BY <1>4, <2>1
    <2>3. \A leaf \in Leaves : leaf \notin setback => leaf \in setback'
                \/ server'[leaf] >= server[leaf]
        <3> SUFFICES ASSUME NEW leaf \in Leaves, leaf \notin setback
                     PROVE  server'[leaf] >= server[leaf]
            OBVIOUS
        <3>1. server[leaf] = Last(patches, s, leaf)
            BY <1>1 DEF Cuts, Holds
        <3>2. server'[leaf] = Last(patches, b, leaf)
            BY <1>2, <1>3, <1>5 DEF Holds
        <3>3. s \in 0..Len(patches)
            BY <1>4, <2>1
        <3> QED
            BY <1>4, <2>2, <3>1, <3>2, <3>3, LastGrows DEF IInv
    <2> QED
        BY <1>2, <1>3, <1>5, <1>7, <2>2, <2>3, ServerApplies
<1> QED
    BY <1>2, <1>6, <1>7, <1>8 DEF IInv, RegisterStep, Register!Next

\* A PUT that was given up brings the server up to its own patches, or sets
\* back some leaves when a newer PUT was there before it.
LEMMA LateArrivesKeeps ==
    ASSUME IInv, LateArrives
    PROVE  IInv' /\ RegisterStep
<1>1. PICK a \in Nat, s \in Nat, b \in Nat : Cuts(a, s, b)
    BY DEF IInv
<1>2. PICK put \in late :
        /\ late' = late \ {put}
        /\ server' = Overlay(put[2])
        /\ setback' = setback \union
                {leaf \in DOMAIN put[2] : put[2][leaf] < server[leaf]}
        /\ UNCHANGED <<script, made, clientVars, arrived, registered, patches,
                       faults>>
    BY DEF LateArrives
<1>3. UNCHANGED <<script, made, pending, inflight, loop, init, closed, patches,
                  arrived>>
    BY <1>2 DEF clientVars
<1>4. PICK c \in Nat, d \in Nat :
        c <= s /\ c <= d /\ d <= b /\ Part(patches, put[2], c, d)
    BY <1>1 DEF Cuts
<1>5. a <= s /\ s <= b /\ b <= Len(patches) /\ Len(patches) \in Nat
    BY <1>1, KeysOfPatches DEF Cuts, IInv
<1>6. Typed'
    <2>1. DOMAIN put[2] \subseteq Leaves
        BY <1>4 DEF Part
    <2>2. server' \in [Leaves -> 0..Len(patches)]
        BY <1>2, <1>4, <1>5, OverlayTyped DEF IInv
    <2> QED
        BY <1>2, <1>3, <2>1, <2>2 DEF IInv, Typed
<1>7. PICK n \in Nat : /\ s <= n /\ n <= b
                       /\ arrived = TRUE => n = b
                       /\ \A leaf \in Leaves : Holds(n, leaf)'
    <2>1. CASE s <= d
        <3>1. \A leaf \in Leaves : Holds(d, leaf)'
            BY <1>1, <1>2, <1>4, <1>5, <2>1, OverlayHolds DEF Cuts
        <3>2. arrived = TRUE => d = b
            BY <1>1, <1>4, <2>1 DEF Cuts
        <3> QED
            BY <1>4, <2>1, <3>1, <3>2
    <2>2. CASE d < s
        <3>1. ASSUME NEW leaf \in Leaves, leaf \in DOMAIN put[2]
              PROVE  Holds(s, leaf)'
            <4>1. /\ server'[leaf] = put[2][leaf]
                  /\ put[2][leaf] = Last(patches, d, leaf)
                BY <1>2, <1>4, <3>1 DEF Overlay, Part
            <4>2. d \in 0..Len(patches) /\ s \in 0..Len(patches) /\ d <= s
                BY <1>5, <2>2
            <4>3. CASE leaf \in setback'
                BY <1>3, <4>1, <4>2, <4>3 DEF Holds
            <4>4. CASE leaf \notin setback'
                <5>1. leaf \notin setback /\ ~(put[2][leaf] < server[leaf])
                    BY <1>2, <3>1, <4>4
                <5>2. server[leaf] = Last(patches, s, leaf)
                    BY <1>1, <5>1 DEF Cuts, Holds
                <5>3. Last(patches, s, leaf) >= Last(patches, d, leaf)
                    BY <4>2, <1>5, LastGrows DEF IInv
                <5>4. /\ Last(patches, s, leaf) \in 0..s
                      /\ Last(patches, d, leaf) \in 0..d
                    BY <4>2, <1>5, LastBounds DEF IInv
                <5>5. server'[leaf] = Last(patches, s, leaf)
                    BY <4>1, <4>2, <5>1, <5>2, <5>3, <5>4
                <5> QED
                    BY <1>3, <4>4, <5>5 DEF Holds
            <4> QED
                BY <4>3, <4>4
        <3>2. ASSUME NEW leaf \in Leaves, leaf \notin DOMAIN put[2]
              PROVE  Holds(s, leaf)'
            <4>1. server'[leaf] = server[leaf] /\ (leaf \in setback' <=> leaf \in setback)
                BY <1>2, <3>2 DEF Overlay
            <4>2. Holds(s, leaf)
                BY <1>1 DEF Cuts
            <4> QED
                BY <1>3, <4>1, <4>2 DEF Holds
        <3> QED
            BY <1>1, <1>5, <3>1, <3>2 DEF Cuts
    <2>3. s <= d \/ d < s
        OBVIOUS
    <2> QED
        BY <1>4, <1>5, <2>1, <2>2, <2>3
<1>8. Cuts(a, n, b)'
    <2>1. \A x \in late' : \E y, z \in Nat :
            y <= n /\ y <= z /\ z <= b /\ Part(patches, x[2], y, z)
        <3>1. \A x \in late' : \E y, z \in Nat :
                y <= s /\ y <= z /\ z <= b /\ Part(patches, x[2], y, z)
            BY <1>1, <1>2 DEF Cuts
        <3> QED
            BY <1>7, <3>1
    <2>2. (loop = "off" /\ closed = FALSE) => n = b
        BY <1>1, <1>7 DEF Cuts
    <2> QED
        BY <1>1, <1>3, <1>5, <1>7, <2>1, <2>2 DEF Cuts
<1>9. Register!Apply \/ Register!ApplyLate
    <2>1. n \in 0..Len(patches) /\ s \in 0..Len(patches)
        BY <1>5, <1>7
    <2>2. ASSUME NEW leaf \in Leaves, leaf \notin setback, leaf \notin setback'
          PROVE  server'[leaf] >= server[leaf]
        <3>1. server[leaf] = Last(patches, s, leaf)
            BY <1>1, <2>2 DEF Cuts, Holds
        <3>2. server'[leaf] = Last(patches, n, leaf)
            BY <1>3, <1>7, <2>2 DEF Holds
        <3> QED
            BY <1>5, <1>7, <2>1, <3>1, <3>2, LastGrows DEF IInv
    <2>3. setback \subseteq setback'
        BY <1>2
    <2> QED
        BY <1>3, <1>6, <1>7, <2>1, <2>2, <2>3, ServerApplies
<1> QED
    BY <1>3, <1>6, <1>8, <1>9 DEF IInv, RegisterStep, Register!Next

LEMMA PutSucceedsKeeps ==
    ASSUME IInv, PutSucceeds
    PROVE  IInv' /\ RegisterStep
<1>1. PICK a \in Nat, s \in Nat, b \in Nat : Cuts(a, s, b)
    BY DEF IInv
<1>2. /\ loop = "sending" /\ arrived' = FALSE /\ s = b
      /\ UNCHANGED <<script, made, init, closed, patches, server,
                     late, setback>>
    BY <1>1 DEF PutSucceeds, Cuts, IInv, Typed, serverVars
<1>0. /\ s <= s /\ b <= b /\ b <= Len(patches)
      /\ closed = FALSE => Part(patches, pending, b, Len(patches))
    BY <1>1 DEF Cuts
<1>3. CASE pending # NoPatch /\ ~closed
    <2>1. inflight' = pending /\ pending' = NoPatch /\ loop' = loop
        BY <1>3 DEF PutSucceeds
    <2>2. PICK c \in Nat : c = Len(patches)
        BY KeysOfPatches DEF IInv
    <2>3. Part(patches, NoPatch, c, c)
        BY PartNothing
    <2>4. Part(patches, inflight', s, c) /\ c <= c
        BY <1>0, <1>2, <1>3, <2>1, <2>2
    <2>5. Cuts(s, s, c)'
        BY <1>0, <1>1, <1>2, <2>1, <2>2, <2>3, <2>4, CutsMove
    <2> QED
        BY <1>2, <2>1, <2>5, Unseen DEF IInv, Typed
<1>4. CASE ~(pending # NoPatch /\ ~closed)
    <2>1. inflight' = NoPatch /\ pending' = pending /\ loop' = "off"
        BY <1>4 DEF PutSucceeds
    <2>2. Part(patches, NoPatch, b, b)
        BY PartNothing
    <2>3. Cuts(b, b, b)'
        BY <1>0, <1>1, <1>2, <1>4, <2>1, <2>2, CutsMove
    <2> QED
        BY <1>2, <2>1, <2>3, Unseen DEF IInv, Typed
<1> QED
    BY <1>3, <1>4

LEMMA PutFailsKeeps ==
    ASSUME IInv, PutFails
    PROVE  IInv' /\ RegisterStep
<1>1. PICK a \in Nat, s \in Nat, b \in Nat : Cuts(a, s, b)
    BY DEF IInv
<1>2. /\ loop' = "sleeping" /\ arrived' = FALSE
      /\ late' = IF arrived THEN late ELSE late \union {<<faults, inflight>>}
      /\ UNCHANGED <<script, made, pending, inflight, init, closed, patches,
                     server, setback>>
    BY DEF PutFails
<1>3. /\ a <= s /\ s <= b /\ b <= Len(patches)
      /\ Part(patches, inflight, a, b)
      /\ closed = FALSE => Part(patches, pending, b, Len(patches))
    BY <1>1 DEF Cuts, PutFails
<1>4. \A put \in late' : \E c, d \in Nat :
            c <= s /\ c <= d /\ d <= b /\ Part(patches, put[2], c, d)
    <2>1. ASSUME NEW put \in late', put \notin late
          PROVE  put[2] = inflight
        BY <1>2, <2>1
    <2>2. a <= b
        BY <1>3
    <2>3. \A put \in late : \E c, d \in Nat :
            c <= s /\ c <= d /\ d <= b /\ Part(patches, put[2], c, d)
        BY <1>1 DEF Cuts
    <2> QED
        BY <1>3, <2>1, <2>2, <2>3
<1>5. \A leaf \in Leaves : Holds(s, leaf)'
    BY <1>1, <1>2 DEF Cuts, Holds
<1>6. Cuts(a, s, b)'
    BY <1>2, <1>3, <1>4, <1>5 DEF Cuts
<1> QED
    BY <1>2, <1>6, Unseen DEF IInv, Typed

\* The next try also carries what became pending.
LEMMA SleepEndsKeeps ==
    ASSUME IInv, SleepEnds
    PROVE  IInv' /\ RegisterStep
<1>1. PICK a \in Nat, s \in Nat, b \in Nat : Cuts(a, s, b)
    BY DEF IInv
<1>2. /\ arrived = FALSE /\ loop = "sleeping"
      /\ UNCHANGED <<script, made, arrived, init, closed, patches, server,
                     late, setback>>
    BY DEF SleepEnds, IInv, Typed, serverVars
<1>3. CASE closed = TRUE
    <2>1. inflight' = NoPatch /\ loop' = "off" /\ pending' = pending
        BY <1>3 DEF SleepEnds, Retry
    <2>2. a <= s /\ b <= b /\ b <= Len(patches)
        BY <1>1, KeysOfPatches DEF IInv, Cuts
    <2>3. Cuts(a, s, b)'
        BY <1>1, <1>2, <1>3, <2>1, <2>2, CutsMove
    <2> QED
        BY <1>2, <2>1, <2>3, Unseen DEF IInv, Typed
<1>4. CASE closed = FALSE
    <2>1. /\ inflight' = Coalesce(inflight, pending) /\ pending' = NoPatch
          /\ loop' = "sending"
        BY <1>4 DEF SleepEnds, Retry
    <2>2. PICK c \in Nat : c = Len(patches)
        BY KeysOfPatches DEF IInv
    <2>3. Part(patches, NoPatch, c, c)
        BY PartNothing
    <2>4. Part(patches, inflight', a, c)
        <3>1. /\ a <= b /\ b <= c
              /\ Part(patches, inflight, a, b) /\ Part(patches, pending, b, c)
            BY <1>1, <1>2, <1>4, <2>2 DEF Cuts
        <3> QED
            BY <2>1, <3>1, PartsCoalesce
    <2>5. a <= s /\ b <= c /\ c <= Len(patches)
        BY <1>1, <2>2 DEF Cuts
    <2>6. Cuts(a, s, c)'
        BY <1>1, <1>2, <1>4, <2>1, <2>2, <2>3, <2>4, <2>5, CutsMove
    <2> QED
        BY <1>2, <2>1, <2>6, Unseen DEF IInv, Typed
<1> QED
    BY <1>3, <1>4 DEF IInv, Typed

-----------------------------------------------------------------------------
(* initialize() and close() *)

\* What initialize() clears was never set by this client.
LEMMA InitArrivesKeeps ==
    ASSUME IInv, InitArrives
    PROVE  IInv' /\ RegisterStep
<1>1. PICK a \in Nat, s \in Nat, b \in Nat : Cuts(a, s, b)
    BY DEF IInv
<1>2. patches = <<>>
    BY DEF IInv, InitArrives
<1>3. server \in [Leaves -> 0..0]
    BY <1>2 DEF IInv, Typed
<1>4. server' = server
    <2>1. \A leaf \in Leaves : server[leaf] = 0
        BY <1>3
    <2> QED
        BY <1>3, <2>1 DEF InitArrives
<1>5. UNCHANGED <<script, made, pending, inflight, loop, arrived, init, closed,
                  patches, late, setback>>
    BY DEF InitArrives, clientVars
<1>6. \A x, y, z \in Nat : Cuts(x, y, z) => Cuts(x, y, z)'
    BY <1>4, <1>5 DEF Cuts, Holds
<1> QED
    BY <1>4, <1>5, <1>6, Unseen DEF IInv, Typed

\* Closing drops what is pending.
LEMMA ClosingKeeps ==
    ASSUME IInv, closed' = TRUE, init' = init \/ init' = "failed",
           init = "done" => init' = "done",
           UNCHANGED <<script, made, inflight, loop, arrived, patches, server,
                     late, setback>>
    PROVE  IInv' /\ RegisterStep
<1>1. \A a, s, b \in Nat : Cuts(a, s, b) => Cuts(a, s, b)'
    BY DEF Cuts, Holds
<1> QED
    BY <1>1, Unseen DEF IInv, Typed

-----------------------------------------------------------------------------
LEMMA InitHolds ==
    ASSUME Init, \A x \in Scripts : x.waits
    PROVE  IInv /\ Register!Init
<1>1. Typed
    <2>1. script \in Scripts /\ script.waits /\ patches = <<>>
        BY DEF Init
    <2>2. patches \in Seq(Patch) /\ Len(patches) = 0
        BY <2>1
    <2>3. server \in [Leaves -> 0..Len(patches)]
        BY <2>2 DEF Init
    <2> QED
        BY <2>1, <2>2, <2>3 DEF Init, Typed
<1>2. LastIsLast(patches)
    BY DEF Init, LastIsLast, SetBy
<1>3. \A leaf : Last(patches, 0, leaf) = 0
    BY DEF Last, SetBy
<1>4. Part(patches, NoPatch, 0, 0)
    BY PartNothing
<1>5. Cuts(0, 0, 0)
    <2>1. \A leaf \in Leaves : Holds(0, leaf)
        BY <1>3 DEF Init, Holds
    <2> QED
        BY <1>4, <2>1 DEF Init, Cuts
<1>6. Keys = <<>>
    BY DEF Init, Keys
<1> QED
    BY <1>1, <1>2, <1>5, <1>6 DEF Init, IInv, Register!Init, Keys

LEMMA StepKeeps ==
    ASSUME IInv, [Next]_vars
    PROVE  IInv' /\ RegisterStep
<1>1. CASE MakeReport
    BY <1>1, MakeReportKeeps
<1>2. CASE Put
    BY <1>2, PutArrivesKeeps, PutSucceedsKeeps, PutFailsKeeps,
       LateArrivesKeeps DEF Put
<1>3. CASE SleepEnds
    BY <1>3, SleepEndsKeeps
<1>4. CASE Initialize \/ InitSucceeds
    <2>1. /\ UNCHANGED <<script, made, pending, inflight, loop, arrived, closed,
                         patches, server,
                     late, setback>>
          /\ init # "done"
        BY <1>4 DEF Initialize, InitSucceeds, serverVars
    <2>2. \A a, s, b \in Nat : Cuts(a, s, b) => Cuts(a, s, b)'
        BY <2>1 DEF Cuts, Holds
    <2> QED
        BY <2>1, <2>2, Unseen DEF IInv, Typed
<1>5. CASE InitArrives
    BY <1>5, InitArrivesKeeps
<1>6. CASE InitFails
    BY <1>6, ClosingKeeps DEF InitFails, serverVars
<1>7. CASE Close
    BY <1>7, ClosingKeeps DEF Close, serverVars
<1>8. CASE UNCHANGED vars
    <2>1. UNCHANGED <<script, made, pending, inflight, loop, arrived, init,
                      closed, patches, server,
                     late, setback>>
        BY <1>8 DEF vars, clientVars, serverVars
    <2>2. \A a, s, b \in Nat : Cuts(a, s, b) => Cuts(a, s, b)'
        BY <2>1 DEF Cuts, Holds
    <2> QED
        BY <2>1, <2>2, Unseen DEF IInv, Typed
<1> QED
    BY <1>1, <1>2, <1>3, <1>4, <1>5, <1>6, <1>7, <1>8 DEF Next, InitAnswer

\* When every session awaits initialize() before it reports, as a resumed one
\* does, the worker at the server is the merge of the first so many reports
\* that were enqueued, and no retried, absorbed or late PUT of sendWithRetry()
\* takes it back, outside the leaves that a timed-out PUT set back by arriving
\* after a newer one and that no PUT has set since.
THEOREM ServerHoldsRegister ==
    (\A x \in Scripts : x.waits) /\ Spec => ServerIsRegister
<1> SUFFICES ASSUME \A x \in Scripts : x.waits
             PROVE  Spec => ServerIsRegister
    OBVIOUS
<1>1. Init => IInv /\ Register!Init
    BY InitHolds
<1>2. IInv /\ [Next]_vars => IInv' /\ [Register!Next]_(Register!vars)
    BY StepKeeps DEF RegisterStep
<1> QED
    BY <1>1, <1>2, PTL DEF Spec, ServerIsRegister, Register!Spec
=============================================================================
