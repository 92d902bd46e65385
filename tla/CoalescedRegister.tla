------------------------- MODULE CoalescedRegister -------------------------
(***************************************************************************)
(* What a coalescing uploader promises: the value at the server is the     *)
(* merge of the first so many patches and does not go back, outside the    *)
(* leaves that a late PUT has set back and no PUT has set since.           *)
(***************************************************************************)
EXTENDS Naturals, Sequences

CONSTANT Leaves   \* the keys, those inside the metadata one by one

VARIABLES
    patches,   \* the sets of leaves that the patches give a value, in order
    value,     \* for every leaf the patch that set it last (0: none did)
    setback    \* the leaves that may have an older value

vars == <<patches, value, setback>>

\* The merge of the first n patches.
Latest(n, leaf) ==
    LET setting == {i \in 1..n : leaf \in patches[i]}
    IN  IF setting = {} THEN 0
        ELSE CHOOSE i \in setting : \A j \in setting : j <= i

Init == patches = <<>> /\ value = [leaf \in Leaves |-> 0] /\ setback = {}

Report ==
    /\ \E keys \in SUBSET Leaves : patches' = Append(patches, keys)
    /\ UNCHANGED <<value, setback>>

\* The value becomes the merge of the first n patches, and goes back nowhere,
\* outside the leaves that are set back.
Merged(n) ==
    \A leaf \in Leaves :
        IF leaf \in setback'
        THEN \E m \in 0..Len(patches) : value'[leaf] = Latest(m, leaf)
        ELSE /\ value'[leaf] = Latest(n, leaf)
             /\ leaf \in setback \/ value'[leaf] >= value[leaf]

\* A PUT applies any number of the patches reported since the last one.
Apply ==
    /\ setback' \subseteq setback
    /\ value' \in [Leaves -> 0..Len(patches)]
    /\ \E n \in 0..Len(patches) : Merged(n)
    /\ UNCHANGED patches

\* A PUT that was given up arrives after all, perhaps after a newer one.
ApplyLate ==
    /\ setback \subseteq setback' /\ setback' \subseteq Leaves
    /\ value' \in [Leaves -> 0..Len(patches)]
    /\ \E n \in 0..Len(patches) : Merged(n)
    /\ UNCHANGED patches

Next == Report \/ Apply \/ ApplyLate

Spec == Init /\ [][Next]_vars
=============================================================================
