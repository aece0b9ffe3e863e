---------------------------- MODULE ContentStore ----------------------------
(***************************************************************************)
(* What the artifact store promises of the evidence: a content, once kept, *)
(* is kept for ever and whole; what is recorded is kept; and what is       *)
(* shipped agrees with itself.  Its log names nothing its database does    *)
(* not, its database names nothing that is not in it, and it lacks nothing *)
(* that the package before it had.  Nothing is said of writers, files half *)
(* written, directories, or of the moments at which an export reads.       *)
(***************************************************************************)
CONSTANTS Blobs, Nothing

VARIABLES kept,      \* of each content, whether it is absent or whole
          recorded,  \* the contents that rows name
          shipped    \* the package last delivered

vars == << kept, recorded, shipped >>

Kept == {b \in Blobs : kept[b] = "whole"}

Init ==
    /\ kept = [b \in Blobs |-> "absent"]
    /\ recorded = {}
    /\ shipped = Nothing

Put(b) ==
    /\ kept[b] = "absent"
    /\ kept' = [kept EXCEPT ![b] = "whole"]
    /\ UNCHANGED << recorded, shipped >>

Record ==
    /\ recorded \subseteq recorded'
    /\ recorded' \subseteq Kept
    /\ UNCHANGED << kept, shipped >>

Ship ==
    /\ shipped' \in [log : SUBSET recorded, database : SUBSET recorded, blobs : SUBSET Kept]
    /\ shipped'.log \subseteq shipped'.database
    /\ shipped'.database \subseteq shipped'.blobs
    /\ shipped # Nothing => shipped.database \subseteq shipped'.log
    /\ UNCHANGED << kept, recorded >>

Next == (\E b \in Blobs : Put(b)) \/ Record \/ Ship

Spec == Init /\ [][Next]_vars
=============================================================================
