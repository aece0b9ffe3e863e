---------------------------- MODULE MCEvidenceLog ----------------------------
(* EvidenceLog on a small instance: two writers overlapping, one reader.   *)
EXTENDS EvidenceLog, TLC

CONSTANTS w1, w2, r1, p1, p2

MCWriters  == {w1, w2}
MCReaders  == {r1}
MCPayload  == {p1, p2}
MCSymmetry == Permutations(MCWriters) \cup Permutations(MCPayload)
=============================================================================
