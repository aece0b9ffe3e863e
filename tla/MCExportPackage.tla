--------------------------- MODULE MCExportPackage ---------------------------
(* ExportPackage for TLC: two blobs, each in a directory of its own.       *)
EXTENDS ExportPackage, TLC

CONSTANTS w1, w2, b1, b2

MCWriters  == {w1, w2}
MCBlobs    == {b1, b2}
MCShards   == {"aa", "bb"}
MCshard    == (b1 :> "aa") @@ (b2 :> "bb")
MCSymmetry == Permutations(MCWriters)
=============================================================================
