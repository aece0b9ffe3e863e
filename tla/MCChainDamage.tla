---------------------------- MODULE MCChainDamage ----------------------------
(* ChainDamage with two contents: enough to alter a row and to tell it.    *)
EXTENDS ChainDamage, TLC

CONSTANTS p1, p2

MCPayload  == {p1, p2}
MCSymmetry == Permutations(MCPayload)
=============================================================================
