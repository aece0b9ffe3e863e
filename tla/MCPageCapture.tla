---------------------------- MODULE MCPageCapture ----------------------------
(* PageCapture for TLC: two connections at a time, three addresses, two of *)
(* them public.                                                            *)
EXTENDS PageCapture, TLC

CONSTANTS k1, k2, a1, a2, a3

MCConns     == {k1, k2}
MCAddresses == {a1, a2, a3}
MCPublic    == {a1, a2}
MCSymmetry  == Permutations(MCConns) \cup Permutations(MCPublic)
=============================================================================
