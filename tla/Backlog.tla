------------------------------- MODULE Backlog -------------------------------
(***************************************************************************)
(* What the archive poll promises of the requests it works through: each   *)
(* is tried one attempt at a time, no attempt is lost or counted twice,    *)
(* the answer to one is final, and one that was never answered is given up *)
(* at the last attempt allowed, not earlier and not later.  Nothing is     *)
(* said of polls, work lists or clocks.                                    *)
(***************************************************************************)
EXTENDS Naturals

CONSTANTS Items, Limit

VARIABLES state,   \* owed, answered or given up
          tries    \* attempts made at each item

vars == << state, tries >>

Init ==
    /\ state = [i \in Items |-> "owed"]
    /\ tries = [i \in Items |-> 0]

\* What an attempt that finds nothing leaves, when it is the n-th.
Unanswered(n) == IF n = Limit THEN "given up" ELSE "owed"

Try(i) ==
    /\ state[i] = "owed"
    /\ tries' = [tries EXCEPT ![i] = @ + 1]
    /\ \E outcome \in {"answered", Unanswered(tries[i] + 1)} :
          state' = [state EXCEPT ![i] = outcome]

Next == \E i \in Items : Try(i)

Spec == Init /\ [][Next]_vars
=============================================================================
