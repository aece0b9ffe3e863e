---------------------------- MODULE AppendOnlyLog ----------------------------
(***************************************************************************)
(* What the evidence log promises, without transactions, locks, hashes or  *)
(* tables: one sequence of events to which each writing transaction adds   *)
(* all of its events at once, and a mark that only ever moves forward to   *)
(* the length of the log at that moment, everything up to it having been   *)
(* verified.                                                               *)
(***************************************************************************)
EXTENDS Naturals, Sequences

CONSTANT Payload

VARIABLES events,      \* the contents of the entries, oldest first
          attested     \* how many of them the latest checkpoint covers

Init == /\ events = << >>
        /\ attested = 0

\* A transaction commits: what was there stays, and something is added.
AppendBatch == /\ events' \in Seq(Payload)
               /\ Len(events') > Len(events)
               /\ SubSeq(events', 1, Len(events)) = events
               /\ UNCHANGED attested

\* A digest has checked the log and marks all of it.
Attest == /\ attested < Len(events)
          /\ attested' = Len(events)
          /\ UNCHANGED events

Next == AppendBatch \/ Attest

Spec == Init /\ [][Next]_<<events, attested>>
=============================================================================
