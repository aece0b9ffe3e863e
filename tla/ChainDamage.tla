----------------------------- MODULE ChainDamage -----------------------------
(***************************************************************************)
(* What the two verifications of core/evidence_log.py and the check of the *)
(* trusted timestamps in cli.py can see of a log that was damaged outside  *)
(* the program: a row's content altered, a row lost, the newest rows cut   *)
(* off, the whole table written anew with hashes that fit, a checkpoint    *)
(* lost.  The triggers of core/db.py keep SQL from doing it, so these      *)
(* steps are the damage the tests do after dropping a trigger              *)
(* (tests/test_chain_integrity.py, tests/test_chain_checkpoint.py).  The   *)
(* program does not stop: between and after the damage it goes on          *)
(* appending to whatever head it finds, the daily digest goes on checking  *)
(* and moving the checkpoint, and the timestamp job goes on stamping.      *)
(***************************************************************************)
EXTENDS HashChain, SequencesExt

CONSTANTS MaxEntries,     \* bound: the program appends up to this length
          MaxStamps,      \* bound: timestamps taken
          MaxDamage       \* bound: how many times the table is damaged

ASSUME MaxEntriesAssumption == MaxEntries \in Nat
ASSUME MaxStampsAssumption  == MaxStamps \in Nat
ASSUME MaxDamageAssumption  == MaxDamage \in Nat

VARIABLES rows,           \* evidence_log, in the order of seq
          checkpoints,    \* chain_checkpoints
          attested,       \* history: the rows the latest checkpoint was written over
          stamped,        \* the timestamp artifacts, each with (history) the rows it was taken over
          damage          \* how often the tables were damaged

vars == << rows, checkpoints, attested, stamped, damage >>

Init == /\ rows = << >>
        /\ checkpoints = {}
        /\ attested = << >>
        /\ stamped = {}
        /\ damage = 0

-----------------------------------------------------------------------------
(* The program. *)

append ==
    /\ Len(rows) < MaxEntries
    /\ \E payload \in Payload :
          LET entry == NewEntry(rows, HeadHash(rows), payload)
          IN  /\ Unique(rows, entry)
              /\ rows' = Append(rows, entry)
    /\ UNCHANGED << checkpoints, attested, stamped, damage >>

\* The head is read, stamped over the network and recorded under one write lock:
\* the token's own row is the entry after the one it names.
timestamp_chain_head ==
    /\ Len(rows) \in 1..(MaxEntries - 1)
    /\ Cardinality(stamped) < MaxStamps
    /\ \E payload \in Payload :
          LET entry == NewEntry(rows, HeadHash(rows), payload)
          IN  /\ Unique(rows, entry)
              /\ rows' = Append(rows, entry)
    /\ stamped' = stamped \cup {[stamp |-> StampOfHead(rows), log |-> rows]}
    /\ UNCHANGED << checkpoints, attested, damage >>

Digest ==
    /\ verify_since_checkpoint(rows, checkpoints).ok
    /\ HeadIsNewer(rows, checkpoints)
    /\ checkpoints' = write_checkpoint(rows, checkpoints)
    /\ attested' = rows
    /\ UNCHANGED << rows, stamped, damage >>

-----------------------------------------------------------------------------
(* The damage. *)

Alter ==
    /\ \E i \in DOMAIN rows, payload \in Payload :
          /\ payload # rows[i].payload
          /\ rows' = [rows EXCEPT ![i].payload = payload]
    /\ UNCHANGED checkpoints

Lose ==
    /\ \E i \in DOMAIN rows :
          rows' = SubSeq(rows, 1, i - 1) \o SubSeq(rows, i + 1, Len(rows))
    /\ UNCHANGED checkpoints

CutTail ==
    /\ \E n \in 0..(Len(rows) - 2) : rows' = SubSeq(rows, 1, n)
    /\ UNCHANGED checkpoints

\* A chain without a break that holds other contents, made with the program's
\* own hash function: what no walk over the table alone can tell.
ChainOf(contents) ==
    [i \in DOMAIN contents |->
        [seq |-> i, prev_hash |-> SubSeq(contents, 1, i - 1), payload |-> contents[i],
         entry_hash |-> SubSeq(contents, 1, i)]]

Rewrite ==
    /\ \E n \in 1..Len(rows) : \E contents \in [1..n -> Payload] :
          rows' = ChainOf(contents)
    /\ UNCHANGED checkpoints

LoseCheckpoint ==
    /\ \E c \in checkpoints : checkpoints' = checkpoints \ {c}
    /\ UNCHANGED rows

Damage ==
    /\ damage < MaxDamage
    /\ damage' = damage + 1
    /\ Alter \/ Lose \/ CutTail \/ Rewrite \/ LoseCheckpoint
    /\ UNCHANGED << attested, stamped >>

Next == append \/ timestamp_chain_head \/ Digest \/ Damage

Spec == Init /\ [][Next]_vars

-----------------------------------------------------------------------------
(***************************************************************************)
(* Properties.                                                             *)
(***************************************************************************)

Prefix(i) == SubSeq(rows, 1, i)
Stamps    == {s.stamp : s \in stamped}

\* The tables hold rows of their types, in the order of seq.
TypeOK ==
    /\ rows \in Seq(EvidenceEntry)
    /\ \A i, j \in DOMAIN rows : i < j => rows[i].seq < rows[j].seq
    /\ checkpoints \subseteq ChainCheckpoint
    /\ attested \in Seq(EvidenceEntry)
    /\ \A s \in stamped : /\ s.stamp \in [stamped_seq : Nat \ {0}, digest : (Nat \ {0}) \X Hash]
                          /\ s.log \in Seq(EvidenceEntry)
    /\ damage \in 0..MaxDamage

\* `verify` accepts exactly the tables that are one unbroken chain from GENESIS,
\* and counts all of their entries.  Of any other table it names the seq of the
\* first break: the rows before it are an unbroken chain, with it they are not.
FullVerifyExact ==
    LET result == verify(rows)
    IN  /\ result.ok <=> Linear(rows)
        /\ result.ok => result.entries = Len(rows)
        /\ ~ result.ok =>
              \E i \in DOMAIN rows : /\ rows[i].seq = result.first_bad_seq
                                     /\ result.entries = i
                                     /\ Linear(Prefix(i - 1))
                                     /\ ~ Linear(Prefix(i))

\* "This proves the whole chain up to that point existed by that time": in a log
\* the walk accepts, the token taken over a sound log matches exactly as long as
\* the log still begins with every entry that was there when it was stamped.
\* So `verify` passes every log the program alone has written, and none whose
\* stamped part was written anew, however well its hashes fit.
StampsExact ==
    verify(rows).ok =>
        \A s \in stamped : Linear(s.log) =>
            (s.stamp \in _check_timestamps(rows, Stamps) <=> ~ IsPrefix(s.log, rows))

LatestIsThere == attested # << >> /\ CheckpointOf(attested) \in checkpoints

\* The daily check is about the head a digest has marked: while that checkpoint
\* is in the table the check accepts no log whose marked head is missing or
\* changed, and none with a hole between the oldest row left and that head, even
\* when the program has appended again since and the seqs were reused.
MarkedHeadKept ==
    LatestIsThere /\ verify_since_checkpoint(rows, checkpoints).ok =>
        \E i \in DOMAIN rows :
            /\ rows[i] = last_entry(attested)
            /\ \A j \in 1..i : rows[j].seq = rows[i].seq - (i - j)

\* The docstring of `_anchored`: without it the routine check "cannot see that
\* the entries it skipped were deleted".  With it, a log the check accepts has
\* every entry below the checkpoint, from the first one on.
SkippedEntriesKept ==
    LatestIsThere /\ verify_since_checkpoint(rows, checkpoints).ok =>
        \A i \in DOMAIN attested :
            \E j \in DOMAIN rows : rows[j].seq = attested[i].seq

\* Of a log the full walk refuses, the daily check accepts only one whose first
\* break is at or below the checkpoint: what came after it is sound.
OnlyOldDamageMissed ==
    verify_since_checkpoint(rows, checkpoints).ok /\ ~ verify(rows).ok =>
        /\ checkpoints # {}
        /\ verify(rows).first_bad_seq <= latest_checkpoint(checkpoints).seq
=============================================================================
