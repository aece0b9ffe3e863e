------------------------------ MODULE HashChain ------------------------------
(***************************************************************************)
(* The pure part of core/evidence_log.py: how an entry of the evidence log *)
(* is hashed and linked to the one before it, and how `verify`,            *)
(* `verify_since_checkpoint` and `_anchored` judge a table of entries.     *)
(*                                                                         *)
(* A table (rows of evidence_log) is the sequence of its rows in the order *)
(* of `seq`, the order every query of the code asks for.  A damaged table  *)
(* may have gaps in its `seq` numbers, so an index is not a seq.           *)
(*                                                                         *)
(* SHA-256 is taken to be collision free: a hash is identified with what   *)
(* it commits to.  The hash of an entry commits to the previous hash and   *)
(* to the entry's own content, so it is the sequence of the contents from  *)
(* GENESIS to the entry, and GENESIS is the empty sequence.                *)
(***************************************************************************)
EXTENDS Integers, Sequences, FiniteSets, FiniteSetsExt

CONSTANT Payload    \* what is hashed after prev_hash: occurred_at, event_type, payload

Hash    == Seq(Payload)
GENESIS == << >>

compute_entry_hash(prev_hash, payload) == Append(prev_hash, payload)

EvidenceEntry == [seq : Nat \ {0}, prev_hash : Hash, payload : Payload, entry_hash : Hash]
ChainCheckpoint == [seq : Nat \ {0}, entry_hash : Hash]

-----------------------------------------------------------------------------
(***************************************************************************)
(* Appending.                                                              *)
(***************************************************************************)

last_entry(rows) == rows[Len(rows)]

HeadHash(rows) == IF rows = << >> THEN GENESIS ELSE last_entry(rows).entry_hash

\* The INTEGER PRIMARY KEY SQLite hands out: one above the largest in the table.
CountedSeq(rows)   == Len(rows) + 1
ZeroBasedSeq(rows) == IF rows = << >> THEN 0 ELSE last_entry(rows).seq + 1
NextSeq(rows)      == IF rows = << >> THEN 1 ELSE last_entry(rows).seq + 1

UnchainedEntry(rows, prev_hash, payload) ==
    [seq |-> NextSeq(rows), prev_hash |-> prev_hash, payload |-> payload,
     entry_hash |-> compute_entry_hash(GENESIS, payload)]
NewEntry(rows, prev_hash, payload) ==
    [seq |-> NextSeq(rows), prev_hash |-> prev_hash, payload |-> payload,
     entry_hash |-> compute_entry_hash(prev_hash, payload)]

\* The UNIQUE constraints on prev_hash and entry_hash.
Unique(rows, entry) ==
    \A i \in DOMAIN rows : /\ rows[i].prev_hash # entry.prev_hash
                           /\ rows[i].entry_hash # entry.entry_hash

-----------------------------------------------------------------------------
(***************************************************************************)
(* The reference: what a table the program alone has written looks like.   *)
(***************************************************************************)

\* The hash a table commits to up to its i-th row: all the contents so far.
ContentsTo(rows, i) == [j \in 1..i |-> rows[j].payload]

\* A table is one unforked chain: seqs without a gap from 1, each row linked
\* to the row before it, each hash committing to every content up to its row.
Linear(rows) ==
    \A i \in DOMAIN rows :
        /\ rows[i].seq = i
        /\ rows[i].prev_hash = IF i = 1 THEN GENESIS ELSE rows[i - 1].entry_hash
        /\ rows[i].entry_hash = ContentsTo(rows, i)

-----------------------------------------------------------------------------
(***************************************************************************)
(* Walking.  `_walk` stops at the first row that fails one of its three    *)
(* tests.  Every row before that one passed them, so what the loop expects *)
(* of a row is read off the row before it, and the first failing row is    *)
(* the least of the rows that fail against their predecessor.              *)
(***************************************************************************)

Walked(rows, from) == {i \in DOMAIN rows : rows[i].seq >= from}

Fails(rows, from, prev_hash, seq, i) ==
    LET first == i - 1 \notin Walked(rows, from)
    IN  \/ rows[i].seq # IF first THEN seq ELSE rows[i - 1].seq + 1
        \/ rows[i].prev_hash # IF first THEN prev_hash ELSE rows[i - 1].entry_hash
        \/ rows[i].entry_hash # compute_entry_hash(rows[i].prev_hash, rows[i].payload)

Broken(rows, from, prev_hash, seq) ==
    {i \in Walked(rows, from) : Fails(rows, from, prev_hash, seq, i)}

LastBreak(broken)  == Max(broken)
FirstBreak(broken) == Min(broken)

Valid(entries)           == [ok |-> TRUE,  entries |-> entries, first_bad_seq |-> 0]
BrokenAt(entries, seq)   == [ok |-> FALSE, entries |-> entries, first_bad_seq |-> seq]

_walk(rows, from, prev_hash, seq, count) ==
    LET broken == Broken(rows, from, prev_hash, seq)
        walked == Walked(rows, from)
    IN  IF broken = {}
        THEN Valid(count + Cardinality(walked))
        ELSE LET bad == FirstBreak(broken)
             IN  BrokenAt(count + Cardinality({i \in walked : i <= bad}), rows[bad].seq)

\* With no seq expected the walk takes the first row's own seq.
FirstSeq(rows) == IF rows = << >> THEN 0 ELSE rows[1].seq

verify(rows) == _walk(rows, 0, GENESIS, FirstSeq(rows), 0)

-----------------------------------------------------------------------------
(***************************************************************************)
(* Checkpoints: the rows of chain_checkpoints, a set.                      *)
(***************************************************************************)

\* Each checkpoint names an entry of the table by its seq and hash.
Anchored(cps, rows) ==
    \A c \in cps : c.seq \in DOMAIN rows /\ rows[c.seq].entry_hash = c.entry_hash

HasLatest(cps) == cps = {} \/ \E c \in cps : \A d \in cps : d.seq <= c.seq

latest_checkpoint(cps) == CHOOSE c \in cps : \A d \in cps : d.seq <= c.seq

_count_to(rows, seq)  == Cardinality({i \in DOMAIN rows : rows[i].seq <= seq})

\* The four reasons for which `_anchored` refuses a checkpoint.
AnchorLost(rows, c) ==
    ~ \E i \in DOMAIN rows : rows[i].seq = c.seq /\ rows[i].entry_hash = c.entry_hash
AnchorRewritten(rows, c) ==
    \E i \in DOMAIN rows :
        /\ rows[i].seq = c.seq
        /\ rows[i].entry_hash # compute_entry_hash(rows[i].prev_hash, rows[i].payload)
NothingGone(rows, c)  == FALSE
BelowGone(rows, c)    == _count_to(rows, c.seq) # c.seq - FirstSeq(rows) + 1
HeadCutBack(rows, c)  == rows = << >> \/ last_entry(rows).seq < c.seq

_anchored(rows, c) ==
    /\ ~ AnchorLost(rows, c)
    /\ ~ AnchorRewritten(rows, c)
    /\ ~ BelowGone(rows, c)
    /\ ~ HeadCutBack(rows, c)

AnchorOnly(rows, c) == Valid(Len(rows))
Resume(rows, c) ==
    _walk(rows, c.seq + 1, c.entry_hash, c.seq + 1, _count_to(rows, c.seq))

verify_since_checkpoint(rows, cps) ==
    IF cps = {}
    THEN verify(rows)
    ELSE LET c == latest_checkpoint(cps)
         IN  IF _anchored(rows, c) THEN Resume(rows, c)
                                   ELSE BrokenAt(_count_to(rows, c.seq), c.seq)

\* One row per advance of the head, none while the head stands still.
HeadIsNewer(rows, cps) ==
    /\ rows # << >>
    /\ \A c \in cps : c.seq < last_entry(rows).seq

CheckpointAhead(rows) ==
    [seq |-> NextSeq(rows), entry_hash |-> last_entry(rows).entry_hash]
CheckpointOf(rows) ==
    [seq |-> last_entry(rows).seq, entry_hash |-> last_entry(rows).entry_hash]

write_checkpoint(rows, cps) ==
    IF HeadIsNewer(rows, cps) THEN cps \cup {CheckpointOf(rows)} ELSE cps

-----------------------------------------------------------------------------
(***************************************************************************)
(* Trusted timestamps.  What the authority signs is the SHA-256 of         *)
(* "seq:entry_hash"; a digest is identified with what it commits to.       *)
(***************************************************************************)

SeqMaterial(seq, entry_hash) == << seq, GENESIS >>
Material(seq, entry_hash)    == << seq, entry_hash >>

StampOfHead(rows) ==
    [stamped_seq |-> last_entry(rows).seq,
     digest      |-> Material(last_entry(rows).seq, last_entry(rows).entry_hash)]

\* A token no longer matches the entry it names, or the entry is gone.
BadStamp(rows, stamp) ==
    \A i \in DOMAIN rows :
        rows[i].seq = stamp.stamped_seq =>
            Material(rows[i].seq, rows[i].entry_hash) # stamp.digest

_check_timestamps(rows, stamps) == {s \in stamps : BadStamp(rows, s)}
=============================================================================
