-------------------------- MODULE EvidenceLogProofs --------------------------
(***************************************************************************)
(* The safety of the evidence log for every number of writers and readers, *)
(* every set of payloads and every length.                                 *)
(*                                                                         *)
(* First the verification code alone: on a linear table `verify` and       *)
(* `verify_since_checkpoint` find nothing and count everything.  Then the  *)
(* protocol: DatabaseInv is inductive, one lemma per action.  The          *)
(* properties follow from it, and the last theorem maps each step to a     *)
(* step of AppendOnlyLog or to a stutter.                                  *)
(***************************************************************************)
EXTENDS EvidenceLog, FiniteSetTheorems, SequenceTheorems, TLAPS

\* The fields of an entry have their types.
LEMMA EntryFields ==
    ASSUME NEW e \in EvidenceEntry
    PROVE  /\ e.seq \in Nat \ {0}
           /\ e.prev_hash \in Hash
           /\ e.payload \in Payload
           /\ e.entry_hash \in Hash
BY DEF EvidenceEntry

\* The head of a table that is not empty is an entry.
LEMMA LastEntryType ==
    ASSUME NEW rows \in Seq(EvidenceEntry), rows # << >>
    PROVE  Len(rows) \in Nat \ {0} /\ last_entry(rows) \in EvidenceEntry
<1>1. Len(rows) \in Nat \ {0}
  BY EmptySeq, LenProperties
<1>2. rows[Len(rows)] \in EvidenceEntry
  BY <1>1, ElementOfSeq
<1>3. QED
  BY <1>1, <1>2 DEF last_entry

\* What `append` reads off a table is a hash.
LEMMA HeadHashType ==
    ASSUME NEW rows \in Seq(EvidenceEntry)
    PROVE  /\ HeadHash(rows) \in Hash
           /\ NextSeq(rows) \in Nat \ {0}
<1>1. CASE rows = << >>
  BY <1>1 DEF HeadHash, NextSeq, GENESIS, Hash
<1>2. CASE rows # << >>
  BY <1>2, LastEntryType, EntryFields DEF HeadHash, NextSeq
<1>3. QED
  BY <1>1, <1>2

\* `append` builds an entry.
LEMMA NewEntryType ==
    ASSUME NEW rows \in Seq(EvidenceEntry), NEW prev \in Hash, NEW p \in Payload
    PROVE  NewEntry(rows, prev, p) \in EvidenceEntry
<1>1. Append(prev, p) \in Hash
  BY DEF Hash
<1>2. QED
  BY <1>1, HeadHashType DEF NewEntry, compute_entry_hash, EvidenceEntry

\* An entry that `append` links to the head of a linear table keeps it linear.
LEMMA LinearAppend ==
    ASSUME NEW rows \in Seq(EvidenceEntry), Linear(rows), NEW p \in Payload
    PROVE  Linear(Append(rows, NewEntry(rows, HeadHash(rows), p)))
<1> DEFINE e == NewEntry(rows, HeadHash(rows), p)
           n == Len(rows)
           new == Append(rows, e)
<1>0. /\ n \in Nat
      /\ e \in EvidenceEntry
      /\ new \in Seq(EvidenceEntry)
      /\ Len(new) = n + 1
      /\ \A i \in 1..n : new[i] = rows[i]
      /\ new[n + 1] = e
      /\ DOMAIN new = 1..(n + 1)
      /\ DOMAIN rows = 1..n
  BY NewEntryType, HeadHashType, AppendProperties, LenProperties
<1> HIDE DEF e, n, new
<1>1. ASSUME NEW i \in 1..n
      PROVE  /\ new[i].seq = i
             /\ new[i].prev_hash = IF i = 1 THEN GENESIS ELSE new[i - 1].entry_hash
             /\ new[i].entry_hash = ContentsTo(new, i)
  <2>1. ContentsTo(new, i) = ContentsTo(rows, i)
    BY <1>0 DEF ContentsTo
  <2>2. i # 1 => new[i - 1] = rows[i - 1]
    BY <1>0
  <2>3. QED
    BY <1>0, <2>1, <2>2 DEF Linear
<1>2. HeadHash(rows) = ContentsTo(rows, n)
  <2>1. CASE n = 0
    <3>1. rows = << >>
      BY <2>1, EmptySeq DEF n
    <3>2. ContentsTo(rows, n) = << >>
      BY <2>1 DEF ContentsTo
    <3>3. QED
      BY <3>1, <3>2 DEF HeadHash, GENESIS
  <2>2. CASE n # 0
    <3>1. rows # << >>
      BY <2>2, EmptySeq DEF n
    <3>2. QED
      BY <1>0, <2>2, <3>1 DEF HeadHash, last_entry, Linear, n
  <2>3. QED
    BY <2>1, <2>2
<1>3. e.seq = n + 1
  <2>1. CASE n = 0
    BY <2>1, EmptySeq DEF e, NewEntry, NextSeq, n
  <2>2. CASE n # 0
    <3>1. rows # << >>
      BY <2>2, EmptySeq DEF n
    <3>2. rows[n].seq = n
      BY <1>0, <2>2 DEF Linear
    <3>3. QED
      BY <3>1, <3>2 DEF e, NewEntry, NextSeq, last_entry, n
  <2>3. QED
    BY <2>1, <2>2
<1>4. e.prev_hash = IF n + 1 = 1 THEN GENESIS ELSE new[n].entry_hash
  <2>1. CASE n = 0
    BY <2>1, EmptySeq DEF e, NewEntry, HeadHash, n
  <2>2. CASE n # 0
    BY <1>0, <2>2, EmptySeq DEF e, NewEntry, HeadHash, last_entry, n
  <2>3. QED
    BY <2>1, <2>2
<1>5. e.entry_hash = ContentsTo(new, n + 1)
  <2>1. e.entry_hash = Append(ContentsTo(rows, n), p)
    BY <1>2 DEF e, NewEntry, compute_entry_hash
  <2>2. e.payload = p
    BY DEF e, NewEntry
  <2>3. \A j \in 1..n : rows[j].payload \in Payload
    BY <1>0, ElementOfSeq, EntryFields
  <2>4. ContentsTo(rows, n) \in Seq(Payload) /\ Len(ContentsTo(rows, n)) = n
    BY <1>0, <2>3, IsASeq, LenProperties DEF ContentsTo
  <2>5. ContentsTo(new, n + 1) = [j \in 1..(n + 1) |-> new[j].payload]
    BY DEF ContentsTo
  <2>6. Append(ContentsTo(rows, n), p)
          = [j \in 1..(n + 1) |-> IF j = n + 1 THEN p ELSE rows[j].payload]
    BY <2>4, <1>0 DEF ContentsTo
  <2>7. QED
    BY <1>0, <2>1, <2>2, <2>5, <2>6
<1>6. Linear(new)
  <2> SUFFICES ASSUME NEW i \in 1..(n + 1)
               PROVE  /\ new[i].seq = i
                      /\ new[i].prev_hash = IF i = 1 THEN GENESIS ELSE new[i - 1].entry_hash
                      /\ new[i].entry_hash = ContentsTo(new, i)
    BY <1>0 DEF Linear
  <2>1. CASE i \in 1..n
    BY <1>1, <2>1
  <2>2. CASE i = n + 1
    BY <1>0, <1>3, <1>4, <1>5, <2>2
  <2>3. QED
    BY <1>0, <2>1, <2>2
<1>7. QED
  BY <1>6 DEF new, e

-----------------------------------------------------------------------------
(***************************************************************************)
(* What the two verifications answer on a linear table.                    *)
(***************************************************************************)

\* In a linear table an entry's hash is recomputed from its own row.
LEMMA RecomputedHash ==
    ASSUME NEW rows \in Seq(EvidenceEntry), Linear(rows), NEW i \in 1..Len(rows)
    PROVE  rows[i].entry_hash = compute_entry_hash(rows[i].prev_hash, rows[i].payload)
<1> DEFINE n == Len(rows)
<1>0. n \in Nat /\ DOMAIN rows = 1..n
  BY LenProperties
<1>1. rows[i].prev_hash = ContentsTo(rows, i - 1)
  <2>1. CASE i = 1
    <3>1. ContentsTo(rows, 0) = << >>
      BY DEF ContentsTo
    <3>2. QED
      BY <1>0, <2>1, <3>1 DEF Linear, GENESIS
  <2>2. CASE i # 1
    BY <1>0, <2>2 DEF Linear
  <2>3. QED
    BY <2>1, <2>2
<1>2. \A j \in 1..i : rows[j].payload \in Payload
  BY <1>0, ElementOfSeq, EntryFields
<1>3. /\ ContentsTo(rows, i - 1) \in Seq(Payload)
      /\ Len(ContentsTo(rows, i - 1)) = i - 1
  <2>1. i - 1 \in Nat /\ \A j \in 1..(i - 1) : rows[j].payload \in Payload
    BY <1>0, <1>2
  <2>2. QED
    BY <2>1, IsASeq, LenProperties DEF ContentsTo
<1>4. Append(ContentsTo(rows, i - 1), rows[i].payload) = ContentsTo(rows, i)
  BY <1>0, <1>3 DEF ContentsTo
<1>5. rows[i].entry_hash = ContentsTo(rows, i)
  BY <1>0 DEF Linear
<1>6. QED
  BY <1>1, <1>4, <1>5 DEF compute_entry_hash

\* A walk over the rest of a linear table, started with what its row k left to
\* be expected, finds nothing and counts the rows above k.
LEMMA WalkLinear ==
    ASSUME NEW rows \in Seq(EvidenceEntry), Linear(rows),
           NEW k \in 0..Len(rows), NEW from \in Nat,
           Walked(rows, from) = (k + 1)..Len(rows),
           NEW prev, k = 0 => prev = GENESIS, k # 0 => prev = rows[k].entry_hash,
           NEW seq, k < Len(rows) => seq = k + 1,
           NEW count \in Nat
    PROVE  _walk(rows, from, prev, seq, count) = Valid(count + (Len(rows) - k))
<1> DEFINE n == Len(rows)
<1>0. n \in Nat /\ DOMAIN rows = 1..n /\ k \in Nat /\ k <= n
  BY LenProperties
<1>1. ASSUME NEW i \in (k + 1)..n
      PROVE  ~ Fails(rows, from, prev, seq, i)
  <2>1. i \in 1..n
    BY <1>0
  <2>2. i - 1 \notin Walked(rows, from) <=> i = k + 1
    BY <1>0
  <2>3. rows[i].entry_hash = compute_entry_hash(rows[i].prev_hash, rows[i].payload)
    BY <2>1, RecomputedHash
  <2>4. CASE i = k + 1
    BY <1>0, <2>1, <2>2, <2>3, <2>4 DEF Fails, Linear
  <2>5. CASE i # k + 1
    BY <1>0, <2>1, <2>2, <2>3, <2>5 DEF Fails, Linear
  <2>6. QED
    BY <2>4, <2>5
<1>2. Broken(rows, from, prev, seq) = {}
  BY <1>1 DEF Broken
<1>3. Cardinality(Walked(rows, from)) = n - k
  <2>1. k + 1 \in Int /\ n \in Int
    BY <1>0
  <2>2. Cardinality((k + 1)..n) = IF k + 1 > n THEN 0 ELSE n - (k + 1) + 1
    BY <2>1, FS_Interval
  <2>3. QED
    BY <1>0, <2>2
<1>4. QED
  BY <1>2, <1>3 DEF _walk

\* `verify` accepts every linear table and counts all its entries.
THEOREM VerifyLinear ==
    ASSUME NEW rows \in Seq(EvidenceEntry), Linear(rows)
    PROVE  verify(rows) = Valid(Len(rows))
<1> DEFINE n == Len(rows)
<1>0. n \in Nat /\ DOMAIN rows = 1..n
  BY LenProperties
<1>1. Walked(rows, 0) = 1..n
  BY <1>0 DEF Walked, Linear
<1>2. 0 < n => FirstSeq(rows) = 1
  <2>1. 0 < n => rows # << >>
    BY <1>0, EmptySeq
  <2>2. QED
    BY <1>0, <2>1 DEF FirstSeq, Linear
<1>3. _walk(rows, 0, GENESIS, FirstSeq(rows), 0) = Valid(0 + (n - 0))
  BY <1>0, <1>1, <1>2, WalkLinear
<1>4. QED
  BY <1>0, <1>3 DEF verify

\* The newest checkpoint of a non-empty set is one of them and the newest.
LEMMA LatestCheckpoint ==
    ASSUME NEW cps, cps # {}, HasLatest(cps)
    PROVE  /\ latest_checkpoint(cps) \in cps
           /\ \A d \in cps : d.seq <= latest_checkpoint(cps).seq
BY DEF HasLatest, latest_checkpoint

\* `verify_since_checkpoint` accepts every linear table whose checkpoints name
\* entries of it, and reports the number of all its entries.
THEOREM RoutineVerifyLinear ==
    ASSUME NEW rows \in Seq(EvidenceEntry), Linear(rows),
           NEW cps \in SUBSET ChainCheckpoint, Anchored(cps, rows), HasLatest(cps)
    PROVE  verify_since_checkpoint(rows, cps) = Valid(Len(rows))
<1> DEFINE n == Len(rows)
           c == latest_checkpoint(cps)
<1>0. n \in Nat /\ DOMAIN rows = 1..n
  BY LenProperties
<1>1. CASE cps = {}
  BY <1>1, VerifyLinear DEF verify_since_checkpoint
<1>2. CASE cps # {}
  <2>1. c \in cps
    BY <1>2, LatestCheckpoint
  <2> HIDE DEF c
  <2>2. c.seq \in 1..n /\ rows[c.seq].entry_hash = c.entry_hash
    BY <1>0, <2>1 DEF Anchored
  <2>3. \A i \in 1..n : rows[i].seq = i
    BY <1>0 DEF Linear
  <2>4. rows # << >> /\ FirstSeq(rows) = 1 /\ last_entry(rows).seq = n
    <3>1. rows # << >>
      BY <1>0, <2>2, EmptySeq
    <3>2. QED
      BY <1>0, <2>2, <2>3, <3>1 DEF FirstSeq, last_entry
  <2>5. _count_to(rows, c.seq) = c.seq
    <3>1. {i \in DOMAIN rows : rows[i].seq <= c.seq} = 1..c.seq
      BY <1>0, <2>2, <2>3
    <3>2. 1 \in Int /\ c.seq \in Int /\ c.seq >= 1
      BY <2>2
    <3>3. Cardinality(1..c.seq) = c.seq
      BY <3>2, FS_Interval
    <3>4. QED
      BY <3>1, <3>3 DEF _count_to
  <2>6. _anchored(rows, c)
    <3>1. ~ AnchorLost(rows, c)
      BY <1>0, <2>2, <2>3 DEF AnchorLost
    <3>2. ~ AnchorRewritten(rows, c)
      BY <1>0, RecomputedHash DEF AnchorRewritten
    <3>3. ~ BelowGone(rows, c)
      BY <2>2, <2>4, <2>5 DEF BelowGone
    <3>4. ~ HeadCutBack(rows, c)
      BY <1>0, <2>2, <2>4 DEF HeadCutBack
    <3>5. QED
      BY <3>1, <3>2, <3>3, <3>4 DEF _anchored
  <2>7. Walked(rows, c.seq + 1) = (c.seq + 1)..n
    BY <1>0, <2>2, <2>3 DEF Walked
  <2>8. Resume(rows, c) = Valid(c.seq + (n - c.seq))
    <3>1. c.seq \in 0..n /\ c.seq + 1 \in Nat /\ c.seq \in Nat /\ c.seq # 0
      BY <1>0, <2>2
    <3>2. c.seq # 0 => c.entry_hash = rows[c.seq].entry_hash
      BY <2>2
    <3>3. _walk(rows, c.seq + 1, c.entry_hash, c.seq + 1, c.seq) = Valid(c.seq + (n - c.seq))
      BY <2>7, <3>1, <3>2, WalkLinear
    <3>4. QED
      BY <2>5, <3>3 DEF Resume
  <2>9. c.seq + (n - c.seq) = n
    BY <1>0, <2>2
  <2>10. verify_since_checkpoint(rows, cps) = Resume(rows, c)
    BY <1>2, <2>6 DEF verify_since_checkpoint, c
  <2>11. QED
    BY <2>8, <2>9, <2>10
<1>3. QED
  BY <1>1, <1>2

\* Marking the head of a sound table leaves it sound.
LEMMA MarkKeepsSound ==
    ASSUME NEW rows \in Seq(EvidenceEntry), NEW cps \in SUBSET ChainCheckpoint,
           Sound(rows, cps)
    PROVE  /\ write_checkpoint(rows, cps) \in SUBSET ChainCheckpoint
           /\ Sound(rows, write_checkpoint(rows, cps))
           /\ cps \subseteq write_checkpoint(rows, cps)
<1>1. CASE HeadIsNewer(rows, cps)
  <2> DEFINE c == CheckpointOf(rows)
  <2>1. write_checkpoint(rows, cps) = cps \cup {c}
    BY <1>1 DEF write_checkpoint
  <2>2. rows # << >> /\ \A d \in cps : d.seq < last_entry(rows).seq
    BY <1>1 DEF HeadIsNewer
  <2>3. Len(rows) \in Nat \ {0} /\ last_entry(rows) \in EvidenceEntry
    BY <2>2, LastEntryType
  <2>4. c.seq = last_entry(rows).seq /\ c.entry_hash = last_entry(rows).entry_hash
    BY DEF CheckpointOf
  <2>5. c \in ChainCheckpoint
    BY <2>3, EntryFields DEF CheckpointOf, ChainCheckpoint
  <2>6. c.seq \in DOMAIN rows /\ rows[c.seq].entry_hash = c.entry_hash
    <3>1. DOMAIN rows = 1..Len(rows) /\ last_entry(rows).seq = Len(rows)
      BY <2>3, LenProperties DEF Sound, Linear, last_entry
    <3>2. QED
      BY <2>3, <2>4, <3>1 DEF last_entry
  <2> HIDE DEF c
  <2>7. \A d \in cps \cup {c} : d.seq <= c.seq
    <3>1. c.seq \in Nat /\ \A d \in cps : d.seq \in Nat
      BY <2>5 DEF ChainCheckpoint
    <3>2. QED
      BY <2>2, <2>4, <3>1
  <2>8. QED
    BY <2>1, <2>5, <2>6, <2>7 DEF Sound, Anchored, HasLatest
<1>2. CASE ~ HeadIsNewer(rows, cps)
  BY <1>2 DEF write_checkpoint
<1>3. QED
  BY <1>1, <1>2

\* Both verifications accept a sound table.
LEMMA SoundVerifies ==
    ASSUME NEW rows \in Seq(EvidenceEntry), NEW cps \in SUBSET ChainCheckpoint,
           Sound(rows, cps)
    PROVE  /\ verify(rows) = Valid(Len(rows))
           /\ verify_since_checkpoint(rows, cps) = Valid(Len(rows))
           /\ Valid(Len(rows)) \in VerifyResult
           /\ Valid(Len(rows)).ok
           /\ Valid(Len(rows)).entries = Len(rows)
<1>1. Len(rows) \in Nat
  BY LenProperties
<1>2. QED
  BY <1>1, VerifyLinear, RoutineVerifyLinear DEF Sound, Valid, VerifyResult

-----------------------------------------------------------------------------
(***************************************************************************)
(* The invariant: one lemma per kind of step.                              *)
(***************************************************************************)

\* The empty database satisfies the invariant.
LEMMA InitInv == Init => DatabaseInv
<1> SUFFICES ASSUME Init PROVE DatabaseInv
  OBVIOUS
<1>1. << >> \in Seq(EvidenceEntry) /\ GENESIS \in Hash
  BY DEF GENESIS, Hash
<1>2. Sound(<< >>, {})
  BY DEF Sound, Linear, Anchored, HasLatest
<1>3. Valid(0) \in VerifyResult /\ Valid(0).ok
  BY DEF Valid, VerifyResult
<1>4. TypeOK
  BY <1>1, <1>3 DEF Init, TypeOK, Phases, InTxn
<1>5. \A w \in Writers : WriterInv(w)
  BY NoWriterAssumption DEF Init, WriterInv, InTxn
<1>6. \A r \in Readers : ReaderInv(r)
  BY <1>2, <1>3 DEF Init, ReaderInv
<1>7. Sound(log, checkpoints)
  BY <1>2 DEF Init
<1>8. QED
  BY <1>4, <1>5, <1>6, <1>7 DEF DatabaseInv

\* What the readers hold does not depend on what a writer does.
LEMMA ReadersUndisturbed ==
    ASSUME DatabaseInv, UNCHANGED reading
    PROVE  (\A r \in Readers : ReaderInv(r))'
BY DEF DatabaseInv, ReaderInv, reading

\* Asking for the lock, and giving up waiting for it.
LEMMA WaitStep ==
    ASSUME DatabaseInv, NEW w \in Writers, RequestLock(w) \/ BusyTimeout(w)
    PROVE  DatabaseInv'
<1>1. UNCHANGED << db, lock, txLog, txCheckpoints, head, reading >>
  BY DEF RequestLock, BusyTimeout
<1>2. /\ phase[w] \in {"idle", "waiting"}
      /\ phase' \in {[phase EXCEPT ![w] = "waiting"], [phase EXCEPT ![w] = "idle"]}
  BY DEF RequestLock, BusyTimeout
<1>3. TypeOK'
  BY <1>1, <1>2 DEF DatabaseInv, TypeOK, Phases, db, reading
<1>4. Sound(log, checkpoints)'
  BY <1>1 DEF DatabaseInv, db
<1>5. ASSUME NEW v \in Writers PROVE WriterInv(v)'
  BY <1>1, <1>2 DEF DatabaseInv, TypeOK, WriterInv, InTxn, db
<1>6. QED
  BY <1>1, <1>3, <1>4, <1>5, ReadersUndisturbed DEF DatabaseInv

\* The transaction opens on the committed tables.
LEMMA BeginStep ==
    ASSUME DatabaseInv, NEW w \in Writers, BeginImmediate(w)
    PROVE  DatabaseInv'
<1>1. UNCHANGED << db, head, reading >>
  BY DEF BeginImmediate
<1>2. TypeOK'
  BY <1>1 DEF DatabaseInv, TypeOK, Phases, InTxn, BeginImmediate, db, reading
<1>3. Sound(log, checkpoints)'
  BY <1>1 DEF DatabaseInv, db
<1>4. ASSUME NEW v \in Writers PROVE WriterInv(v)'
  <2>1. CASE v = w
    <3>1. /\ phase'[v] = "open" /\ lock' = v
          /\ txLog'[v] = log' /\ txCheckpoints'[v] = checkpoints'
      BY <1>1, <2>1 DEF BeginImmediate, DatabaseInv, TypeOK, db
    <3>2. Extends(log', log')
      BY <1>2, LenProperties DEF Extends, TypeOK
    <3>3. QED
      BY <1>3, <3>1, <3>2 DEF WriterInv, InTxn
  <2>2. CASE v # w
    <3>1. /\ phase'[v] = phase[v] /\ txLog'[v] = txLog[v]
          /\ txCheckpoints'[v] = txCheckpoints[v] /\ head'[v] = head[v]
      BY <1>1, <2>2 DEF BeginImmediate, DatabaseInv, TypeOK
    <3>2. lock # v /\ lock' # v
      BY <2>2, NoWriterAssumption DEF BeginImmediate, LockIsFree
    <3>3. QED
      BY <1>1, <3>1, <3>2 DEF DatabaseInv, WriterInv, db, InTxn
  <2>3. QED
    BY <2>1, <2>2
<1>5. QED
  BY <1>1, <1>2, <1>3, <1>4, ReadersUndisturbed DEF DatabaseInv

\* Leaving it, with whatever was committed given as sound by the caller.
LEMMA LeaveStep ==
    ASSUME DatabaseInv, NEW w \in Writers, phase[w] \in InTxn, LeaveTxn(w),
           UNCHANGED reading, TypeOK', Sound(log, checkpoints)'
    PROVE  DatabaseInv'
<1>1. lock = w
  BY DEF DatabaseInv, WriterInv
<1>2. ASSUME NEW v \in Writers PROVE WriterInv(v)'
  <2>1. phase'[v] \notin InTxn
    BY <1>1 DEF DatabaseInv, TypeOK, WriterInv, LeaveTxn, InTxn
  <2>2. lock' # v
    BY NoWriterAssumption DEF LeaveTxn
  <2>3. QED
    BY <2>1, <2>2 DEF WriterInv, InTxn
<1>3. QED
  BY <1>2, ReadersUndisturbed DEF DatabaseInv

\* A commit publishes a sound table that extends the committed one.
LEMMA CommitStep ==
    ASSUME DatabaseInv, NEW w \in Writers, Commit(w)
    PROVE  DatabaseInv'
<1>1. phase[w] \in InTxn
  BY DEF Commit, InTxn
<1>2. Sound(log, checkpoints)'
  BY <1>1 DEF DatabaseInv, WriterInv, Commit
<1>3. << >> \in Seq(EvidenceEntry) /\ GENESIS \in Hash /\ {} \in SUBSET ChainCheckpoint
  BY DEF GENESIS, Hash
<1>4. TypeOK'
  BY <1>3 DEF DatabaseInv, TypeOK, Phases, Commit, LeaveTxn, reading
<1>5. LeaveTxn(w) /\ UNCHANGED reading
  BY DEF Commit
<1>6. QED
  BY <1>1, <1>2, <1>4, <1>5, LeaveStep

\* A rollback or a crash publishes nothing.
LEMMA AbortStep ==
    ASSUME DatabaseInv, NEW w \in Writers, Abort(w)
    PROVE  DatabaseInv'
<1>1. << >> \in Seq(EvidenceEntry) /\ GENESIS \in Hash /\ {} \in SUBSET ChainCheckpoint
  BY DEF GENESIS, Hash
<1>2. TypeOK'
  BY <1>1 DEF DatabaseInv, TypeOK, Phases, Abort, LeaveTxn, db, reading
<1>3. Sound(log, checkpoints)'
  BY DEF DatabaseInv, Abort, db
<1>4. phase[w] \in InTxn /\ LeaveTxn(w) /\ UNCHANGED reading
  BY DEF Abort
<1>5. QED
  BY <1>2, <1>3, <1>4, LeaveStep

\* A step inside a transaction changes no other writer's view.
LEMMA OthersUndisturbed ==
    ASSUME DatabaseInv, NEW w \in Writers, NEW v \in Writers, v # w,
           UNCHANGED << db, lock >>,
           /\ phase'[v] = phase[v] /\ txLog'[v] = txLog[v]
           /\ txCheckpoints'[v] = txCheckpoints[v] /\ head'[v] = head[v]
    PROVE  WriterInv(v)'
BY DEF DatabaseInv, WriterInv, db

\* The head is read off the transaction's own view.
LEMMA ReadHeadStep ==
    ASSUME DatabaseInv, NEW w \in Writers, ReadHead(w)
    PROVE  DatabaseInv'
<1>1. UNCHANGED << db, lock, txLog, txCheckpoints, reading >>
  BY DEF ReadHead
<1>2. TypeOK'
  <2>1. txLog[w] \in Seq(EvidenceEntry)
    BY DEF DatabaseInv, TypeOK
  <2>2. HeadHash(txLog[w]) \in Hash
    BY <2>1, HeadHashType
  <2>3. QED
    BY <1>1, <2>2 DEF DatabaseInv, TypeOK, Phases, InTxn, ReadHead, OwnView, db, reading
<1>3. Sound(log, checkpoints)'
  BY <1>1 DEF DatabaseInv, db
<1>4. ASSUME NEW v \in Writers PROVE WriterInv(v)'
  <2>1. CASE v = w
    <3>1. /\ phase[w] = "open" /\ phase'[w] = "append"
          /\ head'[w] = HeadHash(txLog[w])
      BY DEF ReadHead, OwnView, DatabaseInv, TypeOK
    <3>2. QED
      BY <1>1, <2>1, <3>1 DEF DatabaseInv, WriterInv, InTxn, db
  <2>2. CASE v # w
    BY <1>1, <2>2, OthersUndisturbed DEF ReadHead, DatabaseInv, TypeOK
  <2>3. QED
    BY <2>1, <2>2
<1>5. QED
  BY <1>1, <1>2, <1>3, <1>4, ReadersUndisturbed DEF DatabaseInv

\* An entry added at the end of a table disturbs nothing a checkpoint names.
LEMMA AppendKeepsAnchors ==
    ASSUME NEW rows \in Seq(EvidenceEntry), NEW e \in EvidenceEntry,
           NEW cps, Anchored(cps, rows)
    PROVE  /\ Anchored(cps, Append(rows, e))
           /\ \A old \in Seq(EvidenceEntry) :
                  Extends(rows, old) => Extends(Append(rows, e), old)
<1>1. /\ Append(rows, e) \in Seq(EvidenceEntry)
      /\ Len(Append(rows, e)) = Len(rows) + 1
      /\ \A i \in 1..Len(rows) : Append(rows, e)[i] = rows[i]
      /\ Len(rows) \in Nat
      /\ DOMAIN rows = 1..Len(rows)
      /\ DOMAIN Append(rows, e) = 1..(Len(rows) + 1)
  BY AppendProperties, LenProperties
<1>2. Anchored(cps, Append(rows, e))
  BY <1>1 DEF Anchored
<1>3. ASSUME NEW old \in Seq(EvidenceEntry), Extends(rows, old)
      PROVE  Extends(Append(rows, e), old)
  <2>1. Len(old) \in Nat /\ DOMAIN old = 1..Len(old)
    BY LenProperties
  <2>2. QED
    BY <1>1, <1>3, <2>1 DEF Extends
<1>4. QED
  BY <1>2, <1>3

\* The inserted entry continues the chain of the transaction's view: the head
\* it was linked to is still the head, for nobody else could append.
LEMMA InsertStep ==
    ASSUME DatabaseInv, NEW w \in Writers, Insert(w)
    PROVE  DatabaseInv'
<1>1. UNCHANGED << db, lock, txCheckpoints, head, reading >> /\ phase[w] = "append"
  BY DEF Insert
<1>2. PICK p \in Payload :
         txLog' = [txLog EXCEPT ![w] = Append(@, NewEntry(txLog[w], head[w], p))]
  BY DEF Insert
<1> DEFINE e == NewEntry(txLog[w], head[w], p)
<1>3. txLog[w] \in Seq(EvidenceEntry) /\ head[w] \in Hash /\ log \in Seq(EvidenceEntry)
  BY DEF DatabaseInv, TypeOK
<1>4. head[w] = HeadHash(txLog[w])
  BY <1>1 DEF DatabaseInv, WriterInv
<1>5. e \in EvidenceEntry /\ Append(txLog[w], e) \in Seq(EvidenceEntry)
  BY <1>3, NewEntryType, AppendProperties
<1>6. Linear(txLog[w]) /\ Anchored(txCheckpoints[w], txLog[w]) /\ Extends(txLog[w], log)
  BY <1>1 DEF DatabaseInv, WriterInv, InTxn, Sound
<1>7. Linear(Append(txLog[w], e))
  BY <1>3, <1>4, <1>6, LinearAppend
<1> HIDE DEF e
<1>8. Anchored(txCheckpoints[w], Append(txLog[w], e)) /\ Extends(Append(txLog[w], e), log)
  BY <1>3, <1>5, <1>6, AppendKeepsAnchors
<1>9. txLog' = [txLog EXCEPT ![w] = Append(txLog[w], e)] /\ phase' = [phase EXCEPT ![w] = "open"]
  BY <1>2 DEF Insert, e
<1>10. TypeOK'
  BY <1>1, <1>5, <1>9 DEF DatabaseInv, TypeOK, Phases, InTxn, db, reading
<1>11. Sound(log, checkpoints)'
  BY <1>1 DEF DatabaseInv, db
<1>12. ASSUME NEW v \in Writers PROVE WriterInv(v)'
  <2>1. CASE v = w
    <3>1. phase'[w] = "open" /\ txLog'[w] = Append(txLog[w], e)
      BY <1>9 DEF DatabaseInv, TypeOK
    <3>2. QED
      BY <1>1, <1>7, <1>8, <2>1, <3>1 DEF DatabaseInv, WriterInv, InTxn, Sound, db
  <2>2. CASE v # w
    BY <1>1, <1>9, <2>2, OthersUndisturbed DEF DatabaseInv, TypeOK
  <2>3. QED
    BY <2>1, <2>2
<1>13. QED
  BY <1>1, <1>10, <1>11, <1>12, ReadersUndisturbed DEF DatabaseInv

\* The digest's check succeeds, so it marks the head of a sound table.
LEMMA VerifyAndMarkStep ==
    ASSUME DatabaseInv, NEW w \in Writers, VerifyAndMark(w)
    PROVE  DatabaseInv'
<1>1. /\ UNCHANGED << db, lock, txLog, head, reading >>
      /\ phase[w] = "open" /\ txLog[w] = log
      /\ phase' = [phase EXCEPT ![w] = "verified"]
  BY DEF VerifyAndMark
<1>2. /\ txCheckpoints[w] = checkpoints
      /\ log \in Seq(EvidenceEntry) /\ checkpoints \in SUBSET ChainCheckpoint
      /\ Sound(log, checkpoints)
  BY <1>1 DEF DatabaseInv, WriterInv, TypeOK
<1>3. verify_since_checkpoint(log, checkpoints).ok
  BY <1>2, SoundVerifies
<1>4. txCheckpoints' = [txCheckpoints EXCEPT ![w] = write_checkpoint(log, checkpoints)]
  BY <1>1, <1>2, <1>3 DEF VerifyAndMark
<1>5. /\ write_checkpoint(log, checkpoints) \in SUBSET ChainCheckpoint
      /\ Sound(log, write_checkpoint(log, checkpoints))
  BY <1>2, MarkKeepsSound
<1>6. TypeOK'
  BY <1>1, <1>4, <1>5 DEF DatabaseInv, TypeOK, Phases, InTxn, db, reading
<1>7. Sound(log, checkpoints)'
  BY <1>1, <1>2 DEF db
<1>8. ASSUME NEW v \in Writers PROVE WriterInv(v)'
  <2>1. CASE v = w
    <3>1. phase'[w] = "verified" /\ txCheckpoints'[w] = write_checkpoint(log, checkpoints)
      BY <1>1, <1>4 DEF DatabaseInv, TypeOK
    <3>2. QED
      BY <1>1, <1>2, <1>5, <2>1, <3>1 DEF DatabaseInv, WriterInv, InTxn, db
  <2>2. CASE v # w
    BY <1>1, <1>4, <2>2, OthersUndisturbed DEF DatabaseInv, TypeOK
  <2>3. QED
    BY <2>1, <2>2
<1>9. QED
  BY <1>1, <1>6, <1>7, <1>8, ReadersUndisturbed DEF DatabaseInv

\* A reader's step: its snapshot is sound when taken and does not change.
LEMMA ReaderStepInv ==
    ASSUME DatabaseInv, NEW r \in Readers, ReaderStep(r)
    PROVE  DatabaseInv'
<1>1. UNCHANGED << db, writing >>
  BY DEF ReaderStep, BeginRead, FullVerify, RoutineVerify, EndRead
<1>2. /\ log \in Seq(EvidenceEntry) /\ checkpoints \in SUBSET ChainCheckpoint
      /\ snapLog[r] \in Seq(EvidenceEntry)
      /\ snapCheckpoints[r] \in SUBSET ChainCheckpoint
      /\ Sound(log, checkpoints) /\ ReaderInv(r)
      /\ << >> \in Seq(EvidenceEntry)
  BY DEF DatabaseInv, TypeOK
<1>3. /\ verify(snapLog[r]) = Valid(Len(snapLog[r]))
      /\ verify_since_checkpoint(snapLog[r], snapCheckpoints[r]) = Valid(Len(snapLog[r]))
      /\ Valid(Len(snapLog[r])) \in VerifyResult
      /\ Valid(Len(snapLog[r])).ok
      /\ Valid(Len(snapLog[r])).entries = Len(snapLog[r])
  BY <1>2, SoundVerifies DEF ReaderInv
<1>4. Sound(<< >>, {}) /\ Valid(0) \in VerifyResult /\ Valid(0).ok
  BY DEF Sound, Linear, Anchored, HasLatest, Valid, VerifyResult
<1>5. TypeOK' /\ ReaderInv(r)'
  <2>1. CASE BeginRead(r)
    BY <1>1, <1>2, <2>1 DEF BeginRead, DatabaseInv, TypeOK, ReaderInv, db, writing
  <2>2. CASE FullVerify(r)
    BY <1>1, <1>2, <1>3, <2>2 DEF FullVerify, DatabaseInv, TypeOK, ReaderInv, db, writing
  <2>3. CASE RoutineVerify(r)
    BY <1>1, <1>2, <1>3, <2>3
    DEF RoutineVerify, SeenCheckpoints, DatabaseInv, TypeOK, ReaderInv, db, writing
  <2>4. CASE EndRead(r)
    BY <1>1, <1>2, <1>4, <2>4 DEF EndRead, DatabaseInv, TypeOK, ReaderInv, db, writing
  <2>5. QED
    BY <2>1, <2>2, <2>3, <2>4 DEF ReaderStep
<1>6. ASSUME NEW q \in Readers, q # r PROVE ReaderInv(q)'
  <2>1. /\ rphase'[q] = rphase[q] /\ snapLog'[q] = snapLog[q]
        /\ snapCheckpoints'[q] = snapCheckpoints[q] /\ verdict'[q] = verdict[q]
    BY <1>6 DEF ReaderStep, BeginRead, FullVerify, RoutineVerify, EndRead, DatabaseInv, TypeOK
  <2>2. QED
    BY <2>1 DEF DatabaseInv, ReaderInv
<1>7. (\A w \in Writers : WriterInv(w))' /\ Sound(log, checkpoints)'
  BY <1>1, <1>2 DEF DatabaseInv, WriterInv, db, writing
<1>8. QED
  BY <1>5, <1>6, <1>7 DEF DatabaseInv

\* A step that changes nothing keeps the invariant.
LEMMA StutterInv ==
    ASSUME DatabaseInv, UNCHANGED vars
    PROVE  DatabaseInv'
BY DEF DatabaseInv, TypeOK, WriterInv, ReaderInv, vars, db, writing, reading

\* Every step of a writer or a reader keeps the invariant.
LEMMA NextInv == DatabaseInv /\ [Next]_vars => DatabaseInv'
<1> SUFFICES ASSUME DatabaseInv, [Next]_vars PROVE DatabaseInv'
  OBVIOUS
<1>1. ASSUME NEW w \in Writers, WriterStep(w) PROVE DatabaseInv'
  BY <1>1, WaitStep, BeginStep, ReadHeadStep, InsertStep, VerifyAndMarkStep,
     CommitStep, AbortStep DEF WriterStep
<1>2. ASSUME NEW r \in Readers, ReaderStep(r) PROVE DatabaseInv'
  BY <1>2, ReaderStepInv
<1>3. CASE UNCHANGED vars
  BY <1>3, StutterInv
<1>4. QED
  BY <1>1, <1>2, <1>3 DEF Next

-----------------------------------------------------------------------------
(***************************************************************************)
(* The theorems.                                                           *)
(***************************************************************************)

\* The invariant holds in every reachable state.
THEOREM DatabaseIsSound == Spec => []DatabaseInv
BY InitInv, NextInv, PTL DEF Spec

\* Every variable has its type, whatever the number of writers and readers.
THEOREM TypeCorrect == Spec => []TypeOK
<1>1. DatabaseInv => TypeOK
  BY DEF DatabaseInv
<1>2. QED
  BY <1>1, DatabaseIsSound, PTL

\* Overlapping writers of session_scope never fork the committed chain.
THEOREM ChainNeverForks == Spec => []ChainIsLinear
<1>1. DatabaseInv => ChainIsLinear
  BY DEF DatabaseInv, ChainIsLinear, Sound
<1>2. QED
  BY <1>1, DatabaseIsSound, PTL

\* Every checkpoint names an entry of the committed log.
THEOREM CheckpointsAreAnchored == Spec => []CheckpointsAnchored
<1>1. DatabaseInv => CheckpointsAnchored
  BY DEF DatabaseInv, CheckpointsAnchored, Sound
<1>2. QED
  BY <1>1, DatabaseIsSound, PTL

\* No verification reports a break in a log that only the program has written,
\* and every one of them reports the size of the whole log it saw.
THEOREM VerificationTellsTheTruth == Spec => []VerdictsTrue
<1>1. DatabaseInv => VerdictsTrue
  <2> SUFFICES ASSUME DatabaseInv PROVE VerdictsTrue
    OBVIOUS
  <2>1. ASSUME NEW r \in Readers
        PROVE  /\ verdict[r].ok
               /\ rphase[r] = "done" => verdict[r].entries = Len(snapLog[r])
    BY DEF DatabaseInv, ReaderInv
  <2>2. ASSUME NEW w \in Writers, phase[w] = "open"
        PROVE  verify_since_checkpoint(txLog[w], txCheckpoints[w]).ok
    <3>1. /\ txLog[w] \in Seq(EvidenceEntry)
          /\ txCheckpoints[w] \in SUBSET ChainCheckpoint
          /\ Sound(txLog[w], txCheckpoints[w])
      BY <2>2 DEF DatabaseInv, TypeOK, WriterInv, InTxn
    <3>2. QED
      BY <3>1, SoundVerifies
  <2>3. QED
    BY <2>1, <2>2 DEF VerdictsTrue
<1>2. QED
  BY <1>1, DatabaseIsSound, PTL

\* An extension of a table starts with it.
LEMMA ExtensionStartsWithIt ==
    ASSUME NEW new \in Seq(EvidenceEntry), NEW old \in Seq(EvidenceEntry), Extends(new, old)
    PROVE  Len(new) >= Len(old) /\ SubSeq(new, 1, Len(old)) = old
<1>1. /\ Len(new) \in Nat /\ DOMAIN new = 1..Len(new)
      /\ Len(old) \in Nat /\ DOMAIN old = 1..Len(old)
      /\ Len(old) <= Len(new)
      /\ \A i \in 1..Len(old) : new[i] = old[i]
  BY LenProperties DEF Extends
<1>2. SubSeq(new, 1, Len(old)) = [i \in 1..Len(old) |-> new[i]]
  BY <1>1
<1>3. old = [i \in 1..Len(old) |-> old[i]]
  BY LenProperties
<1>4. QED
  BY <1>1, <1>2, <1>3

\* What a step does to the database: nothing, except that a commit publishes
\* the view of the writer that holds the lock.
LEMMA OnlyCommitPublishes ==
    ASSUME [Next]_vars, ~ UNCHANGED db
    PROVE  \E w \in Writers : Commit(w)
BY DEF Next, WriterStep, ReaderStep, RequestLock, BeginImmediate, BusyTimeout, ReadHead,
   Insert, VerifyAndMark, Abort, BeginRead, FullVerify, RoutineVerify, EndRead, vars

\* What a commit finds: its view extends the committed tables, and either adds
\* entries or a checkpoint.
LEMMA CommitPublishes ==
    ASSUME DatabaseInv, NEW w \in Writers, Commit(w)
    PROVE  /\ Extends(log', log)
           /\ \/ checkpoints' = checkpoints
              \/ log' = log /\ checkpoints' = write_checkpoint(log, checkpoints)
<1>1. phase[w] \in {"open", "verified"} /\ log' = txLog[w] /\ checkpoints' = txCheckpoints[w]
  BY DEF Commit
<1>2. QED
  BY <1>1 DEF DatabaseInv, WriterInv, InTxn

\* Nothing committed is ever changed or removed.
THEOREM CommittedIsForever == Spec => AppendOnly
<1> DEFINE Step == /\ Len(log') >= Len(log)
                   /\ SubSeq(log', 1, Len(log)) = log
                   /\ checkpoints \subseteq checkpoints'
<1>1. DatabaseInv /\ DatabaseInv' /\ [Next]_vars => [Step]_db
  <2> SUFFICES ASSUME DatabaseInv, DatabaseInv', [Next]_vars, ~ UNCHANGED db
               PROVE  Step
    OBVIOUS
  <2>1. PICK w \in Writers : Commit(w)
    BY OnlyCommitPublishes
  <2>2. /\ log \in Seq(EvidenceEntry) /\ log' \in Seq(EvidenceEntry)
        /\ checkpoints \in SUBSET ChainCheckpoint /\ Sound(log, checkpoints)
    BY DEF DatabaseInv, TypeOK
  <2>3. Len(log') >= Len(log) /\ SubSeq(log', 1, Len(log)) = log
    BY <2>1, <2>2, CommitPublishes, ExtensionStartsWithIt
  <2>4. checkpoints \subseteq checkpoints'
    BY <2>1, <2>2, CommitPublishes, MarkKeepsSound
  <2>5. QED
    BY <2>3, <2>4
<1>2. QED
  BY <1>1, DatabaseIsSound, PTL DEF AppendOnly, Spec

\* The newest of some checkpoints and one that is newer than all of them.
LEMMA NewestIsLatest ==
    ASSUME NEW cps \in SUBSET ChainCheckpoint, NEW c \in ChainCheckpoint,
           \A d \in cps : d.seq < c.seq
    PROVE  latest_checkpoint(cps \cup {c}) = c
<1>1. c.seq \in Nat /\ \A d \in cps : d.seq \in Nat
  BY DEF ChainCheckpoint
<1>2. HasLatest(cps \cup {c}) /\ cps \cup {c} # {}
  BY <1>1 DEF HasLatest
<1>3. /\ latest_checkpoint(cps \cup {c}) \in cps \cup {c}
      /\ c.seq <= latest_checkpoint(cps \cup {c}).seq
  BY <1>2, LatestCheckpoint
<1>4. QED
  BY <1>1, <1>3

Events   == ContentsTo(log, Len(log))
Attested == IF checkpoints = {} THEN 0 ELSE latest_checkpoint(checkpoints).seq

\* The contents of a table, and of an extension of it.
LEMMA ContentsOfExtension ==
    ASSUME NEW new \in Seq(EvidenceEntry), NEW old \in Seq(EvidenceEntry), Extends(new, old)
    PROVE  LET n == ContentsTo(new, Len(new))
               o == ContentsTo(old, Len(old))
           IN  /\ n \in Seq(Payload) /\ Len(n) = Len(new)
               /\ o \in Seq(Payload) /\ Len(o) = Len(old)
               /\ SubSeq(n, 1, Len(o)) = o
               /\ Len(new) = Len(old) => n = o
<1> DEFINE n == ContentsTo(new, Len(new))
           o == ContentsTo(old, Len(old))
<1>1. /\ Len(new) \in Nat /\ DOMAIN new = 1..Len(new)
      /\ Len(old) \in Nat /\ DOMAIN old = 1..Len(old)
      /\ Len(old) <= Len(new)
      /\ \A i \in 1..Len(old) : new[i] = old[i]
  BY LenProperties DEF Extends
<1>2. /\ \A j \in 1..Len(new) : new[j].payload \in Payload
      /\ \A j \in 1..Len(old) : old[j].payload \in Payload
  BY <1>1, ElementOfSeq, EntryFields
<1>3. n \in Seq(Payload) /\ Len(n) = Len(new) /\ o \in Seq(Payload) /\ Len(o) = Len(old)
  BY <1>1, <1>2, IsASeq, LenProperties DEF ContentsTo
<1>4. o = [i \in 1..Len(old) |-> n[i]]
  BY <1>1 DEF ContentsTo
<1> HIDE DEF n, o
<1>5. SubSeq(n, 1, Len(o)) = [i \in 1..Len(old) |-> n[i]]
  BY <1>1, <1>3
<1>6. n = [i \in 1..Len(new) |-> n[i]]
  BY <1>3, LenProperties
<1>7. /\ n \in Seq(Payload) /\ Len(n) = Len(new)
      /\ o \in Seq(Payload) /\ Len(o) = Len(old)
      /\ SubSeq(n, 1, Len(o)) = o
      /\ Len(new) = Len(old) => n = o
  BY <1>3, <1>4, <1>5, <1>6
<1>8. QED
  BY <1>7 DEF n, o

\* Each transaction takes effect in one step of the abstract log, or in none.
THEOREM TransactionsAreAtomic == Spec => ImplementsAppendOnlyLog
<1>1. Init => Abstract!Init
  <2> SUFFICES ASSUME Init PROVE Events = << >> /\ Attested = 0
    BY DEF Abstract!Init, Events, Attested
  <2>1. QED
    BY DEF Init, Events, Attested, ContentsTo
<1>2. DatabaseInv /\ DatabaseInv' /\ [Next]_vars => [Abstract!Next]_<< Events, Attested >>
  <2> SUFFICES ASSUME DatabaseInv, DatabaseInv', [Next]_vars,
                      ~ UNCHANGED << Events, Attested >>
               PROVE  Abstract!Next
    OBVIOUS
  <2>1. ~ UNCHANGED db
    BY DEF db, Events, Attested
  <2>2. PICK w \in Writers : Commit(w)
    BY <2>1, OnlyCommitPublishes
  <2>3. /\ log \in Seq(EvidenceEntry) /\ log' \in Seq(EvidenceEntry)
        /\ checkpoints \in SUBSET ChainCheckpoint /\ Sound(log, checkpoints)
    BY DEF DatabaseInv, TypeOK
  <2>4. /\ Extends(log', log)
        /\ \/ checkpoints' = checkpoints
           \/ log' = log /\ checkpoints' = write_checkpoint(log, checkpoints)
    BY <2>2, CommitPublishes
  <2>5. /\ Events' \in Seq(Payload) /\ Len(Events') = Len(log')
        /\ Len(Events) = Len(log)
        /\ SubSeq(Events', 1, Len(Events)) = Events
        /\ Len(log') = Len(log) => Events' = Events
    BY <2>3, <2>4, ContentsOfExtension DEF Events
  <2>6. CASE checkpoints' = checkpoints
    <3>1. Attested' = Attested
      BY <2>6 DEF Attested
    <3>2. Events' # Events
      BY <3>1
    <3>3. Len(Events') > Len(Events)
      BY <2>3, <2>4, <2>5, <3>2, LenProperties DEF Extends
    <3>4. QED
      BY <2>5, <3>1, <3>3 DEF Abstract!Next, Abstract!AppendBatch, Events, Attested
  <2>7. CASE log' = log /\ checkpoints' = write_checkpoint(log, checkpoints)
    <3>1. Events' = Events
      BY <2>7 DEF Events
    <3>2. HeadIsNewer(log, checkpoints)
      BY <2>7, <3>1 DEF write_checkpoint, Attested
    <3> DEFINE c == CheckpointOf(log)
    <3>3. log # << >> /\ \A d \in checkpoints : d.seq < last_entry(log).seq
      BY <3>2 DEF HeadIsNewer
    <3>4. Len(log) \in Nat \ {0} /\ last_entry(log) \in EvidenceEntry
      BY <2>3, <3>3, LastEntryType
    <3>5. last_entry(log).seq = Len(log)
      BY <2>3, <3>4, LenProperties DEF Sound, Linear, last_entry
    <3>6. c \in ChainCheckpoint /\ c.seq = Len(log)
      BY <3>4, <3>5, EntryFields DEF CheckpointOf, ChainCheckpoint
    <3>7. checkpoints' = checkpoints \cup {c}
      BY <2>7, <3>2 DEF write_checkpoint
    <3> HIDE DEF c
    <3>8. Attested' = Len(log)
      <4>1. latest_checkpoint(checkpoints \cup {c}) = c
        BY <2>3, <3>3, <3>5, <3>6, NewestIsLatest
      <4>2. QED
        BY <3>6, <3>7, <4>1 DEF Attested
    <3>9. Attested < Len(log)
      <4>1. CASE checkpoints = {}
        BY <3>4, <4>1 DEF Attested
      <4>2. CASE checkpoints # {}
        BY <2>3, <3>3, <3>5, <4>2, LatestCheckpoint DEF Attested, Sound
      <4>3. QED
        BY <4>1, <4>2
    <3>10. QED
      BY <2>5, <3>1, <3>8, <3>9 DEF Abstract!Next, Abstract!Attest, Events, Attested
  <2>8. QED
    BY <2>4, <2>6, <2>7
<1>3. QED
  BY <1>1, <1>2, DatabaseIsSound, PTL
  DEF ImplementsAppendOnlyLog, Abstract!Spec, Spec, Events, Attested
=============================================================================
