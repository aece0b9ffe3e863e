----------------------------- MODULE EvidenceLog -----------------------------
(***************************************************************************)
(* The evidence log as its writers and readers share it: the SQLite        *)
(* transactions of core/db.py around the append, verification and          *)
(* checkpoint code of core/evidence_log.py.                                *)
(*                                                                         *)
(* A writer is a process inside `session_scope`: it takes the write lock   *)
(* with BEGIN IMMEDIATE before it reads anything, appends any number of    *)
(* entries (each one first reads the chain head, then inserts), or, as the *)
(* digest does, verifies the log and marks it with a checkpoint, and then  *)
(* commits.  It can fail or be killed at every point.  A reader is a       *)
(* DEFERRED session: it sees the database of its first query until it is   *)
(* closed, whatever commits meanwhile (WAL).                               *)
(***************************************************************************)
EXTENDS HashChain

CONSTANTS Writers, Readers,
          NoWriter,        \* nobody holds the write lock
          MaxEntries       \* bound: no transaction grows the log beyond this

ASSUME NoWriterAssumption   == NoWriter \notin Writers
ASSUME MaxEntriesAssumption == MaxEntries \in Nat

VARIABLES
    log,           \* evidence_log, committed
    checkpoints,   \* chain_checkpoints, committed
    lock,          \* who holds SQLite's write lock
    phase,         \* where each writer stands
    txLog,         \* evidence_log as each writer's transaction sees it
    txCheckpoints, \* chain_checkpoints as each writer's transaction sees it
    head,          \* the prev_hash each writer has read for its next entry
    rphase,        \* where each reader stands
    snapLog,       \* evidence_log in each reader's snapshot
    snapCheckpoints,
    verdict        \* the VerifyResult each reader has computed

db      == << log, checkpoints >>
writing == << lock, phase, txLog, txCheckpoints, head >>
reading == << rphase, snapLog, snapCheckpoints, verdict >>
vars    == << db, writing, reading >>

\* "append" is inside evidence_log.append, between its read and its insert.
InTxn  == {"open", "append", "verified"}
Phases == {"idle", "waiting"} \cup InTxn

Init ==
    /\ log = << >>
    /\ checkpoints = {}
    /\ lock = NoWriter
    /\ phase = [w \in Writers |-> "idle"]
    /\ txLog = [w \in Writers |-> << >>]
    /\ txCheckpoints = [w \in Writers |-> {}]
    /\ head = [w \in Writers |-> GENESIS]
    /\ rphase = [r \in Readers |-> "idle"]
    /\ snapLog = [r \in Readers |-> << >>]
    /\ snapCheckpoints = [r \in Readers |-> {}]
    /\ verdict = [r \in Readers |-> Valid(0)]

-----------------------------------------------------------------------------
(***************************************************************************)
(* Writers.                                                                *)
(***************************************************************************)

\* session_scope issues BEGIN IMMEDIATE.
RequestLock(w) ==
    /\ phase[w] = "idle"
    /\ phase' = [phase EXCEPT ![w] = "waiting"]
    /\ UNCHANGED << db, lock, txLog, txCheckpoints, head, reading >>

DeferredLock(w) == TRUE
LockIsFree(w)   == lock = NoWriter

BeginImmediate(w) ==
    /\ phase[w] = "waiting"
    /\ LockIsFree(w)
    /\ lock' = w
    /\ phase' = [phase EXCEPT ![w] = "open"]
    /\ txLog' = [txLog EXCEPT ![w] = log]
    /\ txCheckpoints' = [txCheckpoints EXCEPT ![w] = checkpoints]
    /\ UNCHANGED << db, head, reading >>

\* busy_timeout runs out: "database is locked" is raised to the caller.
BusyTimeout(w) ==
    /\ phase[w] = "waiting"
    /\ ~ LockIsFree(w)
    /\ phase' = [phase EXCEPT ![w] = "idle"]
    /\ UNCHANGED << db, lock, txLog, txCheckpoints, head, reading >>

OwnView(w) == txLog[w]

\* append: select the last entry ...
ReadHead(w) ==
    /\ phase[w] = "open"
    /\ Len(OwnView(w)) < MaxEntries
    /\ head' = [head EXCEPT ![w] = HeadHash(OwnView(w))]
    /\ phase' = [phase EXCEPT ![w] = "append"]
    /\ UNCHANGED << db, lock, txLog, txCheckpoints, reading >>

\* ... and insert after it.  A violated UNIQUE constraint raises: see Abort.
Insert(w) ==
    /\ phase[w] = "append"
    /\ \E payload \in Payload :
          LET entry == NewEntry(txLog[w], head[w], payload)
          IN  /\ Unique(txLog[w], entry)
              /\ txLog' = [txLog EXCEPT ![w] = Append(@, entry)]
    /\ phase' = [phase EXCEPT ![w] = "open"]
    /\ UNCHANGED << db, lock, txCheckpoints, head, reading >>

\* The digest: verify_since_checkpoint, and write_checkpoint if it is ok.  The
\* digest's transaction appends nothing to the log.
VerifyAndMark(w) ==
    /\ phase[w] = "open"
    /\ txLog[w] = log
    /\ txCheckpoints' = [txCheckpoints EXCEPT ![w] =
          IF verify_since_checkpoint(txLog[w], @).ok
          THEN write_checkpoint(txLog[w], @) ELSE @]
    /\ phase' = [phase EXCEPT ![w] = "verified"]
    /\ UNCHANGED << db, lock, txLog, head, reading >>

LeaveTxn(w) ==
    /\ lock' = NoWriter
    /\ phase' = [phase EXCEPT ![w] = "idle"]
    /\ txLog' = [txLog EXCEPT ![w] = << >>]
    /\ txCheckpoints' = [txCheckpoints EXCEPT ![w] = {}]
    /\ head' = [head EXCEPT ![w] = GENESIS]

Commit(w) ==
    /\ phase[w] \in {"open", "verified"}
    /\ log' = txLog[w]
    /\ checkpoints' = txCheckpoints[w]
    /\ LeaveTxn(w)
    /\ UNCHANGED reading

\* An exception rolls back; a killed process loses its uncommitted pages.
Abort(w) ==
    /\ phase[w] \in InTxn
    /\ LeaveTxn(w)
    /\ UNCHANGED << db, reading >>

-----------------------------------------------------------------------------
(***************************************************************************)
(* Readers: verify and export walk everything, report and doctor call      *)
(* verify_since_checkpoint(record=False).                                  *)
(***************************************************************************)

BeginRead(r) ==
    /\ rphase[r] = "idle"
    /\ rphase' = [rphase EXCEPT ![r] = "reading"]
    /\ snapLog' = [snapLog EXCEPT ![r] = log]
    /\ snapCheckpoints' = [snapCheckpoints EXCEPT ![r] = checkpoints]
    /\ UNCHANGED << db, writing, verdict >>

\* A session without a snapshot would read each table as of now.
LiveCheckpoints(r) == checkpoints
SeenCheckpoints(r) == snapCheckpoints[r]

FullVerify(r) ==
    /\ rphase[r] = "reading"
    /\ verdict' = [verdict EXCEPT ![r] = verify(snapLog[r])]
    /\ rphase' = [rphase EXCEPT ![r] = "done"]
    /\ UNCHANGED << db, writing, snapLog, snapCheckpoints >>

RoutineVerify(r) ==
    /\ rphase[r] = "reading"
    /\ verdict' = [verdict EXCEPT ![r] =
          verify_since_checkpoint(snapLog[r], SeenCheckpoints(r))]
    /\ rphase' = [rphase EXCEPT ![r] = "done"]
    /\ UNCHANGED << db, writing, snapLog, snapCheckpoints >>

EndRead(r) ==
    /\ rphase[r] = "done"
    /\ rphase' = [rphase EXCEPT ![r] = "idle"]
    /\ snapLog' = [snapLog EXCEPT ![r] = << >>]
    /\ snapCheckpoints' = [snapCheckpoints EXCEPT ![r] = {}]
    /\ verdict' = [verdict EXCEPT ![r] = Valid(0)]
    /\ UNCHANGED << db, writing >>

WriterStep(w) ==
    \/ RequestLock(w) \/ BeginImmediate(w) \/ BusyTimeout(w)
    \/ ReadHead(w) \/ Insert(w) \/ VerifyAndMark(w)
    \/ Commit(w) \/ Abort(w)

ReaderStep(r) == BeginRead(r) \/ FullVerify(r) \/ RoutineVerify(r) \/ EndRead(r)

Next == \/ \E w \in Writers : WriterStep(w)
        \/ \E r \in Readers : ReaderStep(r)

Spec == Init /\ [][Next]_vars

-----------------------------------------------------------------------------
(***************************************************************************)
(* Properties.                                                             *)
(***************************************************************************)

VerifyResult == [ok : BOOLEAN, entries : Nat, first_bad_seq : Nat]

\* Every variable has its type.
TypeOK ==
    /\ log \in Seq(EvidenceEntry)
    /\ checkpoints \in SUBSET ChainCheckpoint
    /\ lock \in Writers \cup {NoWriter}
    /\ phase \in [Writers -> Phases]
    /\ txLog \in [Writers -> Seq(EvidenceEntry)]
    /\ txCheckpoints \in [Writers -> SUBSET ChainCheckpoint]
    /\ head \in [Writers -> Hash]
    /\ rphase \in [Readers -> {"idle", "reading", "done"}]
    /\ snapLog \in [Readers -> Seq(EvidenceEntry)]
    /\ snapCheckpoints \in [Readers -> SUBSET ChainCheckpoint]
    /\ verdict \in [Readers -> VerifyResult]

\* Overlapping writers never fork the committed chain: at most one entry
\* follows each entry, and the log is linear.
ChainIsLinear == Linear(log)

\* Every checkpoint names an entry of the committed log by its seq and hash, so
\* the anchor the routine check starts from is one that `append` wrote.
CheckpointsAnchored == Anchored(checkpoints, log)

\* No check raises a false alarm over a log nobody tampered with: neither a
\* reader with writers and a digest moving the head and the checkpoint under it,
\* nor the digest inside its own transaction.  And a check that starts at a
\* checkpoint still reports the number of entries of the whole log it saw.
VerdictsTrue ==
    /\ \A r \in Readers :
          /\ verdict[r].ok
          /\ rphase[r] = "done" => verdict[r].entries = Len(snapLog[r])
    /\ \A w \in Writers :
          phase[w] = "open" => verify_since_checkpoint(txLog[w], txCheckpoints[w]).ok

\* What is committed is never changed or removed again: each step extends the
\* log at its end and adds to the checkpoints, or leaves them alone.
AppendOnly ==
    [][ /\ Len(log') >= Len(log)
        /\ SubSeq(log', 1, Len(log)) = log
        /\ checkpoints \subseteq checkpoints' ]_db

\* The transactions implement the abstract log.
Abstract == INSTANCE AppendOnlyLog WITH
    events   <- ContentsTo(log, Len(log)),
    attested <- IF checkpoints = {} THEN 0 ELSE latest_checkpoint(checkpoints).seq

\* Every transaction takes effect at once or not at all: its entries arrive
\* together, in one place, and a checkpoint always covers the whole log.
ImplementsAppendOnlyLog == Abstract!Spec

-----------------------------------------------------------------------------
(***************************************************************************)
(* The inductive invariant behind the properties above.                    *)
(***************************************************************************)

Sound(rows, cps) == Linear(rows) /\ Anchored(cps, rows) /\ HasLatest(cps)

Extends(new, old) ==
    Len(old) <= Len(new) /\ \A i \in DOMAIN old : new[i] = old[i]

\* What holds of a writer: it is inside its transaction exactly while it holds
\* the lock, and its view extends what is committed by a sound piece.
WriterInv(w) ==
    /\ phase[w] \in InTxn <=> lock = w
    /\ phase[w] \in InTxn =>
          /\ Sound(txLog[w], txCheckpoints[w])
          /\ Extends(txLog[w], log)
    /\ phase[w] \in {"open", "append"} => txCheckpoints[w] = checkpoints
    /\ phase[w] = "append" => head[w] = HeadHash(txLog[w])
    /\ phase[w] = "verified" =>
          /\ txLog[w] = log
          /\ txCheckpoints[w] \in {checkpoints, write_checkpoint(log, checkpoints)}

ReaderInv(r) ==
    /\ Sound(snapLog[r], snapCheckpoints[r])
    /\ verdict[r].ok
    /\ rphase[r] = "done" => verdict[r].entries = Len(snapLog[r])

\* Each step keeps this: the database is sound, and so is what every
\* transaction and every snapshot makes of it.
DatabaseInv ==
    /\ TypeOK
    /\ Sound(log, checkpoints)
    /\ \A w \in Writers : WriterInv(w)
    /\ \A r \in Readers : ReaderInv(r)
=============================================================================
