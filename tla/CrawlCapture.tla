---------------------------- MODULE CrawlCapture -----------------------------
(***************************************************************************)
(* The crawl: ingest/crawler.py from the stored hits to the last capture.  *)
(*                                                                         *)
(* A crawl stores its new mentions in one transaction, reads the mentions  *)
(* still owed a capture in one short query, and works through that list:   *)
(* every page is fetched with no transaction open and every outcome is     *)
(* written in a transaction of its own.  Crawls overlap and die.           *)
(*                                                                         *)
(* The archive is asked to save a page inside the transaction that records *)
(* the capture.  What it was asked cannot be rolled back, so its side of   *)
(* the story (asked) is kept apart from the rows (saves).                  *)
(*                                                                         *)
(* Mentions are named by their place in the order of discovered_at.        *)
(***************************************************************************)
EXTENDS Integers, FiniteSets, FiniteSetsExt

CONSTANTS Crawlers,
          Nobody,               \* no crawl is inside its capture transaction
          Total,                \* bound: mentions the sources ever yield
          Down,                 \* mentions, on no skip list, whose robots.txt never answers
          budget,               \* settings.max_captures_per_run
          MAX_CAPTURE_ATTEMPTS,
          MaxTroubles           \* bound: crashes, lost answers, passing robots outages

ASSUME NobodyAssumption      == Nobody \notin Crawlers
ASSUME CrawlersAssumption    == IsFiniteSet(Crawlers)
ASSUME TotalAssumption       == Total \in Nat
ASSUME DownAssumption        == Down \subseteq 1..Total
ASSUME BudgetAssumption      == budget \in Nat
ASSUME MaxAttemptsAssumption == MAX_CAPTURE_ATTEMPTS \in Nat \ {0}
ASSUME MaxTroublesAssumption == MaxTroubles \in Nat

Mentions == 1..Total

VARIABLES
    found,     \* mentions stored so far: 1..found
    state,     \* mentions.capture_state
    attempts,  \* mentions.capture_attempts
    evidence,  \* captures stored: their artifact rows and archive_snapshots row
    logged,    \* the last mention.capture_state entry in the evidence log
    phase,     \* where each crawl stands
    work,      \* what is left of each crawl's list
    inTxn,     \* the crawl that is between BEGIN IMMEDIATE and COMMIT of a capture
    asked,     \* saves the archive has taken on so far, outside the program
    saves,     \* the ones an archive_snapshots row names, by their place among them
    submitted, \* what the open transaction has heard from the archive
    troubles

rows    == << found, state, attempts, evidence, logged >>
archive == << asked, saves, submitted >>
crawls  == << phase, work, inTxn >>
vars    == << rows, archive, crawls, troubles >>

Decisions     == {"captured", "skipped", "failed"}
CAPTURE_STATES == {"pending"} \cup Decisions

Init ==
    /\ found = 0
    /\ state = [m \in Mentions |-> "pending"]
    /\ attempts = [m \in Mentions |-> 0]
    /\ evidence = [m \in Mentions |-> 0]
    /\ logged = [m \in Mentions |-> "pending"]
    /\ phase = [c \in Crawlers |-> "idle"]
    /\ work = [c \in Crawlers |-> {}]
    /\ inTxn = Nobody
    /\ asked = 0
    /\ saves = {}
    /\ submitted = "not yet"
    /\ troubles = 0

CanWrite == inTxn = Nobody

CaptureUnstored(c) ==
    /\ phase[c] = "idle"
    /\ \E n \in found..Total : work' = [work EXCEPT ![c] = (found + 1)..n]
    /\ phase' = [phase EXCEPT ![c] = "capturing"]
    /\ UNCHANGED << rows, archive, inTxn, troubles >>

\* What the sources yield: a source that fails or crashes yields nothing and the
\* others go on, so a crawl may find any number of the mentions not found yet.
gather_hits == 0..(Total - found)

\* The hits of this run in one transaction: a known page gets its matched terms
\* merged, a new one a row.
_dedupe_and_store(c) ==
    /\ phase[c] = "idle"
    /\ CanWrite
    /\ \E n \in gather_hits : found' = found + n
    /\ phase' = [phase EXCEPT ![c] = "stored"]
    /\ UNCHANGED << state, attempts, evidence, logged, archive, work, inTxn, troubles >>

NeverTried(m)  == state[m] = "pending" /\ attempts[m] = 0
NotGivenUp(m)  == state[m] \in {"pending", "captured"}
IsOwed(m)      == state[m] = "pending"

Owed == {m \in 1..found : IsOwed(m)}

\* The oldest mentions still owed a capture, as many as the budget allows.
_pending_captures == {m \in Owed : Cardinality({k \in Owed : k < m}) < budget}

ReadPending(c) ==
    /\ phase[c] = "stored"
    /\ work' = [work EXCEPT ![c] = _pending_captures]
    /\ phase' = [phase EXCEPT ![c] = "capturing"]
    /\ UNCHANGED << rows, archive, inTxn, troubles >>

-----------------------------------------------------------------------------
(***************************************************************************)
(* One mention after the other, oldest first.                              *)
(***************************************************************************)

Current(c)  == Min(work[c])
Visiting(c) == phase[c] = "capturing" /\ work[c] # {} /\ inTxn # c
Leave(c, m) == work' = [work EXCEPT ![c] = @ \ {m}]

UnloggedDecision(m, decision) ==
    /\ state' = [state EXCEPT ![m] = decision]
    /\ UNCHANGED logged
_record_capture_state(m, decision) ==
    /\ state' = [state EXCEPT ![m] = decision]
    /\ logged' = [logged EXCEPT ![m] = decision]

\* What a host's robots.txt can settle: a refused address is a denial, an error of
\* the host or of the network is no answer, a missing file is a permission.
Verdicts(m) == IF m \in Down THEN {"unavailable"} ELSE {"allow", "deny", "unavailable"}

\* robots.txt unavailable: the mention stays pending and is not counted.
LeavePending(c) ==
    /\ Visiting(c)
    /\ "unavailable" \in Verdicts(Current(c))
    /\ \/ Current(c) \in Down /\ UNCHANGED troubles
       \/ Current(c) \notin Down /\ troubles < MaxTroubles /\ troubles' = troubles + 1
    /\ Leave(c, Current(c))
    /\ UNCHANGED << rows, archive, phase, inTxn >>

\* The host is on the skip list, or robots.txt denies the page.
Skip(c) ==
    /\ Visiting(c)
    /\ CanWrite
    /\ "deny" \in Verdicts(Current(c))
    /\ _record_capture_state(Current(c), "skipped")
    /\ Leave(c, Current(c))
    /\ UNCHANGED << found, attempts, evidence, archive, phase, inTxn, troubles >>

EagerLimit(n) == n + 1 >= MAX_CAPTURE_ATTEMPTS
AtLimit(n)    == n >= MAX_CAPTURE_ATTEMPTS

\* capture_url raised: count the attempt on the row as it is now.
CaptureFailed(c) ==
    LET m == Current(c)
        n == attempts[m] + 1
    IN  /\ Visiting(c)
        /\ CanWrite
        /\ "allow" \in Verdicts(m)
        /\ attempts' = [attempts EXCEPT ![m] = n]
        /\ IF AtLimit(n) THEN _record_capture_state(m, "failed")
                         ELSE UNCHANGED << state, logged >>
        /\ Leave(c, m)
        /\ UNCHANGED << found, evidence, archive, phase, inTxn, troubles >>

\* The page was captured: the transaction that stores the artifacts, submits the
\* page to the archive and records the state begins.
EarlyEvidence(m) == evidence' = [evidence EXCEPT ![m] = @ + 1]
EvidenceInTxn(m) == UNCHANGED evidence

BeginCapture(c) ==
    /\ Visiting(c)
    /\ CanWrite
    /\ "allow" \in Verdicts(Current(c))
    /\ EvidenceInTxn(Current(c))
    /\ inTxn' = c
    /\ UNCHANGED << found, state, attempts, logged, archive, phase, work, troubles >>

\* archive.submit, with the transaction open: the archive takes the save on and
\* answers with its job id, refuses it, or takes it on and the answer is lost.
\* Whatever submit raises is logged and the row is recorded without a job id.
submit_archive(c) ==
    /\ inTxn = c
    /\ submitted = "not yet"
    /\ \/ /\ submitted' = "job"
          /\ asked' = asked + 1
          /\ UNCHANGED troubles
       \/ /\ submitted' = "no job"
          /\ UNCHANGED << asked, troubles >>
       \/ /\ submitted' = "no job"
          /\ asked' = asked + 1
          /\ troubles < MaxTroubles
          /\ troubles' = troubles + 1
    /\ UNCHANGED << rows, saves, crawls >>

JobForgotten == saves
\* The job the transaction has heard of is the last one: it holds the write lock.
JobRecorded == IF submitted = "job" THEN saves \cup {asked} ELSE saves

CommitCapture(c) ==
    LET m == Current(c)
    IN  /\ inTxn = c
        /\ submitted # "not yet"
        /\ evidence' = [evidence EXCEPT ![m] = @ + 1]
        /\ saves' = JobRecorded
        /\ _record_capture_state(m, "captured")
        /\ inTxn' = Nobody
        /\ submitted' = "not yet"
        /\ Leave(c, m)
        /\ UNCHANGED << found, attempts, asked, phase, troubles >>

Finish(c) ==
    /\ phase[c] = "capturing"
    /\ work[c] = {}
    /\ phase' = [phase EXCEPT ![c] = "idle"]
    /\ UNCHANGED << rows, archive, work, inTxn, troubles >>

\* The crawl is killed, or a write finds the database locked for longer than
\* busy_timeout: the open transaction is rolled back, the list forgotten.
Crash(c) ==
    /\ phase[c] # "idle"
    /\ troubles < MaxTroubles
    /\ troubles' = troubles + 1
    /\ phase' = [phase EXCEPT ![c] = "idle"]
    /\ work' = [work EXCEPT ![c] = {}]
    /\ inTxn' = IF inTxn = c THEN Nobody ELSE inTxn
    /\ submitted' = IF inTxn = c THEN "not yet" ELSE submitted
    /\ UNCHANGED << rows, asked, saves >>

Crawl(c) ==
    \/ _dedupe_and_store(c) \/ ReadPending(c)
    \/ LeavePending(c) \/ Skip(c) \/ CaptureFailed(c)
    \/ BeginCapture(c) \/ submit_archive(c) \/ CommitCapture(c)
    \/ Finish(c)

Next == \E c \in Crawlers : Crawl(c) \/ Crash(c)

\* Crawls are started by the scheduler again and again, and one that runs goes
\* on: a page load and a request to the archive have a timeout, and a write
\* waits for the lock only as long as one other crawl is inside a capture.
Fairness == \A c \in Crawlers : WF_vars(Crawl(c))

Spec == Init /\ [][Next]_vars /\ Fairness

-----------------------------------------------------------------------------
(***************************************************************************)
(* Properties.                                                             *)
(***************************************************************************)

\* Every variable has its type.
TypeOK ==
    /\ found \in 0..Total
    /\ state \in [Mentions -> CAPTURE_STATES]
    /\ attempts \in [Mentions -> Nat]
    /\ evidence \in [Mentions -> Nat]
    /\ logged \in [Mentions -> CAPTURE_STATES]
    /\ phase \in [Crawlers -> {"idle", "stored", "capturing"}]
    /\ work \in [Crawlers -> SUBSET (1..found)]
    /\ inTxn \in Crawlers \cup {Nobody}
    /\ asked \in Nat
    /\ saves \subseteq 1..asked
    /\ submitted \in {"not yet", "job", "no job"}
    /\ troubles \in 0..MaxTroubles

\* The state of a mention and its stored evidence agree through every crash:
\* no mention is called captured without evidence, and none with evidence is
\* still owed a capture, which would capture and archive it a second time.
EvidenceMatchesState ==
    \A m \in Mentions : /\ state[m] = "captured" => evidence[m] > 0
                        /\ evidence[m] > 0 => state[m] # "pending"

\* Only crawls that overlap can capture a mention more than once.
CapturesBounded == \A m \in Mentions : evidence[m] <= Cardinality(Crawlers)

\* A mention is given up only after MAX_CAPTURE_ATTEMPTS failures, and only
\* overlapping crawls that hold it on a stale list can add to them.
GivenUpAtLimit ==
    \A m \in Mentions :
        /\ state[m] = "failed" => attempts[m] >= MAX_CAPTURE_ATTEMPTS
        /\ state[m] = "pending" => attempts[m] < MAX_CAPTURE_ATTEMPTS
        /\ attempts[m] <= MAX_CAPTURE_ATTEMPTS + Cardinality(Crawlers) - 1

\* A decision that stops a mention being captured is part of the record: the
\* evidence log's last word on every mention is the state the row has.
DecisionsLogged == \A m \in Mentions : logged[m] = state[m]

\* Every mention that was found and whose host answers is decided in the end:
\* captured, skipped or given up, whatever the budget cut off, however many
\* captures fail and runs die.
OwedIsTaken ==
    \A m \in Mentions \ Down : m <= found ~> state[m] # "pending"

\* The archive is asked before anything about it is on record, so a rollback or
\* a lost answer leaves a save nobody knows of.  Each of them leaves at most one:
\* the saves the archive took on and no row names are never more than the crashes
\* and the lost answers, and the one of the transaction that is still open.
UnknownSavesBounded ==
    Cardinality((1..asked) \ saves) <= troubles + IF submitted = "job" THEN 1 ELSE 0
=============================================================================
