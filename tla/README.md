# Specifications of brand-evidence

TLA+ models of the parts of brand-evidence that are concurrent, that can fail
half-way, or whose arithmetic decides whether evidence is believed. TLC checks
them on small instances; TLAPS proves the central results for every value of
the constants. Paths below are relative to `src/src/brand_evidence/`.

    tlc -config EvidenceLog.cfg MCEvidenceLog        # one run; PROJECT.json lists all
    tlapm EvidenceLogProofs.tla                      # one proof module

## 1. The system

brand-evidence is a set of short-lived processes over one SQLite database and
one content-addressed directory. launchd starts them (`schedule.py`): `crawl`
at 07:00, `archive-poll` every two hours, `digest` at 07:30, `timestamp` at
07:45. A publisher calls `hook` whenever a post goes live, and a person runs
everything else. launchd starts no second instance of a job that is running, but
a person may (`crawl`, `archive-poll` and the others are commands too), and nothing
keeps different jobs apart: only the database coordinates them.

| Part | State it keeps | Operations | Correct when |
|---|---|---|---|
| Evidence log, `core/evidence_log.py` | `evidence_log` (seq, prev_hash, payload, entry_hash), `chain_checkpoints` | `append`, `record`, `verify`, `verify_since_checkpoint`, `_anchored`, `write_checkpoint` | one chain from GENESIS, never forked, never shortened; a break is found and named; no false alarm; a checkpoint names a verified entry |
| Sessions, `core/db.py` | SQLite's write lock, WAL snapshots, append-only triggers | `session_scope` (BEGIN IMMEDIATE, commit, rollback), read sessions (BEGIN) | a transaction is all or nothing; the head is read under the lock that the insert runs under |
| Archive poll, `ingest/archive_poll.py` | `archive_snapshots` (status, attempts, provider_ref) | `_due_snapshots`, check, resubmit, `_record_attempt` | every attempt counted once, the limit kept, answers final, the backoff respected, every request answered |
| Archive provider, `capture/archiver.py` | none (rate limiter in memory) | `submit`, `check`, `history`, `next_attempt_due` | BACKOFF and MAX_ATTEMPTS bound the load on the archive |
| Crawl, `ingest/crawler.py` | `mentions` (url, matched_terms, capture_state, capture_attempts) | gather, `_dedupe_and_store`, `_pending_captures`, `_capture_pending` | one row per page, no term lost; state, artifacts and log agree; retries are bounded; nothing owed a capture is forgotten |
| Hook, `ingest/hook.py` | `posts` | `ingest_post`, resume, duplicate | a post is recorded once, an ingest that is asked for again is finished |
| Publications sync, `ingest/publications_sync.py` | none: the watermark is the newest `published_at` with source_path `feed` | `fetch_feed`, one `ingest_post` per item | every publication of the feed is recorded |
| Capture pipeline, `ingest/capture_pipeline.py` | `artifacts`, `archive_snapshots`, `chain_timestamps` | `store_artifacts`, `submit_archive`, `attach_file`, `record_history`, `timestamp_chain_head` | what is written together is visible together; a token matches the head it names |
| Backfill, `ingest/backfill.py` | none | one `ingest_post` and one `record_history` per row of a file | a rerun adds nothing twice |
| Run bookkeeping, `core/runs.py` | `runs` | `tracked_run` | every run ends with a status, or is visibly left running |
| Daily digest, `digest/builder.py` | `runs` of job `digest` as its window | build, verify, mark | every run and every fact is reported by some digest |
| Report, doctor, `digest/report.py`, `doctor.py` | none | read sessions over everything | consistent with one moment |
| Artifact store, `core/store.py` | blobs named by sha256 | `put`, `iter_blobs`, integrity check | a row's file exists and is whole |
| Export, `export.py` | a package directory | log CSV, database copy, blobs, manifest | the package describes one moment |
| Timestamp client, `capture/timestamp.py` | none | RFC 3161 request and answer | external |
| Browser capture, `capture/screenshot.py`, `capture/pinning_proxy.py` | browser, proxy, list of refusals, in memory | `capture_url`, `_browser_instance`, `_pinning_proxy`, guard, proxy threads | a page is dialled where it was checked; what was blocked is reported with the page it belongs to |
| URL normalisation, `core/urlnorm.py` | none | `normalize_url` | two spellings are one exactly when they are of one page |
| Classification, `digest/classification.py` | tags in `mentions.notes` | `classify_new_mentions`, after `crawl` | a tag undoes nothing the owner has written |
| Sources, settings, most of the CLI | none shared | I/O, parsing, wiring | see "Not modelled" |

**How they interact.** Every write of every part is a transaction of
`session_scope`, and nearly every one appends to the evidence log, so they all
contend for one lock and one chain head. Parts do not call each other across
processes; they communicate through rows: a capture leaves a pending
`archive_snapshots` row for the poll, the feed sync leaves rows that move its
own watermark, the crawl leaves pending mentions for the next crawl, the digest
leaves a checkpoint for the next check.

**What is hard.**

- *Stale work lists.* Poll, crawl and classifier read a list, then spend minutes on the
  network with no transaction open, then write. Everything they write is decided
  on a state that may have moved.
- *Read-then-write of the head.* `append` reads the last row and inserts after
  it, several times per transaction, from several processes.
- *Several readings for one answer.* An export reads the log, the database and the
  files at three moments with writers in between; a digest reads rows that begin
  and end around it; `verify` reads the rows and then looks at the files.
- *Threads that outlive their page.* The proxy's connections are threads; the list
  of what they refused is shared by all pages of a run.
- *Two transactions for one fact.* A post and its artifacts; a mention and its
  capture. Every process can be killed or meet "database is locked" in between.
- *Verification that skips.* The daily check starts at a checkpoint and has to
  account for what it did not read, over a table that may be damaged.
- *Counters and limits.* MAX_ATTEMPTS, MAX_CAPTURE_ATTEMPTS, the capture budget
  and the watermark, each advanced by more than one process.
- *Things that must happen in the end.* A request answered, a mention decided, what
  the feed lists captured, although any process may die at any time.
- *A file that is written in place.* The digest of a date empties the file there is
  and writes it again, possibly beside another digest of that date.

PROJECT.json lists each of these as a hazard at its line, with the properties
that cover it.

## 2. Modules

| Module | What it is |
|---|---|
| `HashChain` | `core/evidence_log.py` as operators: entries, `compute_entry_hash`, `append`'s new entry, `_walk`, `_anchored`, `verify`, `verify_since_checkpoint`, `write_checkpoint` |
| `AppendOnlyLog` | the abstract specification: events arrive in batches, a mark moves to the end |
| `EvidenceLog` | extends HashChain: writers, readers, lock, commit, rollback, crash |
| `EvidenceLogProofs` | its invariants and its refinement of AppendOnlyLog, proved |
| `ChainDamage` | extends HashChain: a log damaged behind the program's back while the program goes on |
| `ChainDamageProofs` | what each check can tell of a damaged log, proved |
| `ArchivePoll` | overlapping polls with stale work lists over a clock |
| `Backlog` | the abstract specification: requests that are tried, counted and answered once |
| `ArchivePollProofs` | its safety properties, its pace and its refinement of Backlog, proved |
| `UrlNorm` | `normalize_url` as an operator, and when two spellings are one page |
| `Mentions` | extends UrlNorm: hits merged into rows, tags, the owner's notes (proofs: `DigestProofs`) |
| `CrawlCapture` | overlapping crawls from stored hits to decided mentions |
| `CrawlCaptureProofs` | its safety properties, proved |
| `PostIngest` | hook callers, feed syncs, backfills and history lookups over the same posts |
| `PostIngestProofs` | its safety properties, proved |
| `DailyDigest` | run rows, their ends, and the windows of the digests that list them |
| `DigestProofs` | the safety properties of DailyDigest, and those of Mentions and UrlNorm, proved |
| `ExportPackage` | the artifact store under writers that die, the evidence package and `verify` beside them |
| `ContentStore` | the abstract specification: contents kept whole, rows that name kept ones, packages that agree with themselves |
| `ExportPackageProofs` | its safety properties and its refinement of ContentStore, proved |
| `PageCapture` | one run's browser, its proxy's threads and the request guard |
| `PageCaptureProofs` | its safety properties, proved |
| `MC*` | constants for TLC |

A module names its actions and operators after the functions it translates;
PROJECT.json maps every definition to its lines.

### HashChain

A table is the sequence of its rows in the order of `seq`. An entry is a record
`[seq, prev_hash, payload, entry_hash]`. A hash is the pair of what was hashed,
nested down to GENESIS, which makes equality of hashes equality of the hashed
data: **SHA-256 is taken to be free of collisions**, and canonical JSON to be
injective. `payload` stands for everything an entry says (event, subject, time,
data), as `compute_entry_hash` hashes them all. It joins them without a delimiter;
the parts can still be told apart, because `prev_hash` is 64 hexadecimal digits,
`occurred_at` is always a `now_iso()` of one length, and the payload begins with `{`. `NextSeq` is SQLite's
INTEGER PRIMARY KEY without AUTOINCREMENT: one above the largest seq *in the
table*, so that seqs are reused after a tail is lost. The walk over the rows is
written without recursion: `FirstBreak` is the least index at which the loop of
`_walk` would return.

### EvidenceLog

`session_scope` becomes RequestLock, BeginImmediate or BusyTimeout, then any
number of ReadHead/Insert pairs (the two statements of `append` are two steps)
or one VerifyAndMark (the digest), then Commit or Abort. Abort is an exception
and a killed process alike: SQLite drops the uncommitted pages either way. A
writer's own view (`txLog`) is what its transaction reads, including its
uncommitted rows. A reader is a deferred session: `snapLog` and
`snapCheckpoints` are the WAL snapshot of its first query, and FullVerify and
RoutineVerify are two of the things it does with it. Deadlock is checked.

### ChainDamage

The program's `append` and `Digest` interleaved with damage to the tables: a
payload altered, a row lost, the newest rows cut off, a checkpoint lost. The
triggers of `core/db.py` forbid these from SQL; the tests do the same damage
after dropping a trigger. `Rewrite` writes a whole table anew, with hashes that
fit: no walk can tell it from a chain that grew that way. `timestamp_chain_head`
stamps the head (`stamped` holds what each token vouches for: seq and hash), and
`_check_timestamps` compares the tokens with the table, as `verify` does.

### ArchivePoll

Start reads the work list (`_due_snapshots`, with attempts and provider_ref as
of then). Check and Resubmit are the network call for one item, `_record_attempt`
and SkipAnswered the transaction that follows. `hasJob` is "provider_ref is
set". `Waited` are the sums of BACKOFF's slices, a recursive function. The clock counts from `submitted_at`. BACKOFF and MAX_ATTEMPTS are
constants; TLC uses two waits and three attempts, the same shape as five waits
and six attempts. `Progress` forgets the clock, the work lists and the job ids;
what is left is a Backlog.

### UrlNorm and Mentions

A URL is a record of the parts `normalize_url` looks at, so that its edges are
there (a second `www.`, the other scheme's port, the root and its slashes, a
repeated parameter) and its letters are not. `SamePage` says, without the function,
which spellings are one page; MCMentions compares the two over 450 spellings. The
sorted parameters are written by their order statistics (`InOrder`: the n-th is the
least value that n parameters do not exceed), which is what a sort returns and can
be reasoned about. `_dedupe_and_store` takes the hits of a run one after the other
(`StoreHits`, a recursive function over their numbers; a run may find none) into
rows and log, in one transaction.
ReadNew, WriteTags and Stop are `classify_new_mentions`, which `crawl` calls last;
between the first two the model is asked with no transaction open. `logged` is what
the evidence log last said of each mention; the classifier writes nothing there. Init,
Next, Spec and TypeOK carry the module's name here because DigestProofs extends this
module and DailyDigest.

### CrawlCapture

Mentions are numbered by `discovered_at`. `_dedupe_and_store` adds some in one
transaction, ReadPending reads the oldest pending ones up to the budget, and each
is then left pending (robots.txt unavailable), skipped, failed (counted; given
up at the limit), or captured. BeginCapture/CommitCapture are the one
transaction around the artifacts, the archive request and the state; it stays
open across the request to the archive, `submit_archive`, during which no other
crawl can write. `asked` is the archive's side: how many submits it has taken on,
whether or not the transaction then commits. `saves` are the ones a committed row
names, by their number; `submitted` is what the open transaction has heard, a job or
none, and JobForgotten and JobRecorded are its two ends.
`Down` are mentions whose robots.txt never answers: a choice of environment.

### PostIngest

A hook caller asks for any publication that is out, a sync for the items of the
list `fetch_feed` gave it, a backfill for the rows of its file. A sync goes on
with the next item when one raises; a backfill stops, which is `Kill`. RecordPost, Resume and Refuse are the outcomes of the
first transaction of `_ingest_post`, `_capture_for_post` the second, with the
page load between them. `attach_file` is the owner's `attach --post-id`, which
adds an artifact with the post as its subject. Publications are numbered by
`published_at`. After each post it imports a backfill asks for the snapshot the
archive held of it before (`record_history`; `--no-history` leaves the step out);
`archive-history` asks about all posts in one transaction, which holds the write
lock over the network. A sync outside `CaptureOff` is the scheduled crawl's
(`ingest/crawler.py:167`), which captures. Feed items carry their `published_at`. `Held` are the publications the archive has one of.

### DailyDigest

`rows` are the rows of `runs`, and posts and mentions as rows that end when they
begin; any number of days may pass before one. `clock` hands out stamps, so two rows are never equally old (the code's
stamps are microseconds; equal ones at the edge of a window would be
inside it). `tracked_run` begins a row, `_finish` ends it; a killed process
leaves it running. `_collect` is the reading transaction of a digest, for today or,
with `--date`, for any other date, past or to come. A person may run `digest` beside
the scheduled one, so `drafts` has a record for each that has read. `write_text` is
three steps, since it empties the file before it writes: OpenFile, FlushPart,
CloseFile. A file that is empty, cut short or written by two at once is `NoText`;
`alone` says that no other digest had it open, which is when its content is certain.
`build_digest` ends the row of a digest that has written; FailDigest is an exception
before that, and Kill a death at any time, and both leave the file as it is.
`written` is a history variable.

### ExportPackage

`put` is three steps: the `.part` file is opened, written, and renamed. A writer
is a transaction of `session_scope` around any number of puts; Abort is an
exception or a death and leaves the files as they are. The export is
`_write_log_csv`, `_dump_sqlite`, the generator `iter_blobs` (the directories
listed once, each directory's files when it comes to it), `_add_stream` per file
and Publish, with writers between any two of them. `rows` are hashes that
artifacts and log entries name: one fact, as one transaction writes both.
`_artifact_hashes` and VerifyBlob are the `verify` command. `main` and `rows`, and of
the package at its destination what it names and holds whole, are a ContentStore.

### PageCapture

`Capturer` is single-threaded: `step` is where its current `capture_url` stands.
The proxy has a thread per connection (`_accept`, one lookup that passes or is
refused, `_dial`, EndThread), which outlives its page and even its proxy.
`blocked` are the lists of the proxies by the number of each refusal;
`refusals` is history and says of each which page opened the connection and
which capture was then in hand. A page is in hand until its list is read, and the
close of its context belongs to that step. Which URL passes `_check_url` and what a name
resolves to are choices.

## 3. Runs

| Run | Shows |
|---|---|
| `evidence_log` | Two writers and a reader, up to 4 entries of 2 contents. The committed chain is linear (`ChainIsLinear`), checkpoints name committed entries (`CheckpointsAnchored`), no verification raises a false alarm or miscounts (`VerdictsTrue`), and the whole implements `AppendOnlyLog`: nothing committed changes and transactions are atomic |
| `chain_damage` | Up to 4 entries, 2 damages and 1 timestamp. `verify` accepts exactly the unbroken chains and names the first break (`FullVerifyExact`); a token is contradicted exactly when the table no longer has the entry it was made for, a chain written anew included (`StampsExact`); the daily check never accepts a lost or changed marked head or a hole under it (`MarkedHeadKept`), and misses only damage at or below its checkpoint (`OnlyOldDamageMissed`) |
| `chain_damage_front` | Finding 1 |
| `archive_poll` | Two polls, two snapshots, three attempts, one crash. The polls implement `Backlog` (`ImplementsBacklog`: no attempt lost, no answer reopened), give up at the limit (`StatusMatchesAttempts`), keep the backoff up to the overlap (`AttemptsPaced`), and answer every request (`EveryRequestAnswered`) |
| `crawl_capture` | Two crawls, three mentions (one on a host that is down), budget 2, two attempts, two troubles. State and evidence agree through every crash (`EvidenceMatchesState`), captures and attempts are bounded by the overlap (`CapturesBounded`, `GivenUpAtLimit`), decisions are logged (`DecisionsLogged`), each crash or lost answer leaves at most one save at the archive that no row knows (`UnknownSavesBounded`), and what is owed is decided in the end (`OwedIsTaken`) |
| `crawl_capture_starved` | Finding 2 |
| `mentions` | Two crawls, three spellings stored, a classifier that reads one mention at a time, one note. `OneRowPerPage` (with the comparison over all spellings), `TermsKept`, `NotesKept` |
| `post_ingest` | A hook caller, a sync with the capture on and one with it off, a backfill and `archive-history` over two publications, one failure, one attached file. `NothingRepeated`, `NothingSkippedWithoutFailure`, and `FeedEvidenced`: by the scheduled sync alone, whatever the feed lists gets evidence in the end, unless the watermark has passed it |
| `post_ingest_feed` | Finding 3 |
| `daily_digest` | Three days, three rows, two digests at one time, one killed process. Once a written digest has read after a row ended, the row is listed, unless a digest that began after it moved the window past it first, or it is older than all the first one looks back to (`LostOnlyWhenPassedBy`); a whole file has all that any digest wrote into it, unless that one was made before its date, read before a digest of an earlier day ended, or was written over by one that had read earlier (`FilesKeepTheirRows`) |
| `export_package` | Two writers, two blobs in two directories, an export and a `verify`. `RowsHaveFiles`, `PackageComplete`, and `ImplementsContentStore`: a blob appears whole and stays (`FilesNeverMutated` is a consequence), what rows name is kept, a package lacks nothing the one before it had |
| `page_capture` | Two captures, two connections, three addresses of which two are public, two troubles, two refusals. `DialledAsChecked`, `RefusalsReported` |

**Bounds, and why they are enough.** Two processes of a kind are the least at
which a work list is stale or a lock contended; a third adds no new pair, and
the properties that count overlap (`AttemptsPaced`, `CapturesBounded`) name the
number of processes. Four entries hold a checkpoint in the middle with entries
below and above it. Two damages combine any damage with a cut tail, the case in
which seqs are reused; one timestamp suffices, since tokens are checked one by
one. One sync of `post_ingest` runs with `--no-capture`, so that its rows are for the
others to resume; the captures of the hook, the other sync and the backfill overlap.
A classifier that sees one mention (`limit`) leaves an older one out. Three attempts with waits 1 and 2 have a first, a middle
and a last attempt, and `Horizon` reaches past the last wait, so every attempt
becomes due. In `crawl_capture` the budget (2) exceeds the mentions on dead
hosts (1) by one, and is below the number of mentions, so it cuts lists off. Three
rows hold a run that spans a digest, two digests of one date side by side or one
after the other with something to report, and one for a day gone by or to come
between; the dates, three days, have one before and one after another. What takes
more digests than that is covered by the theorems, which bound nothing.
Two blobs in two
directories are the least for which a directory is listed before a file appears
in another. Two captures and two connections let a thread of the first page
refuse during the second. A bound is either a constant whose comment says so
(MaxEntries, MaxDamage, Horizon, Total, LastDay, MaxRows, MaxKills, MaxAtOnce, MaxCaptures,
MaxTroubles, MaxRefusals, MaxCrashes, MaxFailures, MaxAttached, MaxStamps, MaxHits,
MaxNotes, and MaxBatch, the hits of one run) or one of the
program's own settings made small.

**Deadlock** is checked where the system cannot stop (EvidenceLog, CrawlCapture,
Mentions, PostIngest, ExportPackage). ArchivePoll stops when every snapshot is answered and
the clock is at its horizon; ChainDamage, DailyDigest and PageCapture stop when
their bounds are used up.

**Fairness.** Weak fairness of each process's own steps, and of nothing else.
The scheduler starts crawls and polls again for ever (`schedule.py` JOBS), which
is fairness of a process's first step. A started process goes on because every
network call has a timeout (httpx 30 s, Playwright's page timeouts) and a write
waits at most `busy_timeout`. Losing that race is one of the failures
(Crash, Fail), whose number is bounded: without a bound a machine that kills
every process keeps anything from happening. Of the processes of PostIngest only the
syncs that capture are fair: the scheduled crawl runs them where the feed is
configured. Nothing in the code calls the hook, a `--no-capture` sync or a backfill
again, so they may stop for ever, and a post that the feed does not list may stay
without evidence.
No property assumes that the archive, a host or a page ever answers well:
choices between outcomes carry no fairness. EvidenceLog, ChainDamage, Mentions,
DailyDigest, ExportPackage and PageCapture have no fairness and no liveness property.

## 4. Findings

1. `_anchored` (`core/evidence_log.py:150`) takes the lowest seq left in the table
   as the start of the log, so the daily check accepts a log whose **oldest**
   entries are gone, the case its docstring says it is there for. The full walk of
   `verify` does notice.
2. `_pending_captures` (`ingest/crawler.py:245`) always takes the oldest: as many
   old mentions on hosts that never answer for robots.txt as the budget **starve**
   everything newer.
3. The feed watermark (`ingest/publications_sync.py:39`) **passes a failed item** as
   soon as a newer one is recorded.

Other behaviour of the code that the models contain, and that no line of the
repository contradicts, or that a run counts instead of forbidding:

- A crawl decides from a stale list (`ingest/crawler.py:260`) and moves a mention
  that another crawl has captured: it is captured twice, or ends as failed or
  skipped although its evidence is stored.
- `submit_archive` says in its docstring that it records the request first
  (`ingest/capture_pipeline.py:53`); the page is submitted inside the transaction, so
  a crash between the two leaves a save nobody knows of. `UnknownSavesBounded`
  allows one for each crash or lost answer.
- The classifier reads the newest `new` mentions and then leaves out the tagged
  ones (`digest/classification.py:44`): an older one it missed is never tagged.
- `normalize_url` takes one `www.` off and leaves a path of nothing but slashes
  empty (`core/urlnorm.py:35-41`): normalised twice, such a URL changes again. A
  stored URL is normalised once.
- Every crawl asks its sources for the last two days (`ingest/crawler.py:157`): a
  longer time without crawls, or without an answer of a source, is never searched.
- The history of a post is looked up by the import that records it only
  (`ingest/backfill.py:72`): when the lookup fails, a second import meets a
  duplicate, and `archive-history` alone makes up for it.
- A poll writes the provider_ref of its stale work list
  (`ingest/archive_poll.py:120`) and so erases a job id another poll has just stored.
- `_ingest_post` (`ingest/hook.py:127`) counts any artifact of the post, an attached
  file too: a post whose capture failed is then refused as a duplicate.
- A post the hook recorded whose capture failed, or was off, is captured when it is
  ingested again and only then (`ingest/hook.py:132`): by a caller who repeats the
  call, or by the sync while the feed lists it. `FeedEvidenced` states the second.
- A feed item without `published_at` is stored with the time of its ingest
  (`ingest/hook.py:144`) and can move the watermark past items still to come.
- A digest that failed, or was for another date, moves the window of the next
  (`digest/builder.py:73`), and a run that began before a digest and ended after it
  may be listed nowhere (`digest/builder.py:84`). These are the exceptions in
  `LostOnlyWhenPassedBy`.
- The file of a date is emptied and then written (`digest/builder.py:55`): a kill or
  a full disk in between leaves it without its rows until that date is digested
  again, and two digests of one date at once can write over each other. A digest
  made before its date has come is narrowed when it is made again, by the digests of
  the days between.
- A killed run is reported by `doctor` only until its job's next run
  (`doctor.py:252`).
- `iter_blobs` (`core/store.py:50`) lists `.part` files: one that is renamed before
  it is opened aborts the export, another is shipped. Two exports to one
  destination would share a `.partial` (`export.py:156`, one at a time is modelled).
- A connection an earlier page left behind is reported as the next page's
  (`capture/pinning_proxy.py:124`, `capture/screenshot.py:198`).

## 5. Proofs

**EvidenceLogProofs**, for every set of writers, readers and payloads and every
bound. The operator part: a table that is `Linear` (seqs 1..n, each entry chained
to the one before, hashes correct) stays so when `append` adds to it
(`LinearAppend`), `verify` accepts it and counts it (`VerifyLinear`), and so does
`verify_since_checkpoint` from any set of anchored checkpoints
(`RoutineVerifyLinear`, where the entries below the checkpoint have to be
counted without being visited). The state part: `ChainIsLinear` is not inductive,
because what is committed comes out of a transaction, so `DatabaseInv` says of each
writer that it is inside a transaction exactly while it holds the lock, that its
view is sound and extends the committed one, that the head it has read is still
the head of that view, and after the digest's step which two sets of checkpoints
it can hold; of each reader that its snapshot is sound and its verdict right.
One lemma per action shows it preserved. From it follow type correctness,
`ChainNeverForks`, `CheckpointsAreAnchored`, `VerificationTellsTheTruth`
(`VerdictsTrue`), `CommittedIsForever` (`AppendOnly`), and
`TransactionsAreAtomic`: the refinement of AppendOnlyLog, in which only Commit is
not a stutter and is AppendBatch or Attest.

**ArchivePollProofs**, for every set of snapshots and polls, every BACKOFF and
MAX_ATTEMPTS. `PollInv` adds to the types that a pending row is below the limit, a
failed one exactly at it, and the count equals the log's. `PollInvariant`,
`TypeCorrect`, `GivenUpAtMaxAttempts`, `EveryAttemptCounted`, `AnswersAreFinal`, and
`PollsWorkOffABacklog`: the refinement of Backlog, in which only `_record_attempt` is
not a stutter; `RecordIsTry` shows that it is a Try even though it writes what was
decided on a stale work list, because it reads the row again.

The *pace* needs more, since a stale work list lets an attempt through too early:
`PaceBound` counts the attempts made together with the polls that still have the
snapshot on their list or in hand (`Holders`), each of which can add one, and
`OncePerPoll` says that a poll acts on a snapshot once. Only a start while the
snapshot is due adds a holder, and then `DueAllows` gives an attempt back, because
the attempts before it were due earlier (`DueInOrder`, from `WaitedUnfolds` and
`WaitedGrows`: the recursion over BACKOFF has a solution, which never falls).
`TheBackoffIsKept` is `AttemptsPaced`.

**ExportPackageProofs**, for every set of writers, blobs and directories.
`RowsHaveFiles` is not inductive, since rows come out of transactions and files
out of puts; `StoreInv` adds that only the holder of the write lock is inside a
put, that what it is putting has no file yet, and that what its transaction has
recorded has one. `PackInv` adds that a blob the copied database names is, once the
directories are listed, in a directory still to be listed, or listed, or packed
whole. `CommittedRowsHaveFiles`, `FilesAreForever`, `PackagesAreComplete`,
`VerifyReportsNothing`, `TypeCorrect`. `EvidenceIsAContentStore` is the refinement
of ContentStore: the rename is a Put (its writer is the only one inside a put, so the
blob had no file), the commit a Record, Publish a Ship, and everything else a
stutter. That a package has all that the one before it had needs `LaterIsMore` (what
the last package names is committed, and an export on its way has read all of it)
and that what was packed whole under its hash is so still (`PackedIsKept`).

**CrawlCaptureProofs**, for every number of crawls and mentions, every budget and
limit. That a mention is captured at most once by each crawl is not inductive: how
often it can still be captured depends on who read it before it was decided. Once
it is decided no list takes it up again, so `OverlapInv` bounds what was done to it
*plus* the crawls that still hold it. `TxnInv` ties the open transaction to what it
has heard from the archive, and the account of unknown saves to it.
`EvidenceAgrees`, `DecisionsAreLogged`, `CapturesAreBounded`, `GivenUpAtTheLimit`,
`UnknownSavesAreBounded`, `TypeCorrect`.

**PostIngestProofs**, for every number of hooks, syncs, backfills and publications,
whichever run without captures. The watermark looks at recorded items only, and
will look at those in hand once they are: `FeedInv` therefore asks of every item a
sync has *fetched* that nothing older is left behind, `HistoryInv` of every imported
post that its history is known or being asked for, and `OverlapInv` counts captures
with those under way. `NothingIsSkipped`, `NothingIsRepeated`, `TypeCorrect`.

**ChainDamageProofs**, for every set of contents, every length, any number of
damages and timestamps. What no damage undoes (`Table`): rows are in the order of
their seqs, and a row's seq is the number of contents its hash commits to. On any
such table `VerifyExact` says what `verify` answers, which needs that a walk that
starts at the first row it finds still has to start at 1, and `StampDecides` what a
token tells. The state part keeps tables, checkpoints and tokens in that shape, and
that no checkpoint is newer than the head the digest last attested.
`FullVerifyIsExact`, `StampsAreExact`, `MarkedHeadIsKept`, `OnlyOldDamageIsMissed`
(with `SeqsSpread`: between two rows lie at least as many seqs as rows, which is how
a count betrays a hole), `TypeCorrect`.

**DigestProofs**, its first part, for any number of days, rows, kills and digests at
one time, for any dates. Nothing is settled when a digest reads: the digest its
window should begin with may be running still. `LostOnlyWhenPassedBy` and
`FilesKeepTheirRows` are not inductive, because they compare readings taken at
different times. The invariant makes each one a fact about the rows as they are
*now*: a `Reading` is exactly what had ended before its stamp and was in the window
that the digests ended before that stamp made (`DoneThen`, `FoundThen`), which stays
true since whatever ends later gets a later stamp (`ReadingStays`). `FileInv` says
that a whole file is that of the last digest written for its date. Two readings for
one date then differ only by the digests that ended in between, which gives
`FilesKeepAllRows` (`FilesKeepTheirRows`); and of the readings that came after a
row's end, one for the earliest date tells which digest passed the row by, which
gives `NothingElseIsLost` (`LostOnlyWhenPassedBy`). `TypeCorrect`.

**DigestProofs**, its second part: URL normalisation and the mentions table, for
every set of spellings, hits, notes and statuses, any number of crawls and any
length of a run. `SpellingsOfOnePage` says of *all* URLs of the model that
`normalize_url` makes two of them one exactly when they are of one page. The hard
half is the query: the kept parameters are compared in sorted order there and as a
bag in `SamePage`. A sorted sequence counts its values (`UpToCounts`,
`InOrderBounds`: as many parameters are at most v as entries are), so that two
sorted ones are equal exactly when every value occurs equally often
(`SortedAlike`). The state part is `MentionsInv`: the table, the log and the hits
stored so far are `Sound` (no two rows of one URL, every stored hit has its row, a
row's terms are those of all hits of its page, the log's last word on it has the
same terms and status, and the row's notes are the log's with at most one tag put
somewhere among them), and a classifier holds at most `limit` mentions. What a run
computes from any list of hits is a recursive function, and no induction theorem
can be used for it: `StoreHitsSound` shows that the function exists and that
soundness, which holds before the first hit, cannot fail at a first hit. Tags are
removed and put among notes by `TagRemoved` and `TagAppended`; that a work list is
no longer than `limit` (`ListLimited`) looks at its oldest mention. `MentionsTyped`,
`OneRowForAPage` (`OneRowPerPage`), `TermsAreKept`, `NotesAreKept`.

**PageCaptureProofs**, for any number of connections, captures, lost browsers and
refusals. A page is given what was added to its proxy's list since it began;
`RefusalInv` says that the list above the mark is what was refused while this page
was in hand and holds all of the page's own, which is so because the proxy is not
replaced from the mark to the end (`BrowserInv`) and every connection of the page
goes through it (`ThreadInv`). `DialsAreChecked`, `RefusalsAreReported`,
`TypeCorrect`.

The invariants of the modules from CrawlCapture on, Mentions' and the pace's among
them, were checked by TLC on the bounds of the module's run before they were proved,
and so was the refinement of ContentStore. The arguments by a least element
(`FirstBreak`, the largest checkpoint, the oldest pending mention, the sums of the
backoff, the first hit of a run) go through the well-foundedness of strict inclusion
on finite sets, since the induction theorems of the library, which take the statement
as an operator, cannot be used.

**Assumptions** are the named ASSUMEs of the modules (bounds are naturals, limits
are positive, processes are finitely many where they are counted, BACKOFF is a
sequence of naturals, sentinels are not members) and what the models take from
outside: collision-free hashes, SQLite's isolation of one writer and of WAL
snapshots, its rollback of interrupted transactions.

**Only model-checked:** the liveness properties (`EveryRequestAnswered`,
`OwedIsTaken`, `FeedEvidenced`), since fairness and ENABLED are beyond TLAPS. Every
other property of a passing run is also a theorem. That a model's letters, sentinels
and choices stand for the code's data is what the comments of the modules argue, and
no tool checks it.

## 6. Not modelled, and why

- **Sources, page contents, the proxy's handshake, timestamp client, the model's
  client** (`sources/`, `capture/timestamp.py`, `core/llm.py`): I/O and parsing of
  external answers. Their effect on shared state is an outcome (hits, a page, a
  token, a tag, an exception) that the models choose freely.
- **`doctor` and `report`**: read-only sessions that count and format; nothing reads
  what they print. Their check of the chain is EvidenceLog's RoutineVerify.
- **URL guard's policy** (an external package), **settings, projects, logging, ids,
  clock**: conversions and wiring with no state of their own. `RateLimiter` waits
  inside one process and decides nothing.
- **The command line** apart from the commands named above: each calls one
  operation that is modelled, and prints.
- **Alembic migrations**: run while nothing else does.
- **Run statistics and log lines** of modelled parts.

## 7. Plan

The order is by what evidence depends on.

1. *Done:* HashChain, AppendOnlyLog, EvidenceLog, ChainDamage, ArchivePoll, Backlog,
   UrlNorm, Mentions, CrawlCapture, PostIngest, DailyDigest, ExportPackage,
   ContentStore, PageCapture; proofs of all of their safety and action properties, and
   of the refinements of the three abstract specifications.
2. Left to model: what `doctor` concludes from the last run of each job.
