----------------------------- MODULE PostIngest ------------------------------
(***************************************************************************)
(* The owner's own posts: ingest/hook.py, and ingest/publications_sync.py  *)
(* and ingest/backfill.py which feed it from the publisher's JSON feed and *)
(* from a CSV file.                                                        *)
(*                                                                         *)
(* One ingest writes the post row in one transaction, loads the page with  *)
(* none open, and writes the artifacts and the archive request in another. *)
(* A caller of the hook asks for one URL; a sync asks for every item the   *)
(* feed returns, starting at the newest publication it has recorded; a     *)
(* backfill for every row of its file, and after each row it imports for   *)
(* the snapshot the archive held of the page already.                      *)
(* Everything runs beside everything else and can fail at each step.       *)
(*                                                                         *)
(* Publications are named by their place in the order of published_at.     *)
(***************************************************************************)
EXTENDS Integers, FiniteSets, FiniteSetsExt

CONSTANTS Hooks, Syncs, Backfills,
          CaptureOff,    \* the ones that run with --no-capture
          Held,          \* the publications the archive held a snapshot of
          NoPost,        \* the process is not inside an ingest
          Total,         \* bound: publications
          MaxFailures,   \* bound: ingests that raise and processes that are killed
          MaxAttached    \* bound: files the owner attaches

ASSUME DisjointAssumption == /\ (Syncs \cup Backfills) \cap Hooks = {}
                             /\ Syncs \cap Backfills = {}
ASSUME IngestersFinite    == IsFiniteSet(Hooks \cup Syncs \cup Backfills)
ASSUME CaptureAssumption  == CaptureOff \subseteq Hooks \cup Syncs \cup Backfills
ASSUME TotalAssumption    == Total \in Nat
ASSUME HeldAssumption     == Held \subseteq 1..Total
ASSUME NoPostAssumption   == NoPost \notin 1..Total
ASSUME FailuresAssumption == MaxFailures \in Nat
ASSUME AttachedAssumption == MaxAttached \in Nat

Listers      == Syncs \cup Backfills
Ingesters    == Hooks \cup Listers
Publications == 1..Total

VARIABLES
    published,  \* publications that are out so far: 1..published
    posts,      \* posts: the publications with a row
    fromFeed,   \* those whose source_path is "feed"
    captures,   \* how often each post's artifacts were stored
    attached,   \* files attached to each post
    fromFile,   \* posts whose source_path is "backfill"
    historical, \* how often the snapshot the archive held of a page is recorded
    todo,       \* feed items or file rows each process has still to ingest
    current,    \* the post each process has recorded and is capturing
    lookup,     \* the post each backfill has imported and asks the archive about
    failures

history == << fromFile, historical >>
rows    == << posts, fromFeed, captures, attached, history >>
vars    == << published, rows, todo, current, lookup, failures >>

Init ==
    /\ published = 0
    /\ posts = {}
    /\ fromFeed = {}
    /\ captures = [u \in Publications |-> 0]
    /\ attached = [u \in Publications |-> 0]
    /\ fromFile = {}
    /\ historical = [u \in Held |-> 0]
    /\ todo = [p \in Ingesters |-> {}]
    /\ lookup = [p \in Ingesters |-> NoPost]
    /\ current = [p \in Ingesters |-> NoPost]
    /\ failures = 0

Publish ==
    /\ published < Total
    /\ published' = published + 1
    /\ UNCHANGED << rows, todo, current, lookup, failures >>

-----------------------------------------------------------------------------
(***************************************************************************)
(* One ingest.                                                             *)
(***************************************************************************)

Between(p) == current[p] = NoPost /\ lookup[p] = NoPost
Idle(p)    == Between(p) /\ todo[p] = {}

\* What a process may ingest next: any publication for a caller of the hook,
\* the next item of its list for a sync or a backfill.
Asked(p) == IF p \in Listers THEN todo[p] ELSE 1..published

Done(p, u) == todo' = [todo EXCEPT ![p] = @ \ {u}]

\* A backfill goes on with the history of what it has imported.
Imported(p, u) == lookup' = IF p \in Backfills THEN [lookup EXCEPT ![p] = u] ELSE lookup

RowIsEnough(u) == TRUE
\* Any artifact of the post counts, however it came there.
HasEvidence(u) == captures[u] + attached[u] > 0

CaptureFirst(p) ==
    /\ Between(p)
    /\ \E u \in Asked(p) \ posts :
          /\ current' = [current EXCEPT ![p] = u]
          /\ Done(p, u)
    /\ UNCHANGED << published, rows, lookup, failures >>

\* The first transaction: the post row and its post.created entry ...
RecordPost(p) ==
    /\ Between(p)
    /\ \E u \in Asked(p) :
          /\ u \notin posts
          /\ posts' = posts \cup {u}
          /\ fromFeed' = IF p \in Syncs THEN fromFeed \cup {u} ELSE fromFeed
          /\ fromFile' = IF p \in Backfills THEN fromFile \cup {u} ELSE fromFile
          /\ IF p \in CaptureOff THEN Imported(p, u) /\ UNCHANGED current
                                  ELSE current' = [current EXCEPT ![p] = u] /\ UNCHANGED lookup
          /\ Done(p, u)
    /\ UNCHANGED << published, captures, attached, historical, failures >>

\* ... or, for a row whose ingest was interrupted, nothing but going on ...
Resume(p) ==
    /\ Between(p)
    /\ p \notin CaptureOff
    /\ \E u \in Asked(p) \cap posts :
          /\ ~ HasEvidence(u)
          /\ current' = [current EXCEPT ![p] = u]
          /\ Done(p, u)
    /\ UNCHANGED << published, rows, lookup, failures >>

\* ... or DuplicatePostError, after which the next item of the list is taken.
Refuse(p) ==
    /\ Between(p)
    /\ \E u \in todo[p] \cap posts :
          /\ HasEvidence(u) \/ p \in CaptureOff
          /\ Done(p, u)
    /\ UNCHANGED << published, rows, current, lookup, failures >>

\* The page is loaded; the second transaction stores what it showed.
_capture_for_post(p) ==
    /\ current[p] # NoPost
    /\ captures' = [captures EXCEPT ![current[p]] = @ + 1]
    /\ current' = [current EXCEPT ![p] = NoPost]
    /\ Imported(p, current[p])
    /\ UNCHANGED << published, posts, fromFeed, attached, history, todo, failures >>

\* The capture or a transaction raises.  A sync goes on with its next item.
Fail(p) ==
    /\ p \notin Backfills
    /\ failures < MaxFailures
    /\ failures' = failures + 1
    /\ \/ /\ current[p] # NoPost
          /\ current' = [current EXCEPT ![p] = NoPost]
          /\ UNCHANGED todo
       \/ /\ current[p] = NoPost
          /\ \E u \in todo[p] : Done(p, u)
          /\ UNCHANGED current
    /\ UNCHANGED << published, rows, lookup >>

\* The process is killed, or a row of a backfill raises, and the rest of the
\* list is forgotten.
Kill(p) ==
    /\ ~ Idle(p)
    /\ failures < MaxFailures
    /\ failures' = failures + 1
    /\ current' = [current EXCEPT ![p] = NoPost]
    /\ todo' = [todo EXCEPT ![p] = {}]
    /\ lookup' = [lookup EXCEPT ![p] = NoPost]
    /\ UNCHANGED << published, rows >>

-----------------------------------------------------------------------------
(***************************************************************************)
(* The snapshot the archive held of a post before it was asked.            *)
(***************************************************************************)

NoneKnown(u)     == FALSE
KnownSnapshot(u) == historical[u] > 0

\* The archive answers, and what the post has no row for is recorded.  The known
\* rows are read under the write lock.
record_history(answered) ==
    historical' = [u \in Held |->
        IF u \in answered /\ ~ KnownSnapshot(u) THEN historical[u] + 1 ELSE historical[u]]

\* The archive cannot be reached: the run is partial and goes on.
LookupFailed == failures < MaxFailures /\ failures' = failures + 1 /\ UNCHANGED historical

RecordHistory(p) ==
    /\ lookup[p] # NoPost
    /\ lookup' = [lookup EXCEPT ![p] = NoPost]
    /\ \/ record_history({lookup[p]}) /\ UNCHANGED failures
       \/ LookupFailed
    /\ UNCHANGED << published, posts, fromFeed, captures, attached, fromFile, todo, current >>

\* The owner asks about all posts, or about one: one transaction over every
\* answer, and the lookups that fail are left out.
archive_history ==
    /\ \E answered \in SUBSET posts : record_history(answered)
    /\ UNCHANGED << published, posts, fromFeed, captures, attached, fromFile,
                    todo, current, lookup, failures >>

-----------------------------------------------------------------------------
(***************************************************************************)
(* The feed and the attached files.                                        *)
(***************************************************************************)

Newest(S)    == IF S = {} THEN 0 ELSE Max(S)
_last_of_any == Newest(posts)
_last_seen   == Newest(fromFeed)

\* The feed returns what was published since the newest publication it has
\* already delivered, that one included.
fetch_feed(p) ==
    /\ Idle(p)
    /\ todo' = [todo EXCEPT ![p] = {u \in 1..published : u >= _last_seen}]
    /\ UNCHANGED << published, rows, current, lookup, failures >>

\* A backfill reads its rows, any that are out already.
run_backfill(p) ==
    /\ Idle(p)
    /\ \E rowsOfFile \in SUBSET (1..published) : todo' = [todo EXCEPT ![p] = rowsOfFile]
    /\ UNCHANGED << published, rows, current, lookup, failures >>

\* The owner attaches a file to a recorded post.
attach_file ==
    /\ MapThenSumSet(LAMBDA u : attached[u], Publications) < MaxAttached
    /\ \E u \in posts : attached' = [attached EXCEPT ![u] = @ + 1]
    /\ UNCHANGED << published, posts, fromFeed, captures, history, todo, current, lookup,
                    failures >>

ingest_post(p) == RecordPost(p) \/ Resume(p) \/ Refuse(p) \/ _capture_for_post(p)

Sync(p)     == ingest_post(p) \/ fetch_feed(p)
Backfill(p) == ingest_post(p) \/ run_backfill(p) \/ RecordHistory(p)

Next ==
    \/ Publish
    \/ attach_file
    \/ archive_history
    \/ \E p \in Hooks : ingest_post(p)
    \/ \E p \in Syncs : Sync(p)
    \/ \E p \in Backfills : Backfill(p)
    \/ \E p \in Ingesters : Fail(p) \/ Kill(p)

\* The scheduled crawl syncs with the capture on, every day, and a page load has a
\* timeout.  Nobody has to call the hook, a sync of another kind or a backfill.
Fairness == \A p \in Syncs \ CaptureOff : WF_vars(Sync(p))

Spec == Init /\ [][Next]_vars /\ Fairness

-----------------------------------------------------------------------------
(***************************************************************************)
(* Properties.                                                             *)
(***************************************************************************)

\* Every variable has its type.
TypeOK ==
    /\ published \in 0..Total
    /\ posts \subseteq 1..published
    /\ fromFeed \subseteq posts
    /\ captures \in [Publications -> Nat]
    /\ attached \in [Publications -> Nat]
    /\ todo \in [Ingesters -> SUBSET (1..published)]
    /\ fromFile \subseteq posts \ fromFeed
    /\ historical \in [Held -> Nat]
    /\ current \in [Ingesters -> posts \cup {NoPost}]
    /\ lookup \in [Ingesters -> posts \cup {NoPost}]
    /\ failures \in 0..MaxFailures

\* No call repeats what another has finished: only ingests of one post that
\* overlap can capture it more than once, and whatever asks the archive about it,
\* how often and beside what, the snapshot it held is recorded once.
NothingRepeated ==
    \A u \in Publications : /\ captures[u] <= Cardinality(Ingesters \ CaptureOff)
                            /\ u \in Held => historical[u] <= 1

InHand(u)  == \E p \in Syncs : u \in todo[p]
AskedOf(u) == \E p \in Backfills : u \in {current[p], lookup[p]}

\* Unless something has failed: the watermark the next sync starts from never
\* jumps over a publication, whatever the hook records in between, and a post a
\* backfill has recorded has its history, or that backfill still has it in hand.
NothingSkippedWithoutFailure ==
    failures = 0 =>
        /\ \A u \in 1..published : u < _last_seen => u \in posts \/ InHand(u)
        /\ \A u \in fromFile \cap Held : historical[u] > 0 \/ AskedOf(u)

\* What the feed lists has evidence in the end, however often the ingests of it have
\* failed and whoever recorded it first, with the capture on or off: the scheduled
\* sync captures it, or the owner attaches a file.  Only one that is older than the
\* newest publication a sync has recorded may be left without.
FeedEvidenced ==
    \A u \in Publications :
        u <= published ~> captures[u] + attached[u] > 0 \/ u < _last_seen

\* "Record every new publication with a public URL": what the feed lists is
\* recorded in the end.
PublicationsRecorded == \A u \in Publications : u <= published ~> u \in posts
=============================================================================
