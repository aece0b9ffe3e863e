------------------------------ MODULE Mentions ------------------------------
(***************************************************************************)
(* The rows of the mentions table apart from their captures: the hits of a *)
(* crawl merged into them (ingest/crawler.py), the owner's status and      *)
(* notes (`mentions set-status` of cli.py), and the advisory tags of       *)
(* digest/classification.py, which `crawl` runs when it has stored and     *)
(* captured.                                                               *)
(*                                                                         *)
(* The classifier reads a list, asks a model about each mention with no    *)
(* transaction open, and writes its tags minutes later; crawls overlap,    *)
(* and the owner writes at any time.                                       *)
(***************************************************************************)
EXTENDS UrlNorm

CONSTANTS Crawls,
          Spellings,    \* URLs as sources write them
          Hits,         \* what the sources yield: [url, matched_terms]
          Statuses,     \* new | reviewed | actioned | ignored
          Notes,        \* what the owner writes
          TAG,          \* an "[auto-tag:...]" line
          limit,        \* classify_new_mentions looks at so many
          MaxBatch,     \* bound: hits of one run
          MaxHits,      \* bound: different hits ever stored
          MaxNotes      \* bound: notes the owner ever gives

ASSUME SpellingsAssumption == Spellings \subseteq Urls
ASSUME HitsAssumption      == \A h \in Hits : h.url \in Spellings
ASSUME StatusesAssumption  == "new" \in Statuses
ASSUME TagAssumption       == TAG \notin Notes
ASSUME LimitAssumption     == limit \in Nat
ASSUME BatchAssumption     == MaxBatch \in Nat

VARIABLES
    mentions,   \* the table, in the order of discovered_at
    logged,     \* the evidence log's last word on each mention
    seen,       \* history: the hits that finished crawls have stored
    phase,      \* where each crawl stands
    pending     \* the mentions each classifier has read and is asking about

mentionsVars == << mentions, logged, seen, phase, pending >>

MentionsInit ==
    /\ mentions = << >>
    /\ logged = << >>
    /\ seen = {}
    /\ phase = [c \in Crawls |-> "idle"]
    /\ pending = [c \in Crawls |-> {}]

-----------------------------------------------------------------------------
(* Storing the hits of a run. *)

Known(rows, url) == {i \in DOMAIN rows : rows[i].url = url}

NewMention(db, url, hit) ==
    [rows |-> Append(db.rows, [url |-> url, matched_terms |-> hit.matched_terms,
                               status |-> "new", notes |-> << >>]),
     log  |-> Append(db.log, [matched_terms |-> hit.matched_terms,
                              status |-> "new", notes |-> << >>])]

LastTerms(row, hit)   == hit.matched_terms
MergedTerms(row, hit) == row.matched_terms \cup hit.matched_terms

\* A known page gets the terms of the hit, and the log is told when they grow.
UpdateTerms(db, i, hit) ==
    LET merged == MergedTerms(db.rows[i], hit)
    IN  IF merged = db.rows[i].matched_terms
        THEN db
        ELSE [rows |-> [db.rows EXCEPT ![i].matched_terms = merged],
              log  |-> [db.log EXCEPT ![i].matched_terms = merged]]

StoreHit(db, hit) ==
    LET url   == normalize_url(hit.url)
        known == Known(db.rows, url)
    IN  IF known = {} THEN NewMention(db, url, hit)
                      ELSE UpdateTerms(db, CHOOSE i \in known : TRUE, hit)

\* All hits of a run, in the order the sources gave them.
StoreHits(db, pairs) ==
    LET after[n \in 0..Len(pairs)] ==
            IF n = 0 THEN db ELSE StoreHit(after[n - 1], pairs[n])
    IN  after[Len(pairs)]

\* One transaction for the run.
_dedupe_and_store(c) ==
    /\ phase[c] = "idle"
    /\ \E pairs \in UNION {[1..n -> Hits] : n \in 0..MaxBatch} :
          /\ Cardinality(seen \cup Range(pairs)) <= MaxHits
          /\ LET db == StoreHits([rows |-> mentions, log |-> logged], pairs)
             IN  mentions' = db.rows /\ logged' = db.log
          /\ seen' = seen \cup Range(pairs)
    /\ phase' = [phase EXCEPT ![c] = "stored"]
    /\ UNCHANGED pending

-----------------------------------------------------------------------------
(* Tagging. *)

Tagged(i) == TAG \in Range(mentions[i].notes)

\* The newest mentions of status "new" are read, and then the tagged ones are
\* left out.
IsNew(i) == mentions[i].status = "new"
OneTooMany(i) == Cardinality({j \in DOMAIN mentions : j > i /\ IsNew(j)}) <= limit
AmongNewest(i) == Cardinality({j \in DOMAIN mentions : j > i /\ IsNew(j)}) < limit

ReadNew(c) ==
    /\ phase[c] = "stored"
    /\ pending' = [pending EXCEPT ![c] =
           {i \in DOMAIN mentions : IsNew(i) /\ AmongNewest(i) /\ ~ Tagged(i)}]
    /\ phase' = [phase EXCEPT ![c] = IF pending'[c] = {} THEN "idle" ELSE "asking"]
    /\ UNCHANGED << mentions, logged, seen >>

Anyway(i)        == TRUE
StillUntagged(i) == ~ Tagged(i)

\* The answers that came, in one transaction: each row is read again under the
\* write lock, and a tag goes after whatever notes it has by now.
WriteTags(c) ==
    /\ phase[c] = "asking"
    /\ \E tags \in SUBSET pending[c] :
          mentions' = [i \in DOMAIN mentions |->
              IF i \in tags /\ StillUntagged(i)
              THEN [mentions[i] EXCEPT !.notes = Append(@, TAG)]
              ELSE mentions[i]]
    /\ pending' = [pending EXCEPT ![c] = {}]
    /\ phase' = [phase EXCEPT ![c] = "idle"]
    /\ UNCHANGED << logged, seen >>

\* The crawl is killed, classification is not enabled, or the database stays
\* locked: what the classifier has heard is gone.
Stop(c) ==
    /\ phase[c] # "idle"
    /\ phase' = [phase EXCEPT ![c] = "idle"]
    /\ pending' = [pending EXCEPT ![c] = {}]
    /\ UNCHANGED << mentions, logged, seen >>

-----------------------------------------------------------------------------
(* The owner. *)

NotesGiven == FoldLeft(LAMBDA n, entry : n + Len(entry.notes), 0, logged)

set_status(i, status, note) ==
    /\ NotesGiven + Len(note) <= MaxNotes
    /\ mentions' = [mentions EXCEPT ![i].status = status, ![i].notes = @ \o note]
    /\ logged' = [logged EXCEPT ![i].status = status, ![i].notes = @ \o note]
    /\ UNCHANGED << seen, phase, pending >>

Crawl(c) == _dedupe_and_store(c) \/ ReadNew(c) \/ WriteTags(c) \/ Stop(c)

MentionsNext ==
    \/ \E c \in Crawls : Crawl(c)
    \/ \E i \in DOMAIN mentions, status \in Statuses, note \in {<< >>} \cup {<< n >> : n \in Notes} :
          set_status(i, status, note)

MentionsSpec == MentionsInit /\ [][MentionsNext]_mentionsVars

-----------------------------------------------------------------------------
(***************************************************************************)
(* Properties.                                                             *)
(***************************************************************************)

Terms == UNION {h.matched_terms : h \in Hits}

\* Every row and every log entry is well formed, and a classifier never has
\* more mentions in hand than the limit allows.
MentionsTypeOK ==
    /\ mentions \in Seq([url : Urls, matched_terms : SUBSET Terms,
                         status : Statuses, notes : Seq(Notes \cup {TAG})])
    /\ logged \in Seq([matched_terms : SUBSET Terms, status : Statuses, notes : Seq(Notes)])
    /\ Len(logged) = Len(mentions)
    /\ seen \subseteq Hits
    /\ phase \in [Crawls -> {"idle", "stored", "asking"}]
    /\ pending \in [Crawls -> SUBSET DOMAIN mentions]
    /\ \A c \in Crawls : Cardinality(pending[c]) <= limit

RowsOf(hit) == Known(mentions, normalize_url(hit.url))

\* Two spellings are stored as one exactly when they are of the same page.
SpellingsAgree ==
    \A u, v \in Spellings : SamePage(u, v) <=> normalize_url(u) = normalize_url(v)

\* However its URL was spelled and whichever crawl found it first, a page that
\* was found has exactly one row, and two different pages never share one; so
\* the UNIQUE constraint on the URL never rolls a whole run's hits back.
OneRowPerPage ==
    /\ SpellingsAgree
    /\ \A h \in seen : Cardinality(RowsOf(h)) = 1
    /\ Len(mentions) = Cardinality({normalize_url(h.url) : h \in seen})

\* The terms of a row are all the terms any hit for its page had, and the
\* evidence log says the same, in whatever order and batches the hits came.
TermsKept ==
    \A i \in DOMAIN mentions :
        /\ mentions[i].matched_terms =
              UNION {h.matched_terms : h \in {g \in seen : i \in RowsOf(g)}}
        /\ logged[i].matched_terms = mentions[i].matched_terms

\* A tag that was asked for minutes ago undoes nothing: the owner's status and
\* every note of the evidence log are in the row, in order, with one tag at most.
NotesKept ==
    \A i \in DOMAIN mentions :
        /\ mentions[i].status = logged[i].status
        /\ RemoveFirst(mentions[i].notes, TAG) = logged[i].notes
        /\ Count(mentions[i].notes, TAG) <= 1
=============================================================================
