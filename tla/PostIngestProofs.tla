-------------------------- MODULE PostIngestProofs ---------------------------
(***************************************************************************)
(* The safety of the ingest for every number of hooks, syncs and           *)
(* backfills, whichever run without captures, and every publication.       *)
(*                                                                         *)
(* That a watermark is not jumped over is not inductive on its own: what   *)
(* it will be once the items in hand are recorded matters too.  So the     *)
(* invariant asks of every item a sync has fetched what the property asks  *)
(* of the newest one it has recorded: that nothing older is left behind.   *)
(***************************************************************************)
EXTENDS PostIngest, FiniteSetTheorems, TLAPS

Capturing(u) == {p \in Ingesters \ CaptureOff : current[p] = u}

\* A process is at one place of one ingest, and one without captures captures none.
StepInv ==
    \A p \in Ingesters :
        /\ current[p] = NoPost \/ lookup[p] = NoPost
        /\ p \in CaptureOff => current[p] = NoPost

\* What was captured has a row, and the captures made and those under way are one
\* for each process at most.
OverlapInv ==
    \A u \in Publications :
        captures[u] > 0 =>
            /\ u \in posts
            /\ captures[u] + Cardinality(Capturing(u)) <= Cardinality(Ingesters \ CaptureOff)

HistoryOnce == \A u \in Held : historical[u] <= 1

\* The feed's items that syncs have recorded or hold.
Fetched == fromFeed \cup UNION {todo[p] : p \in Syncs}

FeedInv ==
    failures = 0 =>
        \A u \in Fetched, v \in 1..published : v < u => v \in posts \/ InHand(v)

HistoryInv ==
    failures = 0 => \A u \in fromFile \cap Held : historical[u] > 0 \/ AskedOf(u)

IngestInv ==
    /\ TypeOK
    /\ StepInv
    /\ OverlapInv
    /\ HistoryOnce
    /\ FeedInv
    /\ HistoryInv

-----------------------------------------------------------------------------
(* Lemmas about the operators. *)

\* The newest of some publications is one of them, and none is newer.
LEMMA NewestMember ==
    ASSUME NEW n \in Nat, NEW S \in SUBSET (1..n), S # {}
    PROVE  Newest(S) \in S /\ \A x \in S : x <= Newest(S)
<1> DEFINE Above(x) == {y \in 1..n : y > x}
           B == {Above(x) : x \in S}
           R == StrictSubsetOrdering(1..n)
<1>1. IsFiniteSet(1..n)
  BY FS_Interval
<1>2. IsWellFoundedOn(R, FiniteSubsetsOf(1..n)) /\ FiniteSubsetsOf(1..n) = SUBSET (1..n)
  BY <1>1, FS_StrictSubsetOrderingWellFounded, FS_FiniteSubsetsOfFinite
<1>3. B \subseteq SUBSET (1..n) /\ B # {}
  OBVIOUS
<1>4. PICK b \in B : \A a \in B : ~ << a, b >> \in R
  <2> HIDE DEF B, R
  <2> QED
    BY <1>2, <1>3, WFMin
<1>5. PICK x \in S : b = Above(x)
  OBVIOUS
<1>6. ASSUME NEW y \in S PROVE y <= x
  <2> SUFFICES ASSUME y > x PROVE FALSE
    OBVIOUS
  <2>1. Above(y) \subseteq Above(x) /\ Above(y) # Above(x)
    <3>1. y \in Above(x) /\ y \notin Above(y)
      OBVIOUS
    <3> QED
      BY <3>1
  <2>2. << Above(y), Above(x) >> \in R
    BY <2>1 DEF StrictSubsetOrdering
  <2> QED
    BY <1>4, <1>5, <2>2
<1> QED
  BY <1>6 DEF Newest, Max

\* The numbers of a state, and whose they are.
LEMMA Numbers ==
    ASSUME TypeOK
    PROVE  /\ published \in Nat /\ 1..published \subseteq Publications
           /\ posts \subseteq Publications
           /\ failures \in Nat
           /\ NoPost \notin Publications
<1>1. published \in 0..Total /\ failures \in 0..MaxFailures /\ posts \subseteq 1..published
  BY DEF TypeOK
<1>2. 1..published \subseteq 1..Total
  BY <1>1, TotalAssumption
<1> QED
  BY <1>1, <1>2, TotalAssumption, FailuresAssumption, NoPostAssumption DEF Publications

LEMMA CapturingCounted ==
    ASSUME NEW u
    PROVE  /\ IsFiniteSet(Capturing(u))
           /\ Cardinality(Capturing(u)) \in Nat
           /\ Cardinality(Ingesters \ CaptureOff) \in Nat
           /\ Cardinality(Capturing(u)) <= Cardinality(Ingesters \ CaptureOff)
<1>1. IsFiniteSet(Ingesters \ CaptureOff)
  BY IngestersFinite, FS_Difference DEF Ingesters, Listers
<1>2. Capturing(u) \in SUBSET (Ingesters \ CaptureOff)
  BY DEF Capturing
<1> QED
  BY <1>1, <1>2, FS_Subset, FS_CardinalityType

-----------------------------------------------------------------------------
(* What keeps a part of the invariant. *)

\* Nobody new captures what has been captured.
LEMMA OverlapKept ==
    ASSUME IngestInv, UNCHANGED captures, posts \subseteq posts',
           \A u \in posts : captures[u] > 0 => Capturing(u)' \subseteq Capturing(u)
    PROVE  OverlapInv'
<1> SUFFICES ASSUME NEW u \in Publications, captures[u] > 0
             PROVE  /\ u \in posts'
                    /\ captures[u] + Cardinality(Capturing(u)')
                          <= Cardinality(Ingesters \ CaptureOff)
  BY DEF OverlapInv
<1>1. u \in posts /\ captures[u] + Cardinality(Capturing(u)) <= Cardinality(Ingesters \ CaptureOff)
  BY DEF IngestInv, OverlapInv
<1>2. Capturing(u)' \in SUBSET Capturing(u)
  BY <1>1
<1>3. /\ Cardinality(Capturing(u)') <= Cardinality(Capturing(u))
      /\ Cardinality(Capturing(u)') \in Nat
  BY <1>2, CapturingCounted, FS_Subset, FS_CardinalityType
<1>4. captures[u] \in Nat
  BY DEF IngestInv, TypeOK
<1> QED
  BY <1>1, <1>3, <1>4, CapturingCounted

\* No item comes to the feed's, and one that leaves a sync's hand has a row.
LEMMA FeedKept ==
    ASSUME IngestInv, UNCHANGED published, failures' = 0 => failures = 0,
           posts \subseteq posts', Fetched' \subseteq Fetched,
           \A p \in Syncs : \A u \in todo[p] : u \in todo'[p] \/ u \in posts'
    PROVE  FeedInv'
<1> SUFFICES ASSUME failures = 0, NEW u \in Fetched, NEW v \in 1..published, v < u
             PROVE  v \in posts' \/ InHand(v)'
  BY DEF FeedInv
<1>1. v \in posts \/ InHand(v)
  BY DEF IngestInv, FeedInv
<1> QED
  BY <1>1 DEF InHand

\* A backfill keeps what it asks about.
LEMMA HistoryKept ==
    ASSUME IngestInv, UNCHANGED << fromFile, historical >>, failures' = 0 => failures = 0,
           \A p \in Backfills : \A u \in posts :
               u \in {current[p], lookup[p]} => u \in {current'[p], lookup'[p]}
    PROVE  HistoryInv'
<1> SUFFICES ASSUME failures = 0, NEW u \in fromFile \cap Held
             PROVE  historical[u] > 0 \/ AskedOf(u)'
  BY DEF HistoryInv
<1>1. historical[u] > 0 \/ AskedOf(u)
  BY DEF IngestInv, HistoryInv
<1>2. u \in posts
  BY DEF IngestInv, TypeOK
<1> QED
  BY <1>1, <1>2 DEF AskedOf

-----------------------------------------------------------------------------
(* Every step keeps the invariant. *)

LEMMA PublishKeeps == ASSUME IngestInv, Publish PROVE IngestInv'
<1>1. /\ published < Total /\ published' = published + 1
      /\ UNCHANGED << posts, fromFeed, captures, attached, fromFile, historical,
                      todo, current, lookup, failures >>
  BY DEF Publish, rows, history
<1>2. published \in Nat /\ posts \subseteq 1..published
  BY Numbers DEF IngestInv, TypeOK
<1>3. published' \in 0..Total /\ 1..published \subseteq 1..published'
  BY <1>1, <1>2, TotalAssumption
<1>4. TypeOK'
  <2>1. todo' \in [Ingesters -> SUBSET (1..published')]
    BY <1>1, <1>3 DEF IngestInv, TypeOK
  <2> QED
    BY <1>1, <1>2, <1>3, <2>1 DEF IngestInv, TypeOK
<1>5. FeedInv'
  <2> SUFFICES ASSUME failures = 0, NEW u \in Fetched, NEW v \in 1..published', v < u
               PROVE  v \in posts \/ InHand(v)
    BY <1>1 DEF FeedInv, Fetched, InHand
  <2>1. u \in 1..published
    BY <1>2 DEF Fetched, IngestInv, TypeOK, Ingesters, Listers
  <2>2. v \in 1..published
    BY <1>1, <1>2, <2>1
  <2> QED
    BY <2>2 DEF IngestInv, FeedInv
<1> QED
  BY <1>1, <1>4, <1>5
  DEF IngestInv, StepInv, OverlapInv, Capturing, HistoryOnce, HistoryInv, AskedOf

\* What a process takes from its list was out, and has no row yet.
LEMMA RecordPostKeeps == ASSUME IngestInv, NEW p \in Ingesters, RecordPost(p) PROVE IngestInv'
<1>1. PICK u \in Asked(p) :
          /\ u \notin posts
          /\ posts' = posts \cup {u}
          /\ fromFeed' = IF p \in Syncs THEN fromFeed \cup {u} ELSE fromFeed
          /\ fromFile' = IF p \in Backfills THEN fromFile \cup {u} ELSE fromFile
          /\ IF p \in CaptureOff THEN Imported(p, u) /\ UNCHANGED current
                                  ELSE current' = [current EXCEPT ![p] = u] /\ UNCHANGED lookup
          /\ Done(p, u)
  BY DEF RecordPost
<1>2. /\ UNCHANGED << published, captures, attached, historical, failures >>
      /\ current[p] = NoPost /\ lookup[p] = NoPost
  BY DEF RecordPost, Between
<1>3. todo' = [todo EXCEPT ![p] = @ \ {u}]
  BY <1>1 DEF Done
<1>4. u \in 1..published /\ (p \in Listers => u \in todo[p])
  BY <1>1 DEF Asked, IngestInv, TypeOK
<1>5. u # NoPost /\ u \in Publications
  BY <1>4, Numbers DEF IngestInv
<1>6. /\ current' \in [Ingesters -> posts' \cup {NoPost}]
      /\ lookup' \in [Ingesters -> posts' \cup {NoPost}]
  <2>1. /\ current \in [Ingesters -> posts' \cup {NoPost}]
        /\ lookup \in [Ingesters -> posts' \cup {NoPost}]
    BY <1>1 DEF IngestInv, TypeOK
  <2> QED
    BY <1>1, <2>1 DEF Imported
<1>7. TypeOK'
  <2>1. posts' \subseteq 1..published /\ fromFeed' \subseteq posts'
    BY <1>1, <1>4 DEF IngestInv, TypeOK
  <2>2. fromFile' \subseteq posts' \ fromFeed'
    BY <1>1, DisjointAssumption DEF IngestInv, TypeOK
  <2>3. todo' \in [Ingesters -> SUBSET (1..published)]
    BY <1>3 DEF IngestInv, TypeOK
  <2> QED
    BY <1>2, <1>6, <2>1, <2>2, <2>3 DEF IngestInv, TypeOK
<1>8. StepInv'
  BY <1>1, <1>2 DEF IngestInv, TypeOK, StepInv, Imported
<1>9. OverlapInv'
  <2>1. ASSUME NEW w \in posts PROVE Capturing(w)' \subseteq Capturing(w)
    BY <1>1 DEF Capturing, IngestInv, TypeOK
  <2> QED
    BY <1>1, <1>2, <2>1, OverlapKept
<1>10. FeedInv'
  <2>1. Fetched' \subseteq Fetched
    BY <1>1, <1>3, <1>4 DEF Fetched, Listers, IngestInv, TypeOK, Ingesters
  <2>2. ASSUME NEW q \in Syncs, NEW w \in todo[q] PROVE w \in todo'[q] \/ w \in posts'
    BY <1>1, <1>3 DEF IngestInv, TypeOK, Ingesters, Listers
  <2> QED
    BY <1>1, <1>2, <2>1, <2>2, FeedKept
<1>11. HistoryInv'
  <2> SUFFICES ASSUME failures = 0, NEW w \in fromFile' \cap Held
               PROVE  historical[w] > 0 \/ AskedOf(w)'
    BY <1>2 DEF HistoryInv
  <2>1. CASE w = u /\ p \in Backfills
    <3>1. u \in {current'[p], lookup'[p]}
      BY <1>1, <2>1 DEF Imported, IngestInv, TypeOK
    <3> QED
      BY <2>1, <3>1 DEF AskedOf
  <2>2. CASE w \in fromFile
    <3>1. w \in posts /\ w # u /\ w # NoPost
      BY <1>1, <2>2, Numbers DEF IngestInv, TypeOK
    <3>2. historical[w] > 0 \/ AskedOf(w)
      BY <2>2 DEF IngestInv, HistoryInv
    <3>3. ASSUME NEW q \in Backfills, w \in {current[q], lookup[q]}
          PROVE  w \in {current'[q], lookup'[q]}
      BY <1>1, <1>2, <3>1, <3>3 DEF Imported, IngestInv, TypeOK, Ingesters, Listers
    <3> QED
      BY <3>2, <3>3 DEF AskedOf
  <2> QED
    BY <1>1, <2>1, <2>2
<1> QED
  BY <1>2, <1>7, <1>8, <1>9, <1>10, <1>11 DEF IngestInv, HistoryOnce

LEMMA ResumeKeeps == ASSUME IngestInv, NEW p \in Ingesters, Resume(p) PROVE IngestInv'
<1>1. PICK u \in Asked(p) \cap posts :
          /\ ~ HasEvidence(u)
          /\ current' = [current EXCEPT ![p] = u]
          /\ Done(p, u)
  BY DEF Resume
<1>2. /\ UNCHANGED << published, posts, fromFeed, captures, attached, fromFile, historical,
                      lookup, failures >>
      /\ current[p] = NoPost /\ lookup[p] = NoPost /\ p \notin CaptureOff
  BY DEF Resume, Between, rows, history
<1>3. todo' = [todo EXCEPT ![p] = @ \ {u}]
  BY <1>1 DEF Done
<1>4. TypeOK'
  <2>1. todo' \in [Ingesters -> SUBSET (1..published)]
    BY <1>3 DEF IngestInv, TypeOK
  <2>2. current' \in [Ingesters -> posts \cup {NoPost}]
    BY <1>1 DEF IngestInv, TypeOK
  <2> QED
    BY <1>2, <2>1, <2>2 DEF IngestInv, TypeOK
<1>5. StepInv'
  BY <1>1, <1>2 DEF IngestInv, TypeOK, StepInv
<1>6. OverlapInv'
  <2>1. ~ captures[u] > 0
    <3>1. captures[u] \in Nat /\ attached[u] \in Nat
      BY <1>1, Numbers DEF IngestInv, TypeOK
    <3> QED
      BY <1>1, <3>1 DEF HasEvidence
  <2>2. ASSUME NEW w \in posts, captures[w] > 0 PROVE Capturing(w)' \subseteq Capturing(w)
    BY <1>1, <2>1, <2>2 DEF Capturing, IngestInv, TypeOK
  <2> QED
    BY <1>2, <2>2, OverlapKept
<1>7. FeedInv'
  <2>1. Fetched' \subseteq Fetched
    BY <1>2, <1>3 DEF Fetched, Listers, IngestInv, TypeOK, Ingesters
  <2>2. ASSUME NEW q \in Syncs, NEW w \in todo[q] PROVE w \in todo'[q] \/ w \in posts'
    BY <1>1, <1>2, <1>3 DEF IngestInv, TypeOK, Ingesters, Listers
  <2> QED
    BY <1>2, <2>1, <2>2, FeedKept
<1>8. HistoryInv'
  <2>1. ASSUME NEW q \in Backfills, NEW w \in posts, w \in {current[q], lookup[q]}
        PROVE  w \in {current'[q], lookup'[q]}
    BY <1>1, <1>2, <2>1, Numbers DEF IngestInv, TypeOK, Ingesters, Listers
  <2> QED
    BY <1>2, <2>1, HistoryKept
<1> QED
  BY <1>2, <1>4, <1>5, <1>6, <1>7, <1>8 DEF IngestInv, HistoryOnce

LEMMA RefuseKeeps == ASSUME IngestInv, NEW p \in Ingesters, Refuse(p) PROVE IngestInv'
<1>1. PICK u \in todo[p] \cap posts : Done(p, u)
  BY DEF Refuse
<1>2. UNCHANGED << published, posts, fromFeed, captures, attached, fromFile, historical,
                   current, lookup, failures >>
  BY DEF Refuse, rows, history
<1>3. todo' = [todo EXCEPT ![p] = @ \ {u}]
  BY <1>1 DEF Done
<1>4. TypeOK'
  <2>1. todo' \in [Ingesters -> SUBSET (1..published)]
    BY <1>3 DEF IngestInv, TypeOK
  <2> QED
    BY <1>2, <2>1 DEF IngestInv, TypeOK
<1>5. FeedInv'
  <2>1. Fetched' \subseteq Fetched
    BY <1>2, <1>3 DEF Fetched, Listers, IngestInv, TypeOK, Ingesters
  <2>2. ASSUME NEW q \in Syncs, NEW w \in todo[q] PROVE w \in todo'[q] \/ w \in posts'
    BY <1>1, <1>2, <1>3 DEF IngestInv, TypeOK, Ingesters, Listers
  <2> QED
    BY <1>2, <2>1, <2>2, FeedKept
<1> QED
  BY <1>2, <1>4, <1>5
  DEF IngestInv, StepInv, OverlapInv, Capturing, HistoryOnce, HistoryInv, AskedOf

\* A capture is no longer under way when it is stored.
LEMMA CaptureKeeps ==
    ASSUME IngestInv, NEW p \in Ingesters, _capture_for_post(p) PROVE IngestInv'
<1>1. PICK u \in posts : u = current[p]
  BY DEF _capture_for_post, IngestInv, TypeOK
<1>2. /\ UNCHANGED << published, posts, fromFeed, attached, fromFile, historical, todo, failures >>
      /\ u # NoPost
      /\ captures' = [captures EXCEPT ![u] = @ + 1]
      /\ current' = [current EXCEPT ![p] = NoPost]
      /\ lookup' = IF p \in Backfills THEN [lookup EXCEPT ![p] = u] ELSE lookup
  BY <1>1 DEF _capture_for_post, history, Imported
<1>3. u \in posts /\ u \in Publications
  BY Numbers DEF IngestInv
<1>4. captures[u] \in Nat /\ captures[u] + 1 \in Nat
  <2>1. captures[u] \in Nat
    BY <1>3 DEF IngestInv, TypeOK
  <2> QED
    BY <2>1
<1>5. p \notin CaptureOff /\ lookup[p] = NoPost
  BY <1>1, <1>2 DEF IngestInv, StepInv
<1>6. TypeOK'
  <2>1. captures' \in [Publications -> Nat]
    BY <1>2, <1>4 DEF IngestInv, TypeOK
  <2>2. /\ current' \in [Ingesters -> posts \cup {NoPost}]
        /\ lookup' \in [Ingesters -> posts \cup {NoPost}]
    BY <1>2, <1>3 DEF IngestInv, TypeOK
  <2> QED
    BY <1>2, <2>1, <2>2 DEF IngestInv, TypeOK
<1>7. StepInv'
  BY <1>2 DEF IngestInv, TypeOK, StepInv
<1>8. OverlapInv'
  <2> SUFFICES ASSUME NEW w \in Publications, captures'[w] > 0
               PROVE  /\ w \in posts
                      /\ captures'[w] + Cardinality(Capturing(w)')
                            <= Cardinality(Ingesters \ CaptureOff)
    BY <1>2 DEF OverlapInv
  <2>1. CASE w # u
    <3>1. captures'[w] = captures[w] /\ Capturing(w)' = Capturing(w)
      <4>1. w # NoPost
        BY Numbers DEF IngestInv
      <4> QED
        BY <1>1, <1>2, <2>1, <4>1 DEF IngestInv, TypeOK, Capturing
    <3> QED
      BY <3>1 DEF IngestInv, OverlapInv
  <2>2. CASE w = u
    <3>1. Capturing(u)' = Capturing(u) \ {p} /\ p \in Capturing(u)
      BY <1>1, <1>2, <1>5 DEF IngestInv, TypeOK, Capturing
    <3>2. Cardinality(Capturing(u)') = Cardinality(Capturing(u)) - 1
      BY <3>1, CapturingCounted, FS_RemoveElement
    <3>3. captures[u] + Cardinality(Capturing(u)) <= Cardinality(Ingesters \ CaptureOff)
      <4>1. CASE captures[u] > 0
        BY <1>3, <4>1 DEF IngestInv, OverlapInv
      <4>2. CASE captures[u] = 0
        BY <4>2, CapturingCounted
      <4> QED
        BY <1>4, <4>1, <4>2
    <3>4. captures'[u] = captures[u] + 1
      BY <1>2, <1>3 DEF IngestInv, TypeOK
    <3> QED
      BY <1>3, <1>4, <2>2, <3>2, <3>3, <3>4, CapturingCounted
  <2> QED
    BY <2>1, <2>2
<1>9. FeedInv'
  BY <1>2 DEF IngestInv, FeedInv, Fetched, InHand
<1>20. HistoryInv'
  <2>1. ASSUME NEW q \in Backfills, NEW w \in posts, w \in {current[q], lookup[q]}
        PROVE  w \in {current'[q], lookup'[q]}
    <3>1. w # NoPost
      BY Numbers DEF IngestInv
    <3> QED
      BY <1>1, <1>2, <1>5, <2>1, <3>1 DEF IngestInv, TypeOK, Ingesters, Listers
  <2> QED
    BY <1>2, <2>1, HistoryKept
<1> QED
  BY <1>2, <1>6, <1>7, <1>8, <1>9, <1>20 DEF IngestInv, HistoryOnce

LEMMA FailKeeps == ASSUME IngestInv, NEW p \in Ingesters, Fail(p) PROVE IngestInv'
<1>1. /\ UNCHANGED << published, posts, fromFeed, captures, attached, fromFile, historical, lookup >>
      /\ failures < MaxFailures /\ failures' = failures + 1
      /\ current' \in {current, [current EXCEPT ![p] = NoPost]}
  BY DEF Fail, rows, history
<1>2. todo' = todo \/ \E u \in todo[p] : todo' = [todo EXCEPT ![p] = @ \ {u}]
  BY DEF Fail, Done
<1>3. failures' \in 0..MaxFailures /\ failures' # 0
  <2>1. failures \in Nat
    BY Numbers DEF IngestInv
  <2> QED
    BY <1>1, <2>1, FailuresAssumption
<1>4. TypeOK'
  <2>1. todo' \in [Ingesters -> SUBSET (1..published)]
    BY <1>2 DEF IngestInv, TypeOK
  <2>2. current' \in [Ingesters -> posts \cup {NoPost}]
    BY <1>1 DEF IngestInv, TypeOK
  <2> QED
    BY <1>1, <1>3, <2>1, <2>2 DEF IngestInv, TypeOK
<1>5. StepInv'
  BY <1>1 DEF IngestInv, TypeOK, StepInv
<1>6. OverlapInv'
  <2>1. ASSUME NEW w \in posts PROVE Capturing(w)' \subseteq Capturing(w)
    BY <1>1, Numbers DEF Capturing, IngestInv, TypeOK
  <2> QED
    BY <1>1, <2>1, OverlapKept
<1> QED
  BY <1>1, <1>3, <1>4, <1>5, <1>6 DEF IngestInv, HistoryOnce, FeedInv, HistoryInv

LEMMA KillKeeps == ASSUME IngestInv, NEW p \in Ingesters, Kill(p) PROVE IngestInv'
<1>1. /\ UNCHANGED << published, posts, fromFeed, captures, attached, fromFile, historical >>
      /\ failures < MaxFailures /\ failures' = failures + 1
      /\ current' = [current EXCEPT ![p] = NoPost]
      /\ todo' = [todo EXCEPT ![p] = {}]
      /\ lookup' = [lookup EXCEPT ![p] = NoPost]
  BY DEF Kill, rows, history
<1>2. failures' \in 0..MaxFailures /\ failures' # 0
  <2>1. failures \in Nat
    BY Numbers DEF IngestInv
  <2> QED
    BY <1>1, <2>1, FailuresAssumption
<1>3. TypeOK'
  <2>1. todo' \in [Ingesters -> SUBSET (1..published)]
    BY <1>1 DEF IngestInv, TypeOK
  <2>2. /\ current' \in [Ingesters -> posts \cup {NoPost}]
        /\ lookup' \in [Ingesters -> posts \cup {NoPost}]
    BY <1>1 DEF IngestInv, TypeOK
  <2> QED
    BY <1>1, <1>2, <2>1, <2>2 DEF IngestInv, TypeOK
<1>4. StepInv'
  BY <1>1 DEF IngestInv, TypeOK, StepInv
<1>5. OverlapInv'
  <2>1. ASSUME NEW w \in posts PROVE Capturing(w)' \subseteq Capturing(w)
    BY <1>1, Numbers DEF Capturing, IngestInv, TypeOK
  <2> QED
    BY <1>1, <2>1, OverlapKept
<1> QED
  BY <1>1, <1>2, <1>3, <1>4, <1>5 DEF IngestInv, HistoryOnce, FeedInv, HistoryInv

\* An answer is recorded for what has no row yet, and for nothing else.
LEMMA RecordedOnce ==
    ASSUME IngestInv, NEW answered, record_history(answered)
    PROVE  /\ historical' \in [Held -> Nat]
           /\ \A u \in Held : /\ historical'[u] <= 1
                              /\ historical[u] > 0 => historical'[u] > 0
                              /\ u \in answered => historical'[u] > 0
<1>1. historical' = [u \in Held |->
          IF u \in answered /\ ~ historical[u] > 0 THEN historical[u] + 1 ELSE historical[u]]
  BY DEF record_history, KnownSnapshot
<1>2. ASSUME NEW u \in Held
      PROVE  /\ historical'[u] \in Nat
             /\ historical'[u] <= 1
             /\ historical[u] > 0 => historical'[u] > 0
             /\ u \in answered => historical'[u] > 0
  <2>1. historical[u] \in Nat /\ historical[u] <= 1
    BY DEF IngestInv, TypeOK, HistoryOnce
  <2>2. historical'[u] =
          IF u \in answered /\ ~ historical[u] > 0 THEN historical[u] + 1 ELSE historical[u]
    BY <1>1
  <2> QED
    BY <2>1, <2>2
<1> QED
  BY <1>1, <1>2

LEMMA LookupKeeps ==
    ASSUME IngestInv, NEW p \in Backfills, RecordHistory(p) PROVE IngestInv'
<1>1. PICK u \in posts : u = lookup[p]
  BY DEF RecordHistory, IngestInv, TypeOK, Ingesters, Listers
<1>2. /\ UNCHANGED << published, posts, fromFeed, captures, attached, fromFile, todo, current >>
      /\ lookup' = [lookup EXCEPT ![p] = NoPost]
      /\ \/ record_history({u}) /\ failures' = failures
         \/ failures < MaxFailures /\ failures' = failures + 1 /\ historical' = historical
  BY <1>1 DEF RecordHistory, LookupFailed
<1>3. failures \in Nat
  BY Numbers DEF IngestInv
<1>4. failures' \in 0..MaxFailures
  BY <1>2, <1>3, FailuresAssumption DEF IngestInv, TypeOK
<1>5. historical' \in [Held -> Nat] /\ HistoryOnce'
  BY <1>2, RecordedOnce DEF IngestInv, TypeOK, HistoryOnce
<1>6. TypeOK'
  <2>1. lookup' \in [Ingesters -> posts \cup {NoPost}]
    BY <1>2 DEF IngestInv, TypeOK
  <2> QED
    BY <1>2, <1>4, <1>5, <2>1 DEF IngestInv, TypeOK
<1>7. StepInv'
  BY <1>2 DEF IngestInv, TypeOK, StepInv
<1>8. FeedInv'
  <2>1. failures' = 0 => failures = 0
    BY <1>2, <1>3
  <2> QED
    BY <1>2, <2>1 DEF IngestInv, FeedInv, Fetched, InHand
<1>9. HistoryInv'
  <2>1. CASE failures' # 0
    BY <2>1 DEF HistoryInv
  <2>2. CASE failures' = 0
    <3>1. failures = 0 /\ record_history({u})
      BY <1>2, <1>3, <2>2
    <3> SUFFICES ASSUME NEW w \in fromFile \cap Held
                 PROVE  historical'[w] > 0 \/ AskedOf(w)'
      BY <1>2 DEF HistoryInv
    <3>2. CASE historical[w] > 0 \/ w = u
      BY <3>1, <3>2, RecordedOnce
    <3>3. CASE w # u /\ AskedOf(w)
      BY <1>1, <1>2, <3>3 DEF AskedOf, IngestInv, TypeOK, Ingesters, Listers
    <3> QED
      BY <3>1, <3>2, <3>3 DEF IngestInv, HistoryInv
  <2> QED
    BY <2>1, <2>2
<1> QED
  BY <1>2, <1>5, <1>6, <1>7, <1>8, <1>9 DEF IngestInv, OverlapInv, Capturing

LEMMA ArchiveHistoryKeeps == ASSUME IngestInv, archive_history PROVE IngestInv'
<1>1. UNCHANGED << published, posts, fromFeed, captures, attached, fromFile, todo,
                   current, lookup, failures >>
  BY DEF archive_history
<1>2. PICK answered \in SUBSET posts : record_history(answered)
  BY DEF archive_history
<1>3. /\ historical' \in [Held -> Nat] /\ HistoryOnce'
      /\ \A u \in Held : historical[u] > 0 => historical'[u] > 0
  BY <1>2, RecordedOnce DEF HistoryOnce
<1>4. TypeOK'
  BY <1>1, <1>3 DEF IngestInv, TypeOK
<1>5. HistoryInv'
  BY <1>1, <1>3 DEF IngestInv, HistoryInv, AskedOf
<1> QED
  BY <1>1, <1>3, <1>4, <1>5
  DEF IngestInv, StepInv, OverlapInv, Capturing, FeedInv, Fetched, InHand

\* What a sync fetches leaves out only what is older than the newest it has recorded.
LEMMA FetchKeeps == ASSUME IngestInv, NEW p \in Syncs, fetch_feed(p) PROVE IngestInv'
<1> DEFINE L == {u \in 1..published : u >= _last_seen}
<1>1. /\ UNCHANGED << published, posts, fromFeed, captures, attached, fromFile, historical,
                      current, lookup, failures >>
      /\ todo' = [todo EXCEPT ![p] = L]
      /\ todo[p] = {}
  BY DEF fetch_feed, Idle, rows, history
<1>2. published \in Nat /\ fromFeed \in SUBSET (1..published) /\ p \in Ingesters
  BY Numbers DEF IngestInv, TypeOK, Ingesters, Listers
<1>3. TypeOK'
  <2>1. todo' \in [Ingesters -> SUBSET (1..published)]
    BY <1>1 DEF IngestInv, TypeOK
  <2> QED
    BY <1>1, <2>1 DEF IngestInv, TypeOK
<1>4. ASSUME NEW v \in 1..published, failures = 0 PROVE v \in L \/ v \in posts \/ InHand(v)
  <2>1. CASE fromFeed = {}
    BY <2>1, <1>4 DEF _last_seen, Newest
  <2>2. CASE fromFeed # {}
    <3>1. _last_seen \in fromFeed
      BY <1>2, <2>2, NewestMember DEF _last_seen
    <3>2. CASE v < _last_seen
      BY <1>4, <3>1, <3>2 DEF IngestInv, FeedInv, Fetched
    <3>3. CASE ~ v < _last_seen
      BY <1>2, <3>1, <3>3
    <3> QED
      BY <3>2, <3>3
  <2> QED
    BY <2>1, <2>2
<1>5. FeedInv'
  <2> SUFFICES ASSUME failures = 0, NEW u \in Fetched', NEW v \in 1..published, v < u
               PROVE  v \in posts \/ InHand(v)'
    BY <1>1 DEF FeedInv
  <2>1. InHand(v) \/ v \in L => InHand(v)'
    BY <1>1, <1>2 DEF InHand, IngestInv, TypeOK, Ingesters, Listers
  <2> QED
    BY <1>4, <2>1
<1> QED
  BY <1>1, <1>3, <1>5
  DEF IngestInv, StepInv, OverlapInv, Capturing, HistoryOnce, HistoryInv, AskedOf

LEMMA BackfillKeeps == ASSUME IngestInv, NEW p \in Backfills, run_backfill(p) PROVE IngestInv'
<1>1. /\ UNCHANGED << published, posts, fromFeed, captures, attached, fromFile, historical,
                      current, lookup, failures >>
      /\ \E S \in SUBSET (1..published) : todo' = [todo EXCEPT ![p] = S]
  BY DEF run_backfill, rows, history
<1>2. p \notin Syncs
  BY DisjointAssumption
<1>3. TypeOK'
  <2>1. todo' \in [Ingesters -> SUBSET (1..published)]
    BY <1>1 DEF IngestInv, TypeOK
  <2> QED
    BY <1>1, <2>1 DEF IngestInv, TypeOK
<1>4. \A q \in Syncs : todo'[q] = todo[q]
  BY <1>1, <1>2 DEF IngestInv, TypeOK, Ingesters, Listers
<1>5. FeedInv'
  BY <1>1, <1>4 DEF IngestInv, FeedInv, Fetched, InHand
<1> QED
  BY <1>1, <1>3, <1>5
  DEF IngestInv, StepInv, OverlapInv, Capturing, HistoryOnce, HistoryInv, AskedOf

LEMMA AttachKeeps == ASSUME IngestInv, attach_file PROVE IngestInv'
<1>1. UNCHANGED << published, posts, fromFeed, captures, fromFile, historical, todo, current,
                   lookup, failures >>
  BY DEF attach_file, history
<1>2. PICK u \in posts : attached' = [attached EXCEPT ![u] = @ + 1]
  BY DEF attach_file
<1>3. TypeOK'
  <2>1. attached[u] \in Nat
    BY Numbers DEF IngestInv, TypeOK
  <2>2. attached[u] + 1 \in Nat
    BY <2>1
  <2>3. attached' \in [Publications -> Nat]
    BY <1>2, <2>2 DEF IngestInv, TypeOK
  <2> QED
    BY <1>1, <2>3 DEF IngestInv, TypeOK
<1> QED
  BY <1>1, <1>3
  DEF IngestInv, StepInv, OverlapInv, Capturing, HistoryOnce, FeedInv, Fetched, InHand,
      HistoryInv, AskedOf

-----------------------------------------------------------------------------
(* The invariant, and what it says of every behaviour. *)

LEMMA InitInv == Init => IngestInv
<1> SUFFICES ASSUME Init PROVE IngestInv
  OBVIOUS
<1>1. /\ posts = {} /\ fromFeed = {} /\ fromFile = {}
      /\ captures = [u \in Publications |-> 0]
      /\ attached = [u \in Publications |-> 0]
      /\ historical = [u \in Held |-> 0]
      /\ todo = [p \in Ingesters |-> {}]
      /\ lookup = [p \in Ingesters |-> NoPost]
      /\ current = [p \in Ingesters |-> NoPost]
  BY DEF Init
<1>2. published \in 0..Total /\ failures \in 0..MaxFailures
  BY TotalAssumption, FailuresAssumption DEF Init
<1>3. TypeOK
  BY <1>1, <1>2 DEF TypeOK
<1>4. StepInv
  BY <1>1 DEF StepInv
<1>5. OverlapInv
  BY <1>1 DEF OverlapInv
<1>6. HistoryOnce
  BY <1>1 DEF HistoryOnce
<1>7. FeedInv /\ HistoryInv
  <2>1. \A p \in Syncs : todo[p] = {}
    BY <1>1 DEF Ingesters, Listers
  <2>2. Fetched = {}
    BY <1>1, <2>1 DEF Fetched
  <2> QED
    BY <1>1, <2>2 DEF FeedInv, HistoryInv
<1> QED
  BY <1>3, <1>4, <1>5, <1>6, <1>7 DEF IngestInv

LEMMA NextInv == IngestInv /\ [Next]_vars => IngestInv'
<1> SUFFICES ASSUME IngestInv, [Next]_vars PROVE IngestInv'
  OBVIOUS
<1>1. ASSUME NEW p \in Ingesters, ingest_post(p) PROVE IngestInv'
  BY <1>1, RecordPostKeeps, ResumeKeeps, RefuseKeeps, CaptureKeeps DEF ingest_post
<1>2. CASE Publish \/ attach_file \/ archive_history
  BY <1>2, PublishKeeps, AttachKeeps, ArchiveHistoryKeeps
<1>3. CASE \E p \in Hooks : ingest_post(p)
  BY <1>1, <1>3 DEF Ingesters
<1>4. CASE \E p \in Syncs : Sync(p)
  BY <1>1, <1>4, FetchKeeps DEF Sync, Ingesters, Listers
<1>5. CASE \E p \in Backfills : Backfill(p)
  BY <1>1, <1>5, BackfillKeeps, LookupKeeps DEF Backfill, Ingesters, Listers
<1>6. CASE \E p \in Ingesters : Fail(p) \/ Kill(p)
  BY <1>6, FailKeeps, KillKeeps
<1>7. CASE UNCHANGED vars
  <2>1. UNCHANGED << published, posts, fromFeed, captures, attached, fromFile, historical,
                     todo, current, lookup, failures >>
    BY <1>7 DEF vars, rows, history
  <2>2. TypeOK' /\ StepInv' /\ HistoryOnce'
    BY <2>1 DEF IngestInv, TypeOK, StepInv, HistoryOnce
  <2>3. OverlapInv' /\ FeedInv' /\ HistoryInv'
    BY <2>1 DEF IngestInv, OverlapInv, Capturing, FeedInv, Fetched, InHand, HistoryInv, AskedOf
  <2> QED
    BY <2>2, <2>3 DEF IngestInv
<1> QED
  BY <1>2, <1>3, <1>4, <1>5, <1>6, <1>7 DEF Next

\* The inductive invariant of the ingest.
THEOREM IngestInvariant == Spec => []IngestInv
BY InitInv, NextInv, PTL DEF Spec

\* The post rows and what every process has in hand keep their types: a row is of
\* the feed or of a file, never of both.
THEOREM TypeCorrect == Spec => []TypeOK
<1>1. IngestInv => TypeOK
  BY DEF IngestInv
<1> QED
  BY <1>1, IngestInvariant, PTL

\* `ingest_post` of any number of processes captures a post at most once for each
\* that captures at all, and its history is recorded once.
THEOREM NothingIsRepeated == Spec => []NothingRepeated
<1>1. IngestInv => NothingRepeated
  <2> SUFFICES ASSUME IngestInv, NEW u \in Publications
               PROVE  captures[u] <= Cardinality(Ingesters \ CaptureOff)
    BY DEF IngestInv, HistoryOnce, NothingRepeated
  <2>1. captures[u] \in Nat
    BY DEF IngestInv, TypeOK
  <2>2. CASE captures[u] > 0
    <3>1. captures[u] + Cardinality(Capturing(u)) <= Cardinality(Ingesters \ CaptureOff)
      BY <2>2 DEF IngestInv, OverlapInv
    <3> QED
      BY <2>1, <3>1, CapturingCounted
  <2>3. CASE captures[u] = 0
    BY <2>3, CapturingCounted
  <2> QED
    BY <2>1, <2>2, <2>3
<1> QED
  BY <1>1, IngestInvariant, PTL

\* `_last_seen` never runs ahead of a publication that nobody has recorded or has
\* in hand, and no imported post loses its history, unless something has failed.
THEOREM NothingIsSkipped == Spec => []NothingSkippedWithoutFailure
<1>1. IngestInv => NothingSkippedWithoutFailure
  <2> SUFFICES ASSUME IngestInv, failures = 0, NEW u \in 1..published, u < _last_seen
               PROVE  u \in posts \/ InHand(u)
    BY DEF IngestInv, HistoryInv, NothingSkippedWithoutFailure
  <2>1. published \in Nat /\ fromFeed \in SUBSET (1..published)
    BY Numbers DEF IngestInv, TypeOK
  <2>2. fromFeed # {}
    BY DEF _last_seen, Newest
  <2>3. _last_seen \in fromFeed
    BY <2>1, <2>2, NewestMember DEF _last_seen
  <2> QED
    BY <2>3 DEF IngestInv, FeedInv, Fetched
<1> QED
  BY <1>1, IngestInvariant, PTL
=============================================================================
