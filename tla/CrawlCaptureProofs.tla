------------------------- MODULE CrawlCaptureProofs --------------------------
(***************************************************************************)
(* The safety of overlapping crawls for every number of crawls and of      *)
(* mentions, every budget and every MAX_CAPTURE_ATTEMPTS.                  *)
(*                                                                         *)
(* Neither bound on what overlap can do is inductive: how often a mention  *)
(* can still be captured depends on who holds it on a list read before it  *)
(* was decided.  Once it is decided nobody puts it on a list again, so     *)
(* what has happened to it and the crawls that still hold it together      *)
(* never exceed the crawls there are.                                      *)
(***************************************************************************)
EXTENDS CrawlCapture, FiniteSetTheorems, TLAPS

Holders(m) == {c \in Crawlers : m \in work[c]}

\* A crawl inside its capture transaction has a mention in hand, and only such a
\* crawl has heard from the archive.
TxnInv ==
    /\ inTxn # Nobody => phase[inTxn] = "capturing" /\ work[inTxn] # {}
    /\ submitted # "not yet" => inTxn # Nobody
    /\ submitted = "job" => asked > 0 /\ asked \notin saves

\* What has been done to a decided mention, with the crawls that still hold it.
OverlapInv ==
    \A m \in Mentions :
        state[m] # "pending" =>
            /\ evidence[m] + Cardinality(Holders(m)) <= Cardinality(Crawlers)
            /\ attempts[m] + Cardinality(Holders(m))
                  < MAX_CAPTURE_ATTEMPTS + Cardinality(Crawlers)

\* An attempt is left exactly while the mention is pending.
LimitInv ==
    \A m \in Mentions :
        /\ state[m] = "failed" => attempts[m] >= MAX_CAPTURE_ATTEMPTS
        /\ state[m] = "pending" => attempts[m] < MAX_CAPTURE_ATTEMPTS

CrawlInv ==
    /\ TypeOK
    /\ TxnInv
    /\ EvidenceMatchesState
    /\ DecisionsLogged
    /\ LimitInv
    /\ OverlapInv
    /\ UnknownSavesBounded

-----------------------------------------------------------------------------
(* Lemmas about the operators. *)

\* A nonempty set of mentions has a least one, so the oldest one is on the list.
LEMMA MinMember ==
    ASSUME NEW n \in Nat, NEW S \in SUBSET (1..n), S # {}
    PROVE  Min(S) \in S
<1> DEFINE Below(x) == {y \in 1..n : y < x}
           B == {Below(x) : x \in S}
           R == StrictSubsetOrdering(1..n)
<1>1. IsFiniteSet(1..n)
  BY FS_Interval
<1>2. IsWellFoundedOn(R, FiniteSubsetsOf(1..n)) /\ FiniteSubsetsOf(1..n) = SUBSET (1..n)
  BY <1>1, FS_StrictSubsetOrderingWellFounded, FS_FiniteSubsetsOfFinite
<1>3. B \subseteq SUBSET (1..n) /\ B # {}
  OBVIOUS
<1>4. PICK b \in B : \A a \in B : ~ << a, b >> \in R
  <2> HIDE DEF B, R
  <2> QED
    BY <1>2, <1>3, WFMin
<1>5. PICK x \in S : b = Below(x)
  OBVIOUS
<1>6. ASSUME NEW y \in S PROVE x <= y
  <2> SUFFICES ASSUME y < x PROVE FALSE
    OBVIOUS
  <2>1. Below(y) \subseteq Below(x) /\ Below(y) # Below(x)
    <3>1. y \in Below(x) /\ y \notin Below(y)
      OBVIOUS
    <3> QED
      BY <3>1
  <2>2. << Below(y), Below(x) >> \in R
    BY <2>1 DEF StrictSubsetOrdering
  <2> QED
    BY <1>4, <1>5, <2>2
<1> QED
  BY <1>6 DEF Min

\* The numbers of a state.
LEMMA Numbers ==
    ASSUME TypeOK
    PROVE  /\ found \in Nat /\ found <= Total
           /\ asked \in Nat
           /\ troubles \in Nat
<1>1. found \in 0..Total /\ asked \in Nat /\ troubles \in 0..MaxTroubles
  BY DEF TypeOK
<1> QED
  BY <1>1, TotalAssumption, MaxTroublesAssumption

\* What a crawl has in hand is a stored mention it holds.
LEMMA CurrentHeld ==
    ASSUME TypeOK, NEW c \in Crawlers, work[c] # {}
    PROVE  /\ Current(c) \in work[c]
           /\ Current(c) \in Mentions
           /\ c \in Holders(Current(c))
<1>1. found \in Nat /\ work[c] \in SUBSET (1..found)
  BY Numbers DEF TypeOK
<1>2. 1..found \subseteq Mentions
  BY <1>1, Numbers, TotalAssumption DEF Mentions
<1>3. Current(c) \in work[c]
  BY <1>1, MinMember DEF Current
<1> QED
  BY <1>1, <1>2, <1>3 DEF Holders

\* No more crawls hold a mention than there are.
LEMMA HoldersCounted ==
    ASSUME NEW m
    PROVE  /\ IsFiniteSet(Holders(m))
           /\ Cardinality(Holders(m)) \in Nat
           /\ Cardinality(Crawlers) \in Nat
           /\ Cardinality(Holders(m)) <= Cardinality(Crawlers)
<1>1. Holders(m) \in SUBSET Crawlers
  BY DEF Holders
<1> QED
  BY <1>1, CrawlersAssumption, FS_Subset, FS_CardinalityType

\* Leaving a mention takes the crawl off its holders and off no other's.
LEMMA LeaveCounted ==
    ASSUME TypeOK, NEW c \in Crawlers, NEW m \in work[c], Leave(c, m)
    PROVE  /\ Cardinality(Holders(m)') = Cardinality(Holders(m)) - 1
           /\ \A k \in Mentions : k # m => Holders(k)' = Holders(k)
<1>1. work' = [work EXCEPT ![c] = @ \ {m}] /\ work \in [Crawlers -> SUBSET (1..found)]
  BY DEF TypeOK, Leave
<1>2. Holders(m)' = Holders(m) \ {c} /\ c \in Holders(m)
  BY <1>1 DEF Holders
<1>3. \A k \in Mentions : k # m => Holders(k)' = Holders(k)
  BY <1>1 DEF Holders
<1> QED
  BY <1>2, <1>3, HoldersCounted, FS_RemoveElement

\* Fewer holders of a mention keep its bounds.
LEMMA OverlapKept ==
    ASSUME CrawlInv, TypeOK',
           UNCHANGED << state, evidence, attempts >>,
           \A m \in Mentions : state[m] # "pending" => Holders(m)' \subseteq Holders(m)
    PROVE  OverlapInv'
<1> SUFFICES ASSUME NEW m \in Mentions, state[m] # "pending"
             PROVE  /\ evidence[m] + Cardinality(Holders(m)') <= Cardinality(Crawlers)
                    /\ attempts[m] + Cardinality(Holders(m)')
                          < MAX_CAPTURE_ATTEMPTS + Cardinality(Crawlers)
  BY DEF OverlapInv
<1>1. Holders(m)' \in SUBSET Holders(m)
  OBVIOUS
<1>2. /\ Cardinality(Holders(m)') <= Cardinality(Holders(m))
      /\ Cardinality(Holders(m)') \in Nat
  BY <1>1, HoldersCounted, FS_Subset, FS_CardinalityType
<1>3. /\ evidence[m] + Cardinality(Holders(m)) <= Cardinality(Crawlers)
      /\ attempts[m] + Cardinality(Holders(m)) < MAX_CAPTURE_ATTEMPTS + Cardinality(Crawlers)
  BY DEF CrawlInv, OverlapInv
<1>4. evidence[m] \in Nat /\ attempts[m] \in Nat
  BY DEF CrawlInv, TypeOK
<1> QED
  BY <1>2, <1>3, <1>4, HoldersCounted, MaxAttemptsAssumption

\* A mention is left after it was decided, or after an attempt short of the limit.
LEMMA DecideKept ==
    ASSUME CrawlInv, NEW c \in Crawlers, NEW m \in work[c], m \in Mentions,
           Leave(c, m),
           \A k \in Mentions : k # m =>
               /\ state'[k] = state[k]
               /\ evidence'[k] = evidence[k]
               /\ attempts'[k] = attempts[k],
           evidence'[m] \in {evidence[m], evidence[m] + 1},
           attempts'[m] \in {attempts[m], attempts[m] + 1}
    PROVE  OverlapInv'
<1> USE MaxAttemptsAssumption
<1>1. /\ Cardinality(Holders(m)') = Cardinality(Holders(m)) - 1
      /\ \A k \in Mentions : k # m => Holders(k)' = Holders(k)
  BY LeaveCounted DEF CrawlInv
<1>2. evidence[m] \in Nat /\ attempts[m] \in Nat
  BY DEF CrawlInv, TypeOK
<1>3. /\ Cardinality(Holders(m)) \in Nat
      /\ Cardinality(Crawlers) \in Nat
      /\ Cardinality(Holders(m)) <= Cardinality(Crawlers)
  BY HoldersCounted
<1>4. /\ evidence[m] + Cardinality(Holders(m)) <= Cardinality(Crawlers)
      /\ attempts[m] + Cardinality(Holders(m)) < MAX_CAPTURE_ATTEMPTS + Cardinality(Crawlers)
  <2>1. CASE state[m] = "pending"
    <3>1. evidence[m] = 0 /\ attempts[m] < MAX_CAPTURE_ATTEMPTS
      BY <1>2, <2>1 DEF CrawlInv, EvidenceMatchesState, LimitInv
    <3> QED
      BY <1>2, <1>3, <3>1
  <2>2. CASE state[m] # "pending"
    BY <2>2 DEF CrawlInv, OverlapInv
  <2> QED
    BY <2>1, <2>2
<1>5. /\ evidence'[m] + Cardinality(Holders(m)') <= Cardinality(Crawlers)
      /\ attempts'[m] + Cardinality(Holders(m)') < MAX_CAPTURE_ATTEMPTS + Cardinality(Crawlers)
  BY <1>1, <1>2, <1>3, <1>4
<1> QED
  BY <1>1, <1>5 DEF CrawlInv, OverlapInv

-----------------------------------------------------------------------------
(* Every step of a crawl keeps the invariant. *)

\* The saves of the first n that no row in S names.
LEMMA UnknownCounted ==
    ASSUME NEW n \in Nat, NEW S
    PROVE  IsFiniteSet((1..n) \ S) /\ Cardinality((1..n) \ S) \in Nat
<1>1. IsFiniteSet(1..n)
  BY FS_Interval
<1> QED
  BY <1>1, FS_Difference, FS_CardinalityType

LEMMA UnknownAdded ==
    ASSUME NEW n \in Nat, NEW S \in SUBSET (1..n)
    PROVE  Cardinality((1..(n + 1)) \ S) = Cardinality((1..n) \ S) + 1
<1> DEFINE U == (1..n) \ S
<1>1. (1..(n + 1)) \ S = U \cup {n + 1} /\ n + 1 \notin U
  OBVIOUS
<1>2. IsFiniteSet(U)
  BY UnknownCounted
<1> HIDE DEF U
<1>3. Cardinality(U \cup {n + 1}) = Cardinality(U) + 1
  BY <1>1, <1>2, FS_AddElement
<1> QED
  BY <1>1, <1>3 DEF U

LEMMA UnknownNamed ==
    ASSUME NEW n \in Nat, NEW S, NEW k \in (1..n) \ S
    PROVE  Cardinality((1..n) \ (S \cup {k})) = Cardinality((1..n) \ S) - 1
<1> DEFINE U == (1..n) \ S
<1>1. (1..n) \ (S \cup {k}) = U \ {k} /\ k \in U
  OBVIOUS
<1>2. IsFiniteSet(U)
  BY UnknownCounted
<1> HIDE DEF U
<1>3. Cardinality(U \ {k}) = Cardinality(U) - 1
  BY <1>1, <1>2, FS_RemoveElement
<1> QED
  BY <1>1, <1>3 DEF U

\* The saves of the archive and the rows that name them, while neither changes.
LEMMA ArchiveKept ==
    ASSUME CrawlInv, UNCHANGED << asked, saves, submitted >>,
           troubles' \in Nat, troubles <= troubles'
    PROVE  UnknownSavesBounded'
<1>1. Cardinality((1..asked) \ saves) \in Nat
  BY Numbers, UnknownCounted DEF CrawlInv
<1>2. Cardinality((1..asked) \ saves) <= troubles + IF submitted = "job" THEN 1 ELSE 0
  BY DEF CrawlInv, UnknownSavesBounded
<1>3. troubles \in Nat
  BY Numbers DEF CrawlInv
<1> QED
  BY <1>1, <1>2, <1>3 DEF UnknownSavesBounded

LEMMA StoreKeeps ==
    ASSUME CrawlInv, NEW c \in Crawlers, _dedupe_and_store(c)
    PROVE  CrawlInv'
<1> USE TotalAssumption, MaxTroublesAssumption
<1>1. UNCHANGED << state, attempts, evidence, logged, asked, saves, submitted, work, inTxn, troubles >>
  BY DEF _dedupe_and_store, archive
<1>2. PICK n \in 0..(Total - found) : found' = found + n
  BY DEF _dedupe_and_store, gather_hits
<1>3. inTxn = Nobody /\ phase' = [phase EXCEPT ![c] = "stored"]
  BY DEF _dedupe_and_store, CanWrite
<1>4. TypeOK'
  <2>1. found' \in 0..Total /\ 1..found \subseteq 1..found'
    BY <1>2, Numbers DEF CrawlInv
  <2>2. work' \in [Crawlers -> SUBSET (1..found')]
    BY <1>1, <2>1 DEF CrawlInv, TypeOK
  <2> QED
    BY <1>1, <1>3, <2>1, <2>2 DEF CrawlInv, TypeOK
<1>5. TxnInv'
  BY <1>1, <1>3 DEF CrawlInv, TxnInv
<1>6. OverlapInv'
  BY <1>1, <1>4, OverlapKept DEF Holders
<1>7. UnknownSavesBounded'
  <2>1. troubles \in Nat
    BY Numbers DEF CrawlInv
  <2> QED
    BY <1>1, <2>1, ArchiveKept
<1> QED
  BY <1>1, <1>4, <1>5, <1>6, <1>7
  DEF CrawlInv, EvidenceMatchesState, DecisionsLogged, LimitInv

\* A list read now holds pending mentions only.
LEMMA ReadKeeps ==
    ASSUME CrawlInv, NEW c \in Crawlers, ReadPending(c)
    PROVE  CrawlInv'
<1>1. UNCHANGED << found, state, attempts, evidence, logged, asked, saves, submitted, inTxn, troubles >>
  BY DEF ReadPending, rows, archive
<1>2. /\ phase[c] = "stored"
      /\ work' = [work EXCEPT ![c] = _pending_captures]
      /\ phase' = [phase EXCEPT ![c] = "capturing"]
  BY DEF ReadPending
<1>3. _pending_captures \subseteq {m \in 1..found : state[m] = "pending"}
  BY DEF _pending_captures, Owed, IsOwed
<1>4. TypeOK'
  <2>1. work' \in [Crawlers -> SUBSET (1..found)]
    BY <1>2, <1>3 DEF CrawlInv, TypeOK
  <2> QED
    BY <1>1, <1>2, <2>1 DEF CrawlInv, TypeOK
<1>5. TxnInv'
  <2>1. inTxn # c
    BY <1>2, NobodyAssumption DEF CrawlInv, TxnInv, TypeOK
  <2> QED
    BY <1>1, <1>2, <2>1 DEF CrawlInv, TxnInv, TypeOK
<1>6. OverlapInv'
  <2>1. ASSUME NEW m \in Mentions, state[m] # "pending"
        PROVE  Holders(m)' \subseteq Holders(m)
    BY <1>2, <1>3, <2>1 DEF CrawlInv, TypeOK, Holders
  <2> QED
    BY <1>1, <1>4, <2>1, OverlapKept
<1>7. UnknownSavesBounded'
  <2>1. troubles \in Nat
    BY Numbers DEF CrawlInv
  <2> QED
    BY <1>1, <2>1, ArchiveKept
<1> QED
  BY <1>1, <1>4, <1>5, <1>6, <1>7
  DEF CrawlInv, EvidenceMatchesState, DecisionsLogged, LimitInv

\* A mention that is left: what every outcome of a visit has in common.
LEMMA LeaveTyped ==
    ASSUME CrawlInv, NEW c \in Crawlers, NEW m, Leave(c, m)
    PROVE  /\ work' \in [Crawlers -> SUBSET (1..found)]
           /\ \A d \in Crawlers : d # c => work'[d] = work[d]
BY DEF CrawlInv, TypeOK, Leave

LEMMA LeavePendingKeeps ==
    ASSUME CrawlInv, NEW c \in Crawlers, LeavePending(c)
    PROVE  CrawlInv'
<1>1. UNCHANGED << found, state, attempts, evidence, logged, asked, saves, submitted, phase, inTxn >>
  BY DEF LeavePending, rows, archive
<1>2. /\ work[c] # {} /\ inTxn # c
      /\ work' = [work EXCEPT ![c] = @ \ {Current(c)}]
      /\ work' \in [Crawlers -> SUBSET (1..found)]
      /\ \A d \in Crawlers : d # c => work'[d] = work[d]
  BY LeaveTyped DEF LeavePending, Visiting, Leave
<1>3. troubles' \in 0..MaxTroubles /\ troubles <= troubles'
  <2>1. troubles' = troubles \/ (troubles < MaxTroubles /\ troubles' = troubles + 1)
    BY DEF LeavePending
  <2>2. troubles \in 0..MaxTroubles
    BY DEF CrawlInv, TypeOK
  <2> QED
    BY <2>1, <2>2, MaxTroublesAssumption
<1>4. TypeOK'
  BY <1>1, <1>2, <1>3 DEF CrawlInv, TypeOK
<1>5. TxnInv'
  BY <1>1, <1>2 DEF CrawlInv, TxnInv, TypeOK
<1>6. OverlapInv'
  <2>1. ASSUME NEW m \in Mentions PROVE Holders(m)' \subseteq Holders(m)
    BY <1>2 DEF Holders, CrawlInv, TypeOK
  <2> QED
    BY <1>1, <1>4, <2>1, OverlapKept
<1>7. UnknownSavesBounded'
  BY <1>1, <1>3, MaxTroublesAssumption, ArchiveKept
<1> QED
  BY <1>1, <1>4, <1>5, <1>6, <1>7
  DEF CrawlInv, EvidenceMatchesState, DecisionsLogged, LimitInv

LEMMA SkipKeeps ==
    ASSUME CrawlInv, NEW c \in Crawlers, Skip(c)
    PROVE  CrawlInv'
<1> DEFINE m == Current(c)
<1>1. /\ UNCHANGED << found, attempts, evidence, asked, saves, submitted, phase, inTxn, troubles >>
      /\ state' = [state EXCEPT ![m] = "skipped"]
      /\ logged' = [logged EXCEPT ![m] = "skipped"]
  BY DEF Skip, archive, _record_capture_state
<1>2. inTxn = Nobody /\ work[c] # {} /\ Leave(c, m)
  BY DEF Skip, CanWrite, Visiting
<1>3. m \in Mentions /\ m \in work[c]
  BY <1>2, CurrentHeld DEF CrawlInv
<1> HIDE DEF m
<1>4. TypeOK'
  BY <1>1, <1>2, LeaveTyped DEF CrawlInv, TypeOK, CAPTURE_STATES, Decisions
<1>5. TxnInv'
  BY <1>1, <1>2 DEF CrawlInv, TxnInv
<1>6. EvidenceMatchesState' /\ DecisionsLogged' /\ LimitInv'
  BY <1>1 DEF CrawlInv, TypeOK, EvidenceMatchesState, DecisionsLogged, LimitInv
<1>7. OverlapInv'
  BY <1>1, <1>2, <1>3, DecideKept DEF CrawlInv, TypeOK
<1>8. UnknownSavesBounded'
  BY <1>1, Numbers, ArchiveKept DEF CrawlInv
<1> QED
  BY <1>4, <1>5, <1>6, <1>7, <1>8 DEF CrawlInv

\* The attempt that reaches the limit is the one that gives the mention up.
LEMMA FailKeeps ==
    ASSUME CrawlInv, NEW c \in Crawlers, CaptureFailed(c)
    PROVE  CrawlInv'
<1> DEFINE m == Current(c)
           n == attempts[m] + 1
<1>1. /\ UNCHANGED << found, evidence, asked, saves, submitted, phase, inTxn, troubles >>
      /\ attempts' = [attempts EXCEPT ![m] = n]
      /\ IF n >= MAX_CAPTURE_ATTEMPTS
         THEN /\ state' = [state EXCEPT ![m] = "failed"]
              /\ logged' = [logged EXCEPT ![m] = "failed"]
         ELSE UNCHANGED << state, logged >>
  BY DEF CaptureFailed, archive, _record_capture_state, AtLimit
<1>2. inTxn = Nobody /\ work[c] # {} /\ Leave(c, m)
  BY DEF CaptureFailed, CanWrite, Visiting
<1>3. m \in Mentions /\ m \in work[c]
  BY <1>2, CurrentHeld DEF CrawlInv
<1>4. n \in Nat
  <2>1. attempts[m] \in Nat
    BY <1>3 DEF CrawlInv, TypeOK
  <2> QED
    BY <2>1
<1> HIDE DEF m, n
<1>5. TypeOK'
  <2>1. state' \in [Mentions -> CAPTURE_STATES] /\ logged' \in [Mentions -> CAPTURE_STATES]
    BY <1>1 DEF CrawlInv, TypeOK, CAPTURE_STATES, Decisions
  <2>2. attempts' \in [Mentions -> Nat]
    BY <1>1, <1>4 DEF CrawlInv, TypeOK
  <2> QED
    BY <1>1, <1>2, <2>1, <2>2, LeaveTyped DEF CrawlInv, TypeOK
<1>6. TxnInv'
  BY <1>1, <1>2 DEF CrawlInv, TxnInv
<1>7. EvidenceMatchesState' /\ DecisionsLogged'
  BY <1>1 DEF CrawlInv, TypeOK, EvidenceMatchesState, DecisionsLogged
<1>8. LimitInv'
  <2>1. CASE n >= MAX_CAPTURE_ATTEMPTS
    BY <1>1, <1>3, <2>1 DEF CrawlInv, TypeOK, LimitInv
  <2>2. CASE ~ n >= MAX_CAPTURE_ATTEMPTS
    <3>1. state[m] # "failed" /\ n < MAX_CAPTURE_ATTEMPTS
      <4>1. attempts[m] \in Nat /\ (state[m] = "failed" => attempts[m] >= MAX_CAPTURE_ATTEMPTS)
        BY <1>3 DEF CrawlInv, TypeOK, LimitInv
      <4> QED
        BY <2>2, <4>1, MaxAttemptsAssumption DEF n
    <3> QED
      BY <1>1, <1>3, <2>2, <3>1 DEF CrawlInv, TypeOK, LimitInv
  <2> QED
    BY <2>1, <2>2
<1>9. OverlapInv'
  <2>1. attempts'[m] = attempts[m] + 1
    BY <1>1, <1>3 DEF CrawlInv, TypeOK, n
  <2> QED
    BY <1>1, <1>2, <1>3, <2>1, DecideKept DEF CrawlInv, TypeOK
<1>10. UnknownSavesBounded'
  BY <1>1, Numbers, ArchiveKept DEF CrawlInv
<1> QED
  BY <1>5, <1>6, <1>7, <1>8, <1>9, <1>10 DEF CrawlInv

LEMMA BeginKeeps ==
    ASSUME CrawlInv, NEW c \in Crawlers, BeginCapture(c)
    PROVE  CrawlInv'
<1>1. /\ UNCHANGED << found, state, attempts, evidence, logged, asked, saves,
                      submitted, phase, work, troubles >>
      /\ inTxn' = c
  BY DEF BeginCapture, EvidenceInTxn, archive
<1>2. phase[c] = "capturing" /\ work[c] # {} /\ inTxn = Nobody
  BY DEF BeginCapture, Visiting, CanWrite
<1>3. TypeOK'
  BY <1>1 DEF CrawlInv, TypeOK
<1>4. TxnInv'
  BY <1>1, <1>2 DEF CrawlInv, TxnInv
<1>5. OverlapInv'
  BY <1>1, <1>3, OverlapKept DEF Holders
<1>6. UnknownSavesBounded'
  BY <1>1, Numbers, ArchiveKept DEF CrawlInv
<1> QED
  BY <1>1, <1>3, <1>4, <1>5, <1>6
  DEF CrawlInv, EvidenceMatchesState, DecisionsLogged, LimitInv

\* A save the archive takes on is unknown until the transaction commits.
LEMMA SubmitKeeps ==
    ASSUME CrawlInv, NEW c \in Crawlers, submit_archive(c)
    PROVE  CrawlInv'
<1>1. /\ UNCHANGED << found, state, attempts, evidence, logged, saves, phase, work, inTxn >>
      /\ inTxn = c /\ submitted = "not yet"
      /\ submitted' \in {"job", "no job"}
  BY DEF submit_archive, rows, crawls
<1>2. asked \in Nat /\ saves \subseteq 1..asked /\ troubles \in 0..MaxTroubles
  BY DEF CrawlInv, TypeOK
<1>3. /\ asked' = asked \/ asked' = asked + 1
      /\ troubles' = troubles \/ (troubles < MaxTroubles /\ troubles' = troubles + 1)
      /\ submitted' = "job" => asked' = asked + 1 /\ troubles' = troubles
      /\ submitted' # "job" => asked' = asked \/ troubles' = troubles + 1
  BY DEF submit_archive
<1>4. asked' \in Nat /\ saves \subseteq 1..asked' /\ troubles' \in 0..MaxTroubles
  <2>1. troubles' \in 0..MaxTroubles
    <3>1. troubles' = troubles \/ (troubles < MaxTroubles /\ troubles' = troubles + 1)
      BY <1>3
    <3> QED
      BY <1>2, <3>1, MaxTroublesAssumption
  <2>2. asked' \in Nat /\ saves \subseteq 1..asked'
    <3>1. CASE asked' = asked
      BY <1>2, <3>1
    <3>2. CASE asked' = asked + 1
      BY <1>2, <3>2
    <3> QED
      BY <1>3, <3>1, <3>2
  <2> QED
    BY <2>1, <2>2
<1>5. TypeOK'
  BY <1>1, <1>4 DEF CrawlInv, TypeOK
<1>6. TxnInv'
  <2>1. submitted' = "job" => asked' > 0 /\ asked' \notin saves
    BY <1>2, <1>3
  <2>2. inTxn # Nobody
    BY <1>1, NobodyAssumption
  <2> QED
    BY <1>1, <2>1, <2>2 DEF CrawlInv, TxnInv
<1>7. OverlapInv'
  BY <1>1, <1>5, OverlapKept DEF Holders
<1>8. UnknownSavesBounded'
  <2> DEFINE u == Cardinality((1..asked) \ saves)
             v == Cardinality((1..asked') \ saves')
  <2>1. u \in Nat
    BY <1>2, UnknownCounted
  <2>2. u <= troubles
    <3>1. u <= troubles + 0
      BY <1>1 DEF CrawlInv, UnknownSavesBounded
    <3> QED
      BY <1>2, <2>1, <3>1
  <2>3. CASE asked' = asked
    <3>1. v = u
      BY <1>1, <2>3
    <3> HIDE DEF u, v
    <3>2. v <= troubles' + 0 /\ v <= troubles' + 1
      <4>1. CASE troubles' = troubles
        BY <1>2, <2>1, <2>2, <3>1, <4>1
      <4>2. CASE troubles' = troubles + 1
        BY <1>2, <2>1, <2>2, <3>1, <4>2
      <4> QED
        BY <1>3, <4>1, <4>2
    <3> QED
      BY <3>2 DEF v, UnknownSavesBounded
  <2>4. CASE asked' = asked + 1
    <3>1. v = u + 1
      BY <1>1, <1>2, <2>4, UnknownAdded
    <3> HIDE DEF u, v
    <3>2. CASE submitted' = "job"
      <4>1. troubles' = troubles
        BY <1>3, <3>2
      <4>2. v <= troubles' + 1
        BY <1>2, <2>1, <2>2, <3>1, <4>1
      <4> QED
        BY <3>2, <4>2 DEF v, UnknownSavesBounded
    <3>3. CASE submitted' # "job"
      <4>1. troubles' = troubles + 1
        BY <1>2, <1>3, <2>4, <3>3
      <4>2. v <= troubles' + 0
        BY <1>2, <2>1, <2>2, <3>1, <4>1
      <4> QED
        BY <3>3, <4>2 DEF v, UnknownSavesBounded
    <3> QED
      BY <3>2, <3>3
  <2> QED
    BY <1>3, <2>3, <2>4
<1> QED
  BY <1>1, <1>5, <1>6, <1>7, <1>8
  DEF CrawlInv, EvidenceMatchesState, DecisionsLogged, LimitInv

LEMMA CommitKeeps ==
    ASSUME CrawlInv, NEW c \in Crawlers, CommitCapture(c)
    PROVE  CrawlInv'
<1> DEFINE m == Current(c)
<1>1. /\ UNCHANGED << found, attempts, asked, phase, troubles >>
      /\ state' = [state EXCEPT ![m] = "captured"]
      /\ logged' = [logged EXCEPT ![m] = "captured"]
      /\ evidence' = [evidence EXCEPT ![m] = @ + 1]
      /\ saves' = IF submitted = "job" THEN saves \cup {asked} ELSE saves
      /\ inTxn' = Nobody /\ submitted' = "not yet"
      /\ inTxn = c /\ Leave(c, m)
  BY DEF CommitCapture, _record_capture_state, JobRecorded
<1>2. work[c] # {}
  BY <1>1, NobodyAssumption DEF CrawlInv, TxnInv
<1>3. m \in Mentions /\ m \in work[c]
  BY <1>2, CurrentHeld DEF CrawlInv
<1>4. asked \in Nat /\ saves \subseteq 1..asked /\ troubles \in Nat
  BY Numbers DEF CrawlInv, TypeOK
<1>5. submitted = "job" => asked > 0 /\ asked \notin saves
  BY DEF CrawlInv, TxnInv
<1>6. evidence[m] \in Nat /\ evidence[m] + 1 \in Nat /\ evidence[m] + 1 > 0
  <2>1. evidence[m] \in Nat
    BY <1>3 DEF CrawlInv, TypeOK
  <2> QED
    BY <2>1
<1> HIDE DEF m
<1>7. TypeOK'
  <2>1. state' \in [Mentions -> CAPTURE_STATES] /\ logged' \in [Mentions -> CAPTURE_STATES]
    BY <1>1 DEF CrawlInv, TypeOK, CAPTURE_STATES, Decisions
  <2>2. evidence' \in [Mentions -> Nat]
    BY <1>1, <1>6 DEF CrawlInv, TypeOK
  <2>3. saves' \subseteq 1..asked
    <3>1. submitted = "job" => asked \in 1..asked
      BY <1>4, <1>5
    <3> QED
      BY <1>1, <1>4, <3>1
  <2>4. work' \in [Crawlers -> SUBSET (1..found)]
    BY <1>1, LeaveTyped
  <2> QED
    BY <1>1, <2>1, <2>2, <2>3, <2>4 DEF CrawlInv, TypeOK
<1>8. TxnInv'
  BY <1>1 DEF TxnInv
<1>9. EvidenceMatchesState' /\ DecisionsLogged' /\ LimitInv'
  <2>1. evidence'[m] > 0
    BY <1>1, <1>3, <1>6 DEF CrawlInv, TypeOK
  <2> QED
    BY <1>1, <2>1 DEF CrawlInv, TypeOK, EvidenceMatchesState, DecisionsLogged, LimitInv
<1>10. OverlapInv'
  <2>1. evidence'[m] = evidence[m] + 1
    BY <1>1, <1>3 DEF CrawlInv, TypeOK
  <2> QED
    BY <1>1, <1>3, <2>1, DecideKept DEF CrawlInv, TypeOK
<1>11. UnknownSavesBounded'
  <2> DEFINE u == Cardinality((1..asked) \ saves)
             v == Cardinality((1..asked') \ saves')
  <2>1. u \in Nat
    BY <1>4, UnknownCounted
  <2>2. u <= troubles + IF submitted = "job" THEN 1 ELSE 0
    BY DEF CrawlInv, UnknownSavesBounded
  <2>3. v = IF submitted = "job" THEN u - 1 ELSE u
    <3>1. submitted = "job" => asked \in (1..asked) \ saves
      BY <1>4, <1>5
    <3> QED
      BY <1>1, <1>4, <3>1, UnknownNamed
  <2> HIDE DEF u, v
  <2>4. v <= troubles + 0
    BY <1>4, <2>1, <2>2, <2>3
  <2> QED
    BY <1>1, <2>4 DEF v, UnknownSavesBounded
<1> QED
  BY <1>7, <1>8, <1>9, <1>10, <1>11 DEF CrawlInv

LEMMA FinishKeeps ==
    ASSUME CrawlInv, NEW c \in Crawlers, Finish(c)
    PROVE  CrawlInv'
<1>1. /\ UNCHANGED << found, state, attempts, evidence, logged, asked, saves,
                      submitted, work, inTxn, troubles >>
      /\ phase' = [phase EXCEPT ![c] = "idle"]
      /\ work[c] = {}
  BY DEF Finish, rows, archive
<1>2. TypeOK'
  BY <1>1 DEF CrawlInv, TypeOK
<1>3. TxnInv'
  BY <1>1 DEF CrawlInv, TypeOK, TxnInv
<1>4. OverlapInv'
  BY <1>1, <1>2, OverlapKept DEF Holders
<1>5. UnknownSavesBounded'
  BY <1>1, Numbers, ArchiveKept DEF CrawlInv
<1> QED
  BY <1>1, <1>2, <1>3, <1>4, <1>5
  DEF CrawlInv, EvidenceMatchesState, DecisionsLogged, LimitInv

\* The rollback forgets a save the archive took on; the crash pays for it.
LEMMA CrashKeeps ==
    ASSUME CrawlInv, NEW c \in Crawlers, Crash(c)
    PROVE  CrawlInv'
<1>1. /\ UNCHANGED << found, state, attempts, evidence, logged, asked, saves >>
      /\ troubles < MaxTroubles /\ troubles' = troubles + 1
      /\ phase' = [phase EXCEPT ![c] = "idle"]
      /\ work' = [work EXCEPT ![c] = {}]
      /\ inTxn' = IF inTxn = c THEN Nobody ELSE inTxn
      /\ submitted' = IF inTxn = c THEN "not yet" ELSE submitted
  BY DEF Crash, rows
<1>2. troubles \in Nat /\ troubles' \in 0..MaxTroubles
  <2>1. troubles \in Nat
    BY Numbers DEF CrawlInv
  <2>2. troubles < MaxTroubles /\ troubles' = troubles + 1
    BY <1>1
  <2> QED
    BY <2>1, <2>2, MaxTroublesAssumption
<1>3. TypeOK'
  BY <1>1, <1>2 DEF CrawlInv, TypeOK
<1>4. TxnInv'
  <2>1. CASE inTxn = c
    BY <1>1, <2>1 DEF TxnInv
  <2>2. CASE inTxn # c
    BY <1>1, <2>2 DEF CrawlInv, TxnInv, TypeOK
  <2> QED
    BY <2>1, <2>2
<1>5. OverlapInv'
  <2>1. ASSUME NEW m \in Mentions PROVE Holders(m)' \subseteq Holders(m)
    BY <1>1 DEF Holders, CrawlInv, TypeOK
  <2> QED
    BY <1>1, <1>3, <2>1, OverlapKept
<1>6. UnknownSavesBounded'
  <2> DEFINE u == Cardinality((1..asked) \ saves)
  <2>1. u \in Nat
    BY Numbers, UnknownCounted DEF CrawlInv
  <2>2. u <= troubles + IF submitted = "job" THEN 1 ELSE 0
    BY DEF CrawlInv, UnknownSavesBounded
  <2>3. (1..asked') \ saves' = (1..asked) \ saves /\ troubles' = troubles + 1
    BY <1>1
  <2> HIDE DEF u
  <2>4. u <= troubles' + 0 /\ u <= troubles' + 1
    BY <1>2, <2>1, <2>2, <2>3
  <2> QED
    BY <2>3, <2>4 DEF u, UnknownSavesBounded
<1> QED
  BY <1>1, <1>3, <1>4, <1>5, <1>6
  DEF CrawlInv, EvidenceMatchesState, DecisionsLogged, LimitInv

-----------------------------------------------------------------------------
(* The invariant, and what it says of every behaviour. *)

LEMMA InitInv == Init => CrawlInv
<1> SUFFICES ASSUME Init PROVE CrawlInv
  OBVIOUS
<1>1. /\ state = [m \in Mentions |-> "pending"]
      /\ logged = [m \in Mentions |-> "pending"]
      /\ attempts = [m \in Mentions |-> 0]
      /\ evidence = [m \in Mentions |-> 0]
      /\ phase = [c \in Crawlers |-> "idle"]
      /\ work = [c \in Crawlers |-> {}]
      /\ inTxn = Nobody
  BY DEF Init
<1>2. found = 0 /\ asked = 0 /\ saves = {} /\ troubles = 0
  BY DEF Init
<1>3. TypeOK
  <2>1. found \in 0..Total /\ troubles \in 0..MaxTroubles
    BY <1>2, TotalAssumption, MaxTroublesAssumption
  <2>2. submitted \in {"not yet", "job", "no job"}
    BY DEF Init
  <2> QED
    BY <1>1, <1>2, <2>1, <2>2 DEF TypeOK, CAPTURE_STATES
<1>4. TxnInv
  BY DEF Init, TxnInv
<1>5. EvidenceMatchesState /\ DecisionsLogged
  BY <1>1 DEF EvidenceMatchesState, DecisionsLogged
<1>6. LimitInv
  BY <1>1, MaxAttemptsAssumption DEF LimitInv
<1>7. OverlapInv
  BY <1>1 DEF OverlapInv
<1>8. UnknownSavesBounded
  <2>1. 1..0 = {}
    OBVIOUS
  <2>2. (1..asked) \ saves = {}
    BY <1>2, <2>1
  <2>3. Cardinality((1..asked) \ saves) = 0
    BY <2>2, FS_EmptySet
  <2> QED
    BY <1>2, <2>3 DEF UnknownSavesBounded
<1> QED
  BY <1>3, <1>4, <1>5, <1>6, <1>7, <1>8 DEF CrawlInv

LEMMA NextInv == CrawlInv /\ [Next]_vars => CrawlInv'
<1> SUFFICES ASSUME CrawlInv, [Next]_vars PROVE CrawlInv'
  OBVIOUS
<1>1. ASSUME NEW c \in Crawlers, Crawl(c) PROVE CrawlInv'
  BY <1>1, StoreKeeps, ReadKeeps, LeavePendingKeeps, SkipKeeps, FailKeeps,
     BeginKeeps, SubmitKeeps, CommitKeeps, FinishKeeps DEF Crawl
<1>2. ASSUME NEW c \in Crawlers, Crash(c) PROVE CrawlInv'
  BY <1>2, CrashKeeps
<1>3. CASE UNCHANGED vars
  BY <1>3 DEF vars, rows, archive, crawls, CrawlInv, TypeOK, TxnInv, EvidenceMatchesState,
              DecisionsLogged, LimitInv, OverlapInv, Holders, UnknownSavesBounded
<1> QED
  BY <1>1, <1>2, <1>3 DEF Next

\* The inductive invariant of overlapping crawls.
THEOREM CrawlInvariant == Spec => []CrawlInv
  BY InitInv, NextInv, PTL DEF Spec

\* The tables, the crawls' lists and the archive's account keep their types.
THEOREM TypeCorrect == Spec => []TypeOK
<1>1. CrawlInv => TypeOK
  BY DEF CrawlInv
<1> QED
  BY <1>1, CrawlInvariant, PTL

\* However crawls overlap and die, the state of a mention and its evidence agree:
\* both are written by the transaction of CommitCapture or by none.
THEOREM EvidenceAgrees == Spec => []EvidenceMatchesState
<1>1. CrawlInv => EvidenceMatchesState
  BY DEF CrawlInv
<1> QED
  BY <1>1, CrawlInvariant, PTL

\* No decision on a mention is missing from the evidence log.
THEOREM DecisionsAreLogged == Spec => []DecisionsLogged
<1>1. CrawlInv => DecisionsLogged
  BY DEF CrawlInv
<1> QED
  BY <1>1, CrawlInvariant, PTL

\* One crawl captures a mention once, any number of crawls at most once each.
THEOREM CapturesAreBounded == Spec => []CapturesBounded
<1>1. CrawlInv => CapturesBounded
  <2> SUFFICES ASSUME CrawlInv, NEW m \in Mentions
               PROVE  evidence[m] <= Cardinality(Crawlers)
    BY DEF CapturesBounded
  <2>1. evidence[m] \in Nat
    BY DEF CrawlInv, TypeOK
  <2>2. CASE state[m] = "pending"
    BY <2>1, <2>2, HoldersCounted DEF CrawlInv, EvidenceMatchesState
  <2>3. CASE state[m] # "pending"
    <3>1. evidence[m] + Cardinality(Holders(m)) <= Cardinality(Crawlers)
      BY <2>3 DEF CrawlInv, OverlapInv
    <3> QED
      BY <2>1, <3>1, HoldersCounted
  <2> QED
    BY <2>2, <2>3
<1> QED
  BY <1>1, CrawlInvariant, PTL

\* A mention is given up at MAX_CAPTURE_ATTEMPTS and not before, and a stale list
\* adds at most one attempt for every other crawl.
THEOREM GivenUpAtTheLimit == Spec => []GivenUpAtLimit
<1>1. CrawlInv => GivenUpAtLimit
  <2> SUFFICES ASSUME CrawlInv, NEW m \in Mentions
               PROVE  attempts[m] <= MAX_CAPTURE_ATTEMPTS + Cardinality(Crawlers) - 1
    BY DEF CrawlInv, LimitInv, GivenUpAtLimit
  <2>1. attempts[m] \in Nat
    BY DEF CrawlInv, TypeOK
  <2>2. CASE state[m] = "pending"
    <3>1. attempts[m] < MAX_CAPTURE_ATTEMPTS
      BY <2>2 DEF CrawlInv, LimitInv
    <3> QED
      BY <2>1, <3>1, HoldersCounted, MaxAttemptsAssumption
  <2>3. CASE state[m] # "pending"
    <3>1. attempts[m] + Cardinality(Holders(m)) < MAX_CAPTURE_ATTEMPTS + Cardinality(Crawlers)
      BY <2>3 DEF CrawlInv, OverlapInv
    <3> QED
      BY <2>1, <3>1, HoldersCounted, MaxAttemptsAssumption
  <2> QED
    BY <2>2, <2>3
<1> QED
  BY <1>1, CrawlInvariant, PTL

\* A crash or a lost answer hides at most one save from the program's own record.
THEOREM UnknownSavesAreBounded == Spec => []UnknownSavesBounded
<1>1. CrawlInv => UnknownSavesBounded
  BY DEF CrawlInv
<1> QED
  BY <1>1, CrawlInvariant, PTL
=============================================================================
