-------------------------- MODULE ArchivePollProofs --------------------------
(***************************************************************************)
(* The safety of the archive poll for every number of snapshots and of     *)
(* overlapping polls, every backoff and every MAX_ATTEMPTS.  The inductive *)
(* invariant is the type invariant with StatusMatchesAttempts: the count   *)
(* read again inside _record_attempt is below MAX_ATTEMPTS while the row   *)
(* is pending, whatever the stale work list says.  The pace, at the end,   *)
(* needs more: which polls still have a snapshot in hand.                  *)
(***************************************************************************)
EXTENDS ArchivePoll, FiniteSetTheorems, SequenceTheorems, TLAPS

PollInv == TypeOK /\ StatusMatchesAttempts /\ NoAttemptLost

\* The work list read by _due_snapshots holds well-formed items.
LEMMA DueType ==
    ASSUME TypeOK
    PROVE  _due_snapshots \in SUBSET Due
  BY DEF TypeOK, _due_snapshots, Due

\* No attempt has been made on a new row.
LEMMA InitInv == Init => PollInv
  BY MaxAttemptsAssumption, HorizonAssumption, MaxCrashesAssumption
     DEF Init, PollInv, TypeOK, StatusMatchesAttempts, NoAttemptLost, Statuses

\* Taking an item off the work list changes no row.
LEMMA TakeInv ==
    ASSUME PollInv, NEW p \in Pollers, NEW item \in todo[p],
           NEW job \in BOOLEAN, NEW url \in BOOLEAN,
           Take(p, item, job, url)
    PROVE  PollInv'
<1>1. item \in Due
  BY DEF PollInv, TypeOK
<1>2. [item |-> item, hasJob |-> job, url |-> url] \in Answer
  BY <1>1 DEF Answer
<1>3. TypeOK'
  <2>1. todo' \in [Pollers -> SUBSET Due]
    BY DEF PollInv, TypeOK, Take
  <2>2. answer' \in [Pollers -> Answer \cup {NoAnswer}]
    BY <1>2 DEF PollInv, TypeOK, Take
  <2> QED
    BY <2>1, <2>2 DEF PollInv, TypeOK, Take, rows
<1> QED
  BY <1>3 DEF PollInv, StatusMatchesAttempts, NoAttemptLost, Take, rows

\* Recording an answer counts it once, on the row as it is now, and gives the
\* row up exactly when the count reaches MAX_ATTEMPTS.
LEMMA RecordInv ==
    ASSUME PollInv, NEW p \in Pollers, _record_attempt(p)
    PROVE  PollInv'
<1> DEFINE s == answer[p].item.id
           n == attempts[s] + 1
           a == answer[p]
<1>1. a \in Answer
  BY DEF PollInv, TypeOK, _record_attempt
<1>2. s \in Snapshots /\ a.hasJob \in BOOLEAN /\ a.url \in BOOLEAN
  BY <1>1 DEF Answer, Due
<1>3. status[s] = "pending" /\ attempts[s] \in 0..MAX_ATTEMPTS /\ attempts[s] < MAX_ATTEMPTS
  BY <1>2 DEF PollInv, TypeOK, StatusMatchesAttempts, _record_attempt, StillOpen
<1>4. n \in 1..MAX_ATTEMPTS
  BY <1>3, MaxAttemptsAssumption
<1>5. /\ attempts' = [attempts EXCEPT ![s] = n]
      /\ status' = [status EXCEPT ![s] = NextStatus(n, a.url)]
      /\ logged' = [logged EXCEPT ![s] = @ + 1]
      /\ hasJob' = [hasJob EXCEPT ![s] = a.hasJob]
      /\ answer' = [answer EXCEPT ![p] = NoAnswer]
      /\ UNCHANGED << now, todo, crashes >>
  BY DEF _record_attempt, FreshCount
<1>6. /\ NextStatus(n, a.url) \in Statuses
      /\ NextStatus(n, a.url) = "failed" => n = MAX_ATTEMPTS
      /\ NextStatus(n, a.url) = "pending" => n < MAX_ATTEMPTS
  BY <1>4, MaxAttemptsAssumption DEF NextStatus, Statuses
<1> HIDE DEF s, n, a
<1>7. TypeOK'
  BY <1>2, <1>4, <1>5, <1>6 DEF PollInv, TypeOK
<1>8. StatusMatchesAttempts'
  BY <1>2, <1>4, <1>5, <1>6 DEF PollInv, TypeOK, StatusMatchesAttempts
<1>9. NoAttemptLost'
  BY <1>2, <1>5 DEF PollInv, TypeOK, NoAttemptLost, n
<1> QED
  BY <1>7, <1>8, <1>9 DEF PollInv

\* Every step of the poll keeps the inductive invariant.
LEMMA NextInv == PollInv /\ [Next]_vars => PollInv'
<1> SUFFICES ASSUME PollInv, [Next]_vars PROVE PollInv'
  OBVIOUS
<1> USE MaxAttemptsAssumption, HorizonAssumption, MaxCrashesAssumption
<1>1. CASE Tick
  BY <1>1 DEF Tick, PollInv, TypeOK, StatusMatchesAttempts, NoAttemptLost, rows
<1>2. ASSUME NEW p \in Pollers, Start(p) PROVE PollInv'
  BY <1>2, DueType DEF Start, PollInv, TypeOK, StatusMatchesAttempts, NoAttemptLost, rows
<1>3. ASSUME NEW p \in Pollers, Check(p) PROVE PollInv'
  <2>1. PICK item \in todo[p], url \in BOOLEAN : Take(p, item, item.hasJob, url)
    BY <1>3 DEF Check
  <2>2. item.hasJob \in BOOLEAN
    BY DEF PollInv, TypeOK, Due
  <2> QED
    BY <2>1, <2>2, TakeInv
<1>4. ASSUME NEW p \in Pollers, Resubmit(p) PROVE PollInv'
  BY <1>4, TakeInv DEF Resubmit
<1>5. ASSUME NEW p \in Pollers, _record_attempt(p) PROVE PollInv'
  BY <1>5, RecordInv
<1>6. ASSUME NEW p \in Pollers, SkipAnswered(p) PROVE PollInv'
  BY <1>6 DEF SkipAnswered, PollInv, TypeOK, StatusMatchesAttempts, NoAttemptLost, rows
<1>7. ASSUME NEW p \in Pollers, Crash(p) PROVE PollInv'
  BY <1>7 DEF Crash, PollInv, TypeOK, StatusMatchesAttempts, NoAttemptLost, rows
<1>8. CASE UNCHANGED vars
  BY <1>8 DEF vars, PollInv, TypeOK, StatusMatchesAttempts, NoAttemptLost, rows
<1> QED
  BY <1>1, <1>2, <1>3, <1>4, <1>5, <1>6, <1>7, <1>8 DEF Next, Poll

\* The inductive invariant holds in every reachable state.
THEOREM PollInvariant == Spec => []PollInv
  BY InitInv, NextInv, PTL DEF Spec

\* Every variable of the poll has its type; attempts never passes MAX_ATTEMPTS.
THEOREM TypeCorrect == Spec => []TypeOK
<1>1. PollInv => TypeOK
  BY DEF PollInv
<1> QED
  BY <1>1, PollInvariant, PTL

\* A snapshot is given up at MAX_ATTEMPTS answers, neither earlier nor later,
\* and a pending one has an attempt left, however many polls overlap.
THEOREM GivenUpAtMaxAttempts == Spec => []StatusMatchesAttempts
<1>1. PollInv => StatusMatchesAttempts
  BY DEF PollInv
<1> QED
  BY <1>1, PollInvariant, PTL

\* Overlapping polls lose no attempt: the count is the number of logged answers.
THEOREM EveryAttemptCounted == Spec => []NoAttemptLost
<1>1. PollInv => NoAttemptLost
  BY DEF PollInv
<1> QED
  BY <1>1, PollInvariant, PTL

\* No step of any poll, however stale its work list, touches an answered row.
THEOREM AnswersAreFinal == Spec => AnswersFinal
<1> DEFINE Kept == \A s \in Snapshots :
                      status[s] # "pending" =>
                         /\ status'[s] = status[s]
                         /\ attempts'[s] = attempts[s]
                         /\ logged'[s] = logged[s]
<1>1. PollInv /\ [Next]_vars => [Kept]_rows
  <2> SUFFICES ASSUME PollInv, [Next]_vars, rows' # rows PROVE Kept
    OBVIOUS
  <2>1. PICK p \in Pollers : _record_attempt(p)
    BY DEF Next, Poll, Tick, Start, Check, Resubmit, Take, SkipAnswered, Crash, vars
  <2>2. status[answer[p].item.id] = "pending"
    BY <2>1 DEF _record_attempt, StillOpen
  <2> QED
    BY <2>1, <2>2 DEF PollInv, TypeOK, _record_attempt
<1> QED
  BY <1>1, PollInvariant, PTL DEF Spec, AnswersFinal

\* The variables of the abstract backlog, by the refinement mapping.
AbsState == [s \in Snapshots |-> Progress(status[s])]

\* Recording an answer is one attempt of the abstract backlog.
LEMMA RecordIsTry ==
    ASSUME PollInv, NEW p \in Pollers, _record_attempt(p)
    PROVE  AbstractBacklog!Try(answer[p].item.id)
<1> DEFINE s == answer[p].item.id
           n == attempts[s] + 1
           a == answer[p]
<1>1. a \in Answer
  BY DEF PollInv, TypeOK, _record_attempt
<1>2. s \in Snapshots /\ a.url \in BOOLEAN
  BY <1>1 DEF Answer, Due
<1>3. /\ status[s] = "pending" /\ attempts[s] \in Nat /\ attempts[s] < MAX_ATTEMPTS
      /\ logged[s] = attempts[s]
  BY <1>2 DEF PollInv, TypeOK, StatusMatchesAttempts, NoAttemptLost, _record_attempt, StillOpen
<1>4. /\ status' = [status EXCEPT ![s] = NextStatus(n, a.url)]
      /\ logged' = [logged EXCEPT ![s] = @ + 1]
  BY DEF _record_attempt, FreshCount
<1>5. status \in [Snapshots -> Statuses]
  BY DEF PollInv, TypeOK
<1> DEFINE outcome == IF a.url THEN "answered" ELSE AbstractBacklog!Unanswered(n)
<1> HIDE DEF s, n, a
<1>6. AbsState[s] = "owed"
  BY <1>2, <1>3 DEF AbsState, Progress
<1>7. Progress(NextStatus(n, a.url)) = outcome
  <2>1. n \in Nat /\ n <= MAX_ATTEMPTS
    BY <1>3, MaxAttemptsAssumption DEF n
  <2>2. CASE a.url
    BY <2>2 DEF Progress, NextStatus, outcome
  <2>3. CASE ~ a.url
    <3>1. NextStatus(n, a.url) = IF n = MAX_ATTEMPTS THEN "failed" ELSE "pending"
      BY <2>1, <2>3, MaxAttemptsAssumption DEF NextStatus
    <3>2. outcome = IF n = MAX_ATTEMPTS THEN "given up" ELSE "owed"
      BY <2>3 DEF outcome, AbstractBacklog!Unanswered
    <3> QED
      BY <3>1, <3>2 DEF Progress
  <2> QED
    BY <2>2, <2>3
<1>8. AbsState' = [AbsState EXCEPT ![s] = outcome]
  <2>1. AbsState' = [t \in Snapshots |-> Progress(status'[t])]
    BY DEF AbsState
  <2>2. \A t \in Snapshots : status'[t] = IF t = s THEN NextStatus(n, a.url) ELSE status[t]
    BY <1>2, <1>4, <1>5
  <2>3. AbsState' = [t \in Snapshots |-> IF t = s THEN outcome ELSE Progress(status[t])]
    BY <1>7, <2>1, <2>2
  <2> QED
    BY <1>2, <2>3 DEF AbsState
<1>9. outcome \in {"answered", AbstractBacklog!Unanswered(logged[s] + 1)}
  BY <1>3 DEF outcome, n
<1> QED
  BY <1>4, <1>6, <1>8, <1>9 DEF AbstractBacklog!Try, AbsState, s

\* Every poll, whatever it has read and whenever it dies, makes the attempts of
\* one worker that stops at an answer and gives up at MAX_ATTEMPTS.
THEOREM PollsWorkOffABacklog == Spec => ImplementsBacklog
<1>1. Init => AbstractBacklog!Init
  BY DEF Init, AbstractBacklog!Init, Progress
<1>2. PollInv /\ [Next]_vars => [AbstractBacklog!Next]_<< AbsState, logged >>
  <2> SUFFICES ASSUME PollInv, [Next]_vars, << AbsState, logged >>' # << AbsState, logged >>
               PROVE  AbstractBacklog!Next
    OBVIOUS
  <2>1. UNCHANGED rows => UNCHANGED << AbsState, logged >>
    BY DEF rows, AbsState, Progress
  <2>2. PICK p \in Pollers : _record_attempt(p)
    BY <2>1 DEF Next, Poll, Tick, Start, Check, Resubmit, Take, SkipAnswered, Crash, vars
  <2>3. answer[p].item.id \in Snapshots
    BY <2>2 DEF PollInv, TypeOK, _record_attempt, Answer, Due
  <2> QED
    BY <2>2, <2>3, RecordIsTry DEF AbstractBacklog!Next
<1> QED
  BY <1>1, <1>2, PollInvariant, PTL
  DEF Spec, ImplementsBacklog, AbstractBacklog!Spec, AbstractBacklog!vars, AbsState

-----------------------------------------------------------------------------
(***************************************************************************)
(* The pace.  A stale work list lets an attempt through too early, so the  *)
(* bound on the attempts is not inductive: what counts is how many polls   *)
(* still have the snapshot on their list or an answer about it in hand.    *)
(* Each of them can add one attempt, and only a poll that starts when the  *)
(* snapshot is due adds itself to them.                                    *)
(***************************************************************************)

Holders(s) ==
    {p \in Pollers : \/ \E item \in todo[p] : item.id = s
                     \/ answer[p] # NoAnswer /\ answer[p].item.id = s}

\* A poll acts on a snapshot once.
OncePerPoll ==
    \A p \in Pollers :
        /\ \A i, j \in todo[p] : i.id = j.id => i = j
        /\ answer[p] # NoAnswer => \A i \in todo[p] : i.id # answer[p].item.id

PaceBound ==
    \A s \in Snapshots :
        attempts[s] + Cardinality(Holders(s)) <= Allowed + Cardinality(Pollers) - 1

PaceInv == PollInv /\ OncePerPoll /\ PaceBound

\* A nonempty set of naturals up to n has a least element.
LEMMA Least ==
    ASSUME NEW n \in Nat, NEW S \in SUBSET (0..n), S # {}
    PROVE  \E x \in S : \A y \in S : x <= y
<1> DEFINE Below(x) == {y \in 0..n : y < x}
           B == {Below(x) : x \in S}
           R == StrictSubsetOrdering(0..n)
<1>1. IsWellFoundedOn(R, FiniteSubsetsOf(0..n)) /\ FiniteSubsetsOf(0..n) = SUBSET (0..n)
  <2>1. IsFiniteSet(0..n)
    BY FS_Interval
  <2> QED
    BY <2>1, FS_StrictSubsetOrderingWellFounded, FS_FiniteSubsetsOfFinite
<1>2. B \subseteq SUBSET (0..n) /\ B # {}
  OBVIOUS
<1>3. PICK b \in B : \A a \in B : ~ << a, b >> \in R
  <2> HIDE DEF B, R
  <2> QED
    BY <1>1, <1>2, WFMin
<1>4. PICK x \in S : b = Below(x)
  OBVIOUS
<1>5. ASSUME NEW y \in S PROVE x <= y
  <2> SUFFICES ASSUME y < x PROVE FALSE
    OBVIOUS
  <2>1. y \in Below(x) /\ y \notin Below(y) /\ Below(y) \subseteq Below(x)
    OBVIOUS
  <2>2. << Below(y), Below(x) >> \in R
    BY <2>1 DEF StrictSubsetOrdering
  <2> QED
    BY <1>3, <1>4, <2>2
<1> QED
  BY <1>5

\* The waits are naturals.
LEMMA Waits ==
    /\ Len(BACKOFF) \in Nat
    /\ \A n \in 1..Len(BACKOFF) : BACKOFF[n] \in Nat
  BY BackoffAssumption, LenProperties, ElementOfSeq

\* The sums of the waits exist: the recursion of Waited has a solution.
LEMMA WaitedUnfolds ==
    Waited = [n \in 0..Len(BACKOFF) |-> IF n = 0 THEN 0 ELSE Waited[n - 1] + BACKOFF[n]]
<1> DEFINE L == Len(BACKOFF)
           UpTo(g, k) == g = [n \in 0..k |-> IF n = 0 THEN 0 ELSE g[n - 1] + BACKOFF[n]]
           Bad == {k \in 0..L : ~ \E g : UpTo(g, k)}
<1>1. L \in Nat
  BY Waits
<1>2. Bad = {}
  <2> SUFFICES ASSUME Bad # {} PROVE FALSE
    OBVIOUS
  <2>1. PICK k \in Bad : \A j \in Bad : k <= j
    <3> HIDE DEF Bad, L
    <3>1. Bad \in SUBSET (0..L)
      BY DEF Bad
    <3> QED
      BY <1>1, <3>1, Least
  <2>2. k \in 0..L /\ ~ \E g : UpTo(g, k)
    OBVIOUS
  <2> HIDE DEF L
  <2>3. CASE k = 0
    <3>1. UpTo([n \in 0..0 |-> 0], 0)
      OBVIOUS
    <3> QED
      BY <2>2, <2>3, <3>1
  <2>4. CASE k # 0
    <3>1. k - 1 \in 0..L /\ k - 1 \notin Bad
      BY <1>1, <2>1, <2>2, <2>4
    <3>2. PICK g : UpTo(g, k - 1)
      BY <3>1
    <3> DEFINE h == [n \in 0..k |-> IF n = k THEN g[k - 1] + BACKOFF[k] ELSE g[n]]
    <3>3. UpTo(h, k)
      <4> SUFFICES ASSUME NEW n \in 0..k
                   PROVE  h[n] = IF n = 0 THEN 0 ELSE h[n - 1] + BACKOFF[n]
        OBVIOUS
      <4>1. k \in Nat /\ k > 0
        BY <1>1, <2>2, <2>4
      <4>2. CASE n = k
        BY <4>1, <4>2
      <4>3. CASE n # k
        <5>1. n \in 0..(k - 1) /\ h[n] = g[n]
          BY <4>1, <4>3
        <5>2. g[n] = IF n = 0 THEN 0 ELSE g[n - 1] + BACKOFF[n]
          BY <3>2, <5>1
        <5>3. n # 0 => h[n - 1] = g[n - 1]
          BY <4>1, <4>3
        <5> QED
          BY <5>1, <5>2, <5>3
      <4> QED
        BY <4>2, <4>3
    <3> QED
      BY <2>2, <3>3
  <2> QED
    BY <2>3, <2>4
<1>3. L \notin Bad /\ L \in 0..L
  BY <1>1, <1>2
<1>4. \E g : g = [n \in 0..Len(BACKOFF) |-> IF n = 0 THEN 0 ELSE g[n - 1] + BACKOFF[n]]
  BY <1>3
<1> QED
  BY <1>4 DEF Waited

\* Each sum is a natural and no less than the one before.
LEMMA WaitedGrows ==
    /\ Waited \in [0..Len(BACKOFF) -> Nat]
    /\ \A m \in 0..Len(BACKOFF) : \A n \in 0..m : Waited[n] <= Waited[m]
<1> DEFINE L == Len(BACKOFF)
           Good(k) == Waited[k] \in Nat /\ \A n \in 0..k : Waited[n] <= Waited[k]
           Bad == {k \in 0..L : ~ Good(k)}
<1>1. /\ L \in Nat
      /\ Waited[0] = 0
      /\ \A n \in 1..L : Waited[n] = Waited[n - 1] + BACKOFF[n]
      /\ \A n \in 1..L : BACKOFF[n] \in Nat
  BY Waits, WaitedUnfolds
<1>2. DOMAIN Waited = 0..L /\ Waited = [n \in 0..L |-> Waited[n]]
  BY WaitedUnfolds
<1>3. Bad = {}
  <2> SUFFICES ASSUME Bad # {} PROVE FALSE
    OBVIOUS
  <2>1. PICK k \in Bad : \A j \in Bad : k <= j
    <3> HIDE DEF Bad, L
    <3>1. Bad \in SUBSET (0..L)
      BY DEF Bad
    <3> QED
      BY <1>1, <3>1, Least
  <2>2. k \in 0..L /\ ~ Good(k)
    OBVIOUS
  <2> HIDE DEF L
  <2>3. k # 0
    BY <1>1, <2>2
  <2>4. k - 1 \in 0..L /\ k - 1 \notin Bad /\ k \in 1..L
    BY <1>1, <2>1, <2>2, <2>3
  <2>5. Good(k - 1)
    BY <2>4
  <2>6. Waited[k] = Waited[k - 1] + BACKOFF[k] /\ BACKOFF[k] \in Nat /\ Waited[k - 1] \in Nat
    BY <1>1, <2>4, <2>5
  <2>7. ASSUME NEW n \in 0..k PROVE Waited[n] <= Waited[k]
    <3>1. CASE n = k
      BY <2>6, <3>1
    <3>2. CASE n # k
      <4>1. n \in 0..(k - 1)
        BY <2>4, <3>2
      <4>2. Waited[n] <= Waited[k - 1]
        BY <2>5, <4>1
      <4>3. Waited[n] \in Nat
        <5>1. n \in 0..L /\ ~ k <= n
          BY <1>1, <2>4, <4>1
        <5> QED
          BY <2>1, <5>1
      <4> QED
        BY <2>6, <4>2, <4>3
    <3> QED
      BY <3>1, <3>2
  <2> QED
    BY <2>2, <2>6, <2>7
<1>4. \A k \in 0..L : Good(k)
  BY <1>3
<1> QED
  BY <1>2, <1>4

\* A later attempt is never due earlier.
LEMMA DueInOrder ==
    ASSUME NEW m \in Nat, NEW n \in 0..m
    PROVE  /\ next_attempt_due(m) \in Nat
           /\ next_attempt_due(n) \in Nat
           /\ next_attempt_due(n) <= next_attempt_due(m)
<1> DEFINE L == Len(BACKOFF)
<1>1. L \in Nat
  BY Waits
<1>2. ASSUME NEW k \in Nat PROVE Min({k, L}) = IF k <= L THEN k ELSE L
  BY <1>1 DEF Min
<1>3. Min({m, L}) \in 0..L /\ Min({n, L}) \in 0..Min({m, L})
  BY <1>1, <1>2
<1>4. Min({n, L}) \in 0..L
  BY <1>1, <1>3
<1> QED
  BY <1>3, <1>4, WaitedGrows DEF next_attempt_due

\* The numbers of a state.
LEMMA Numbers ==
    ASSUME TypeOK
    PROVE  /\ MAX_ATTEMPTS \in Nat /\ MAX_ATTEMPTS > 0
           /\ now \in Nat
           /\ Allowed \in Nat
           /\ Cardinality(Pollers) \in Nat /\ Cardinality(Pollers) > 0
           /\ \A s \in Snapshots : attempts[s] \in Nat
<1>1. MAX_ATTEMPTS \in Nat /\ MAX_ATTEMPTS > 0 /\ now \in Nat
  BY MaxAttemptsAssumption, HorizonAssumption DEF TypeOK
<1>2. Allowed \in Nat
  <2>1. IsFiniteSet(0..(MAX_ATTEMPTS - 1))
    BY <1>1, FS_Interval
  <2> QED
    BY <2>1, FS_Subset, FS_CardinalityType DEF Allowed
<1>3. Cardinality(Pollers) \in Nat /\ Cardinality(Pollers) > 0
  BY PollersAssumption, FS_CardinalityType, FS_EmptySet
<1>4. \A s \in Snapshots : attempts[s] \in Nat
  BY <1>1 DEF TypeOK
<1> QED
  BY <1>1, <1>2, <1>3, <1>4

\* No more polls hold a snapshot than there are.
LEMMA HoldersCounted ==
    ASSUME NEW s
    PROVE  /\ IsFiniteSet(Holders(s))
           /\ Cardinality(Holders(s)) \in Nat
           /\ Cardinality(Holders(s)) <= Cardinality(Pollers)
<1>1. Holders(s) \in SUBSET Pollers
  BY DEF Holders
<1> QED
  BY <1>1, PollersAssumption, FS_Subset, FS_CardinalityType

\* When a snapshot is due, one attempt more than it has had is allowed: the
\* earlier ones were due before.
LEMMA DueAllows ==
    ASSUME PollInv, NEW s \in Snapshots, IsDue(s)
    PROVE  attempts[s] + 1 <= Allowed
<1> DEFINE a == attempts[s]
           S == {n \in 0..(MAX_ATTEMPTS - 1) : next_attempt_due(n) <= now}
<1>1. /\ a \in Nat /\ a < MAX_ATTEMPTS /\ MAX_ATTEMPTS \in Nat /\ now \in Nat
      /\ next_attempt_due(a) <= now
  BY Numbers DEF PollInv, StatusMatchesAttempts, IsDue
<1> HIDE DEF a
<1>2. 0..a \in SUBSET S
  <2> SUFFICES ASSUME NEW n \in 0..a PROVE n \in S
    OBVIOUS
  <2>1. next_attempt_due(n) \in Nat /\ next_attempt_due(a) \in Nat
        /\ next_attempt_due(n) <= next_attempt_due(a)
    BY <1>1, DueInOrder
  <2> QED
    BY <1>1, <2>1
<1>3. IsFiniteSet(S)
  <2>1. IsFiniteSet(0..(MAX_ATTEMPTS - 1)) /\ S \in SUBSET (0..(MAX_ATTEMPTS - 1))
    BY <1>1, FS_Interval
  <2> QED
    BY <2>1, FS_Subset
<1>4. Cardinality(0..a) <= Cardinality(S)
  BY <1>2, <1>3, FS_Subset
<1>5. Cardinality(0..a) = a + 1
  BY <1>1, FS_Interval
<1>6. Allowed = Cardinality(S)
  BY DEF Allowed
<1> QED
  BY <1>4, <1>5, <1>6 DEF a

\* Time allows more, never less.
LEMMA AllowedGrows ==
    ASSUME PollInv, Tick
    PROVE  Allowed \in Nat /\ Allowed' \in Nat /\ Allowed <= Allowed'
<1> DEFINE S == {n \in 0..(MAX_ATTEMPTS - 1) : next_attempt_due(n) <= now}
           T == {n \in 0..(MAX_ATTEMPTS - 1) : next_attempt_due(n) <= now + 1}
<1>1. MAX_ATTEMPTS \in Nat /\ now \in Nat /\ now' = now + 1
  BY Numbers DEF PollInv, Tick
<1>2. IsFiniteSet(T)
  <2>1. IsFiniteSet(0..(MAX_ATTEMPTS - 1)) /\ T \in SUBSET (0..(MAX_ATTEMPTS - 1))
    BY <1>1, FS_Interval
  <2> QED
    BY <2>1, FS_Subset
<1>3. S \in SUBSET T
  <2> SUFFICES ASSUME NEW n \in 0..(MAX_ATTEMPTS - 1), next_attempt_due(n) <= now
               PROVE  next_attempt_due(n) <= now + 1
    OBVIOUS
  <2>1. next_attempt_due(n) \in Nat
    BY <1>1, DueInOrder
  <2> QED
    BY <1>1, <2>1
<1>4. Cardinality(S) <= Cardinality(T) /\ Cardinality(S) \in Nat /\ Cardinality(T) \in Nat
  BY <1>2, <1>3, FS_Subset, FS_CardinalityType
<1>5. Allowed = Cardinality(S) /\ Allowed' = Cardinality(T)
  BY <1>1 DEF Allowed
<1> QED
  BY <1>4, <1>5

\* Fewer holders of a snapshot whose count stays keep the bound.
LEMMA FewerHold ==
    ASSUME PollInv, PaceBound, UNCHANGED << attempts, now >>,
           \A s \in Snapshots : Holders(s)' \subseteq Holders(s)
    PROVE  PaceBound'
<1> SUFFICES ASSUME NEW s \in Snapshots
             PROVE  attempts'[s] + Cardinality(Holders(s)')
                       <= Allowed' + Cardinality(Pollers) - 1
  BY DEF PaceBound
<1>1. Cardinality(Holders(s)') <= Cardinality(Holders(s)) /\ Cardinality(Holders(s)') \in Nat
  BY HoldersCounted, FS_Subset, FS_CardinalityType
<1>2. Allowed' = Allowed /\ attempts'[s] = attempts[s]
  BY DEF Allowed
<1>3. attempts[s] + Cardinality(Holders(s)) <= Allowed + Cardinality(Pollers) - 1
  BY DEF PaceBound
<1>4. /\ attempts[s] \in Nat /\ Allowed \in Nat /\ Cardinality(Pollers) \in Nat
      /\ Cardinality(Holders(s)) \in Nat
  BY Numbers, HoldersCounted DEF PollInv
<1> QED
  BY <1>1, <1>2, <1>3, <1>4

\* Nobody holds anything at first.
LEMMA InitPace == Init => PaceInv
<1> SUFFICES ASSUME Init PROVE PaceInv
  OBVIOUS
<1>1. PollInv
  BY InitInv
<1>2. OncePerPoll
  BY DEF Init, OncePerPoll
<1>3. PaceBound
  <2> SUFFICES ASSUME NEW s \in Snapshots
               PROVE  attempts[s] + Cardinality(Holders(s))
                         <= Allowed + Cardinality(Pollers) - 1
    BY DEF PaceBound
  <2>1. Holders(s) = {} /\ attempts[s] = 0
    BY DEF Init, Holders
  <2>2. Cardinality(Holders(s)) = 0
    BY <2>1, FS_EmptySet
  <2> QED
    BY <1>1, <2>1, <2>2, Numbers DEF PollInv
<1> QED
  BY <1>1, <1>2, <1>3 DEF PaceInv

\* A poll that starts adds itself only to the holders of what is due.
LEMMA StartPace ==
    ASSUME PaceInv, NEW p \in Pollers, Start(p)
    PROVE  OncePerPoll' /\ PaceBound'
<1>1. /\ todo' = [todo EXCEPT ![p] = _due_snapshots]
      /\ UNCHANGED << attempts, now, answer >>
      /\ todo \in [Pollers -> SUBSET Due] /\ answer[p] = NoAnswer
  BY DEF Start, Idle, PaceInv, PollInv, TypeOK, rows
<1>2. OncePerPoll'
  <2>1. \A i, j \in _due_snapshots : i.id = j.id => i = j
    BY DEF _due_snapshots
  <2> QED
    BY <1>1, <2>1 DEF OncePerPoll, PaceInv
<1>3. PaceBound'
  <2> SUFFICES ASSUME NEW s \in Snapshots
               PROVE  attempts'[s] + Cardinality(Holders(s)')
                         <= Allowed' + Cardinality(Pollers) - 1
    BY DEF PaceBound
  <2>1. Allowed' = Allowed /\ attempts'[s] = attempts[s]
    BY <1>1 DEF Allowed
  <2>2. /\ attempts[s] \in Nat /\ Allowed \in Nat /\ Cardinality(Pollers) \in Nat
        /\ Cardinality(Holders(s)) \in Nat
    BY Numbers, HoldersCounted DEF PaceInv, PollInv
  <2>3. CASE IsDue(s)
    <3>1. attempts[s] + 1 <= Allowed
      BY <2>3, DueAllows DEF PaceInv
    <3>2. Cardinality(Holders(s)') \in Nat /\ Cardinality(Holders(s)') <= Cardinality(Pollers)
      <4>1. Holders(s)' \in SUBSET Pollers
        BY DEF Holders
      <4> QED
        BY <4>1, PollersAssumption, FS_Subset, FS_CardinalityType
    <3> QED
      BY <2>1, <2>2, <3>1, <3>2
  <2>4. CASE ~ IsDue(s)
    <3>1. \A i \in _due_snapshots : i.id # s
      BY <2>4 DEF _due_snapshots
    <3>2. Holders(s)' \subseteq Holders(s)
      BY <1>1, <3>1 DEF Holders
    <3>3. Cardinality(Holders(s)') <= Cardinality(Holders(s)) /\ Cardinality(Holders(s)') \in Nat
      BY <3>2, HoldersCounted, FS_Subset, FS_CardinalityType
    <3>4. attempts[s] + Cardinality(Holders(s)) <= Allowed + Cardinality(Pollers) - 1
      BY DEF PaceInv, PaceBound
    <3> QED
      BY <2>1, <2>2, <3>3, <3>4
  <2> QED
    BY <2>3, <2>4
<1> QED
  BY <1>2, <1>3

\* Taking an item moves it from the list to the hand of the same poll.
LEMMA TakePace ==
    ASSUME PaceInv, NEW p \in Pollers, NEW item \in todo[p],
           NEW job, NEW url, answer[p] = NoAnswer, Take(p, item, job, url)
    PROVE  OncePerPoll' /\ PaceBound'
<1> DEFINE a == [item |-> item, hasJob |-> job, url |-> url]
<1>1. /\ todo' = [todo EXCEPT ![p] = @ \ {item}]
      /\ answer' = [answer EXCEPT ![p] = a]
      /\ UNCHANGED << attempts, now >>
      /\ todo \in [Pollers -> SUBSET Due] /\ DOMAIN answer = Pollers
      /\ a.item = item
  BY DEF Take, PaceInv, PollInv, TypeOK, rows
<1> HIDE DEF a
<1>2. OncePerPoll'
  BY <1>1 DEF OncePerPoll, PaceInv
<1>3. \A s \in Snapshots : Holders(s)' \subseteq Holders(s)
  BY <1>1 DEF Holders
<1> QED
  BY <1>1, <1>2, <1>3, FewerHold DEF PaceInv

\* The poll that counts an attempt stops holding the snapshot.
LEMMA RecordPace ==
    ASSUME PaceInv, NEW p \in Pollers, _record_attempt(p)
    PROVE  OncePerPoll' /\ PaceBound'
<1>0. PICK s \in Snapshots : s = answer[p].item.id
  BY DEF PaceInv, PollInv, TypeOK, _record_attempt, Answer, Due
<1>1. /\ attempts' = [attempts EXCEPT ![s] = attempts[s] + 1]
      /\ answer' = [answer EXCEPT ![p] = NoAnswer]
      /\ UNCHANGED << now, todo >> /\ answer[p] # NoAnswer
      /\ DOMAIN answer = Pollers /\ DOMAIN attempts = Snapshots
  BY <1>0 DEF _record_attempt, FreshCount, PaceInv, PollInv, TypeOK
<1>3. OncePerPoll'
  BY <1>1 DEF OncePerPoll, PaceInv
<1>4. p \in Holders(s) /\ Holders(s)' = Holders(s) \ {p}
  <2>1. \A i \in todo[p] : i.id # s
    BY <1>0, <1>1 DEF PaceInv, OncePerPoll
  <2> QED
    BY <1>0, <1>1, <2>1 DEF Holders
<1>5. \A t \in Snapshots : Holders(t)' \subseteq Holders(t)
  BY <1>1 DEF Holders
<1>6. PaceBound'
  <2> SUFFICES ASSUME NEW t \in Snapshots
               PROVE  attempts'[t] + Cardinality(Holders(t)')
                         <= Allowed' + Cardinality(Pollers) - 1
    BY DEF PaceBound
  <2>1. Allowed' = Allowed
    BY <1>1 DEF Allowed
  <2>2. /\ attempts[t] \in Nat /\ Allowed \in Nat /\ Cardinality(Pollers) \in Nat
        /\ Cardinality(Holders(t)) \in Nat
    BY Numbers, HoldersCounted DEF PaceInv, PollInv
  <2>3. attempts[t] + Cardinality(Holders(t)) <= Allowed + Cardinality(Pollers) - 1
    BY DEF PaceInv, PaceBound
  <2>4. CASE t = s
    <3>1. attempts'[t] = attempts[t] + 1
      BY <1>1, <2>4
    <3>2. Cardinality(Holders(t)') = Cardinality(Holders(t)) - 1
      BY <1>4, <2>4, HoldersCounted, FS_RemoveElement
    <3> QED
      BY <2>1, <2>2, <2>3, <3>1, <3>2
  <2>5. CASE t # s
    <3>1. attempts'[t] = attempts[t]
      BY <1>1, <2>5
    <3>2. Cardinality(Holders(t)') <= Cardinality(Holders(t)) /\ Cardinality(Holders(t)') \in Nat
      BY <1>5, HoldersCounted, FS_Subset, FS_CardinalityType
    <3> QED
      BY <2>1, <2>2, <2>3, <3>1, <3>2
  <2> QED
    BY <2>4, <2>5
<1> QED
  BY <1>3, <1>6

\* Every step of the poll keeps the pace.
LEMMA NextPace == PaceInv /\ [Next]_vars => PaceInv'
<1> SUFFICES ASSUME PaceInv, [Next]_vars PROVE OncePerPoll' /\ PaceBound'
  BY NextInv DEF PaceInv
<1>1. CASE Tick
  <2>1. UNCHANGED << attempts, todo, answer >>
    BY <1>1 DEF Tick, rows
  <2>2. OncePerPoll'
    BY <2>1 DEF PaceInv, OncePerPoll
  <2>3. PaceBound'
    <3> SUFFICES ASSUME NEW s \in Snapshots
                 PROVE  attempts'[s] + Cardinality(Holders(s)')
                           <= Allowed' + Cardinality(Pollers) - 1
      BY DEF PaceBound
    <3>1. Holders(s)' = Holders(s) /\ attempts'[s] = attempts[s]
      BY <2>1 DEF Holders
    <3>2. attempts[s] + Cardinality(Holders(s)) <= Allowed + Cardinality(Pollers) - 1
      BY DEF PaceInv, PaceBound
    <3>3. attempts[s] \in Nat /\ Cardinality(Pollers) \in Nat /\ Cardinality(Holders(s)) \in Nat
      BY Numbers, HoldersCounted DEF PaceInv, PollInv
    <3>4. Allowed \in Nat /\ Allowed' \in Nat /\ Allowed <= Allowed'
      BY <1>1, AllowedGrows DEF PaceInv
    <3> QED
      BY <3>1, <3>2, <3>3, <3>4
  <2> QED
    BY <2>2, <2>3
<1>2. ASSUME NEW p \in Pollers, Start(p) PROVE OncePerPoll' /\ PaceBound'
  BY <1>2, StartPace
<1>3. ASSUME NEW p \in Pollers, Check(p) PROVE OncePerPoll' /\ PaceBound'
  BY <1>3, TakePace DEF Check
<1>4. ASSUME NEW p \in Pollers, Resubmit(p) PROVE OncePerPoll' /\ PaceBound'
  BY <1>4, TakePace DEF Resubmit
<1>5. ASSUME NEW p \in Pollers, _record_attempt(p) PROVE OncePerPoll' /\ PaceBound'
  BY <1>5, RecordPace
<1>6. ASSUME NEW p \in Pollers, SkipAnswered(p) \/ Crash(p)
      PROVE  OncePerPoll' /\ PaceBound'
  <2>1. /\ answer' = [answer EXCEPT ![p] = NoAnswer]
        /\ todo' = todo \/ todo' = [todo EXCEPT ![p] = {}]
        /\ UNCHANGED << attempts, now >>
        /\ DOMAIN answer = Pollers /\ DOMAIN todo = Pollers
    BY <1>6 DEF SkipAnswered, Crash, rows, PaceInv, PollInv, TypeOK
  <2>2. OncePerPoll'
    BY <2>1 DEF PaceInv, OncePerPoll
  <2>3. \A s \in Snapshots : Holders(s)' \subseteq Holders(s)
    BY <2>1 DEF Holders
  <2> QED
    BY <2>1, <2>2, <2>3, FewerHold DEF PaceInv
<1>7. CASE UNCHANGED vars
  <2>1. UNCHANGED << attempts, now, todo, answer >>
    BY <1>7 DEF vars, rows
  <2>2. OncePerPoll'
    BY <2>1 DEF PaceInv, OncePerPoll
  <2>3. \A s \in Snapshots : Holders(s)' \subseteq Holders(s)
    BY <2>1 DEF Holders
  <2> QED
    BY <2>1, <2>2, <2>3, FewerHold DEF PaceInv
<1> QED
  BY <1>1, <1>2, <1>3, <1>4, <1>5, <1>6, <1>7 DEF Next, Poll

\* The backoff holds up to the overlap: with any number of polls that work on
\* stale lists, a snapshot has at most one attempt too many for every further
\* poll, whatever the waits of BACKOFF.
THEOREM TheBackoffIsKept == Spec => []AttemptsPaced
<1>1. PaceInv => AttemptsPaced
  <2> SUFFICES ASSUME PaceInv, NEW s \in Snapshots
               PROVE  attempts[s] <= Allowed + Cardinality(Pollers) - 1
    BY DEF AttemptsPaced
  <2>1. attempts[s] + Cardinality(Holders(s)) <= Allowed + Cardinality(Pollers) - 1
    BY DEF PaceInv, PaceBound
  <2>2. /\ attempts[s] \in Nat /\ Allowed \in Nat /\ Cardinality(Pollers) \in Nat
        /\ Cardinality(Holders(s)) \in Nat
    BY Numbers, HoldersCounted DEF PaceInv, PollInv
  <2> QED
    BY <2>1, <2>2
<1>2. Spec => []PaceInv
  BY InitPace, NextPace, PTL DEF Spec
<1> QED
  BY <1>1, <1>2, PTL
=============================================================================
