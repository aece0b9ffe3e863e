----------------------------- MODULE ArchivePoll -----------------------------
(***************************************************************************)
(* The archive poll: ingest/archive_poll.py over the backoff of            *)
(* capture/archiver.py.                                                    *)
(*                                                                         *)
(* A poll reads its whole work list in one short transaction, asks the     *)
(* archive about one snapshot at a time with no transaction open, and      *)
(* writes each answer in a transaction of its own.  Scheduled polls        *)
(* overlap, so a work list can be stale by the time it is acted on.  A     *)
(* poll can die (or meet "database is locked") at every point.             *)
(***************************************************************************)
EXTENDS Integers, Sequences, FiniteSets, FiniteSetsExt

CONSTANTS Snapshots, Pollers,
          BACKOFF, MAX_ATTEMPTS,
          NoAnswer,       \* the poll is not holding an answer
          Horizon,        \* bound: the clock stops here
          MaxCrashes      \* bound: polls that die

ASSUME BackoffAssumption     == BACKOFF \in Seq(Nat)
ASSUME MaxAttemptsAssumption == MAX_ATTEMPTS \in Nat \ {0}
ASSUME HorizonAssumption     == Horizon \in Nat
ASSUME MaxCrashesAssumption  == MaxCrashes \in Nat
ASSUME PollersAssumption     == IsFiniteSet(Pollers) /\ Pollers # {}

VARIABLES
    status,     \* archive_snapshots.status
    attempts,   \* archive_snapshots.attempts
    hasJob,     \* archive_snapshots.provider_ref is set
    logged,     \* answers about each snapshot in the evidence log
    now,        \* the clock, counted from submitted_at
    todo,       \* what is left of each poll's work list
    answer,     \* the answer each poll has from the archive and not yet written
    crashes

rows == << status, attempts, hasJob, logged >>
vars == << rows, now, todo, answer, crashes >>

Statuses == {"pending", "confirmed", "failed"}
Due      == [id : Snapshots, attempts : Nat, hasJob : BOOLEAN]
Answer   == [item : Due, hasJob : BOOLEAN, url : BOOLEAN]

\* The sum of the first n waits.
Waited[n \in 0..Len(BACKOFF)] == IF n = 0 THEN 0 ELSE Waited[n - 1] + BACKOFF[n]

\* When attempt number n + 1 may run.
next_attempt_due(n) == Waited[Min({n, Len(BACKOFF)})]

\* submit_archive has stored the row, with a job id unless the submit failed.
Init ==
    /\ status = [s \in Snapshots |-> "pending"]
    /\ attempts = [s \in Snapshots |-> 0]
    /\ hasJob \in [Snapshots -> BOOLEAN]
    /\ logged = [s \in Snapshots |-> 0]
    /\ now = 0
    /\ todo = [p \in Pollers |-> {}]
    /\ answer = [p \in Pollers |-> NoAnswer]
    /\ crashes = 0

Tick ==
    /\ now < Horizon
    /\ now' = now + 1
    /\ UNCHANGED << rows, todo, answer, crashes >>

Idle(p) == todo[p] = {} /\ answer[p] = NoAnswer

NeverDeferred(s) == status[s] = "pending"
OnlyWithJob(s)   == status[s] = "pending" /\ hasJob[s] /\ next_attempt_due(attempts[s]) <= now
IsDue(s)         == status[s] = "pending" /\ next_attempt_due(attempts[s]) <= now

_due_snapshots ==
    {[id |-> s, attempts |-> attempts[s], hasJob |-> hasJob[s]] :
        s \in {t \in Snapshots : IsDue(t)}}

\* A poll that finds nothing due changes nothing.
Start(p) ==
    /\ Idle(p)
    /\ _due_snapshots # {}
    /\ todo' = [todo EXCEPT ![p] = _due_snapshots]
    /\ UNCHANGED << rows, now, answer, crashes >>

Take(p, item, job, url) ==
    /\ todo' = [todo EXCEPT ![p] = @ \ {item}]
    /\ answer' = [answer EXCEPT ![p] = [item |-> item, hasJob |-> job, url |-> url]]
    /\ UNCHANGED << rows, now, crashes >>

\* provider.check answers, finds nothing yet, or raises.
Check(p) ==
    /\ answer[p] = NoAnswer
    /\ \E item \in todo[p], url \in BOOLEAN : Take(p, item, item.hasJob, url)

\* Nothing found and no job to wait for: save again, unless it is the last
\* attempt.  Save Page Now answers with a job id, never with a snapshot; a
\* submit that raises is a Check that found nothing.
Resubmit(p) ==
    /\ answer[p] = NoAnswer
    /\ \E item \in todo[p] :
          /\ ~ item.hasJob
          /\ item.attempts + 1 < MAX_ATTEMPTS
          /\ Take(p, item, TRUE, FALSE)

StillOpen(s) == status[s] = "pending"

StaleCount(a) == a.item.attempts + 1
FreshCount(a) == attempts[a.item.id] + 1

PatientStatus(n, url) ==
    IF url THEN "confirmed" ELSE IF n > MAX_ATTEMPTS THEN "failed" ELSE "pending"
NextStatus(n, url) ==
    IF url THEN "confirmed" ELSE IF n >= MAX_ATTEMPTS THEN "failed" ELSE "pending"

_record_attempt(p) ==
    LET a == answer[p]
        s == a.item.id
        n == FreshCount(a)
    IN  /\ a # NoAnswer
        /\ StillOpen(s)
        /\ attempts' = [attempts EXCEPT ![s] = n]
        /\ hasJob' = [hasJob EXCEPT ![s] = a.hasJob]
        /\ status' = [status EXCEPT ![s] = NextStatus(n, a.url)]
        /\ logged' = [logged EXCEPT ![s] = @ + 1]
        /\ answer' = [answer EXCEPT ![p] = NoAnswer]
        /\ UNCHANGED << now, todo, crashes >>

\* Another poll got the final answer while this one was on the network.
SkipAnswered(p) ==
    /\ answer[p] # NoAnswer
    /\ ~ StillOpen(answer[p].item.id)
    /\ answer' = [answer EXCEPT ![p] = NoAnswer]
    /\ UNCHANGED << rows, now, todo, crashes >>

\* The poll dies: its work list and the answer in its hand are gone.
Crash(p) ==
    /\ ~ Idle(p)
    /\ crashes < MaxCrashes
    /\ crashes' = crashes + 1
    /\ todo' = [todo EXCEPT ![p] = {}]
    /\ answer' = [answer EXCEPT ![p] = NoAnswer]
    /\ UNCHANGED << rows, now >>

Poll(p) == Start(p) \/ Check(p) \/ Resubmit(p) \/ _record_attempt(p) \/ SkipAnswered(p)

Next == Tick \/ \E p \in Pollers : Poll(p) \/ Crash(p)

\* Time passes, the scheduler starts polls again and again, and a poll that is
\* running goes on: every network call has a timeout.
Fairness == WF_vars(Tick) /\ \A p \in Pollers : WF_vars(Poll(p))

Spec == Init /\ [][Next]_vars /\ Fairness

-----------------------------------------------------------------------------
(***************************************************************************)
(* Properties.                                                             *)
(***************************************************************************)

\* Every variable has its type.
TypeOK ==
    /\ status \in [Snapshots -> Statuses]
    /\ attempts \in [Snapshots -> 0..MAX_ATTEMPTS]
    /\ hasJob \in [Snapshots -> BOOLEAN]
    /\ logged \in [Snapshots -> Nat]
    /\ now \in 0..Horizon
    /\ todo \in [Pollers -> SUBSET Due]
    /\ answer \in [Pollers -> Answer \cup {NoAnswer}]
    /\ crashes \in 0..MaxCrashes

\* A snapshot is given up exactly at MAX_ATTEMPTS answers, never earlier and
\* never later, and one still pending has an attempt left, however many polls
\* count at the same time.
StatusMatchesAttempts ==
    \A s \in Snapshots :
        /\ status[s] = "failed" => attempts[s] = MAX_ATTEMPTS
        /\ status[s] = "pending" => attempts[s] < MAX_ATTEMPTS

\* Overlapping polls do not lose an attempt: the count on the row is the number
\* of answers the evidence log holds about it.
NoAttemptLost == \A s \in Snapshots : attempts[s] = logged[s]

\* attempts a run of polls that never overlap can have made by now.
Allowed == Cardinality({n \in 0..(MAX_ATTEMPTS - 1) : next_attempt_due(n) <= now})

\* The backoff holds up to the overlap: stale work lists let through at most
\* one attempt too early for every further poll that runs at the same time.
AttemptsPaced ==
    \A s \in Snapshots : attempts[s] <= Allowed + Cardinality(Pollers) - 1

\* A final answer is never reopened, changed or counted further by a poll that
\* asked before it was final and heard later.
AnswersFinal ==
    [][ \A s \in Snapshots :
          status[s] # "pending" =>
             /\ status'[s] = status[s]
             /\ attempts'[s] = attempts[s]
             /\ logged'[s] = logged[s] ]_rows

\* A status as the backlog sees it.
Progress(st) ==
    IF st = "pending" THEN "owed" ELSE IF st = "confirmed" THEN "answered" ELSE "given up"

AbstractBacklog == INSTANCE Backlog WITH
    Items <- Snapshots,
    Limit <- MAX_ATTEMPTS,
    state <- [s \in Snapshots |-> Progress(status[s])],
    tries <- logged

\* However many polls overlap and die with stale work lists, the rows and the
\* attempts in the evidence log are those of one worker that makes one attempt
\* after the other, stops at an answer and gives up at the limit.
ImplementsBacklog == AbstractBacklog!Spec

\* Every archive request is answered in the end, confirmed or given up.
EveryRequestAnswered ==
    \A s \in Snapshots : status[s] = "pending" ~> status[s] # "pending"
=============================================================================
