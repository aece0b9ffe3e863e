----------------------------- MODULE DailyDigest -----------------------------
(***************************************************************************)
(* The daily digest and the rows it reports: digest/builder.py over        *)
(* core/runs.py.                                                           *)
(*                                                                         *)
(* Every job writes its row in `runs` before it works and updates it when  *)
(* it ends.  A digest is such a job: it begins its row, reads in one       *)
(* transaction what happened since the last digest of an earlier day,      *)
(* writes the file of its date, and ends its row.  Posts and mentions are  *)
(* reported by the same window and have no duration.                       *)
(*                                                                         *)
(* launchd runs one digest a day, and a person any number beside it, for   *)
(* any date.  The file is emptied when it is opened, and then written.     *)
(***************************************************************************)
EXTENDS Naturals, Sequences, SequencesExt, FiniteSetsExt

CONSTANTS LastDay,     \* bound: the days are 1..LastDay
          MaxRows,     \* bound: rows ever written
          MaxKills,    \* bound: processes that are killed
          MaxAtOnce,   \* bound: digests that run at one time
          NoText       \* a file that is empty, cut short or of two digests at once

ASSUME LastDayAssumption  == LastDay \in Nat \ {0}
ASSUME MaxRowsAssumption  == MaxRows \in Nat
ASSUME MaxKillsAssumption == MaxKills \in Nat
ASSUME AtOnceAssumption   == MaxAtOnce \in Nat

Days == 1..LastDay

VARIABLES
    today,     \* the day of the last row that was begun
    clock,     \* stamps handed out: no two calls of now_iso give the same one
    rows,      \* runs, posts and mentions, in the order they were begun
    live,      \* the rows whose process is still there
    drafts,    \* what each digest has read, and how far it is with its file
    files,     \* the rows the file of each date lists, none without a file
    written,   \* history: every digest written, with the stamps of its reading
               \* and of its writing
    kills

vars == << today, clock, rows, live, drafts, files, written, kills >>

\* A row whose status is "running" has no end yet.  How a run has ended, with
\* "ok", "partial" or "failed", makes no difference to what reads it.
Running == 0
Row     == [kind : {"run", "digest", "fact"}, day : Days, started : Nat, ended : Nat]

Begun(kind, day) == [kind |-> kind, day |-> day, started |-> clock + 1, ended |-> Running]
Ended(i)     == rows[i].ended # Running
IsDigest(i)  == rows[i].kind = "digest"
Digests      == {i \in DOMAIN rows : IsDigest(i)}
LiveDigests  == live \cap Digests

Init ==
    /\ today = 1
    /\ clock = 0
    /\ rows = << >>
    /\ live = {}
    /\ drafts = {}
    /\ files = [d \in Days |-> {}]
    /\ written = {}
    /\ kills = 0

-----------------------------------------------------------------------------
(***************************************************************************)
(* Rows.                                                                   *)
(***************************************************************************)

AddRow(row) ==
    /\ Len(rows) < MaxRows
    /\ rows' = Append(rows, row)
    /\ today' = row.day
    /\ clock' = clock + 1
    /\ UNCHANGED << drafts, files, written, kills >>

\* tracked_run writes the row first; any number of days may have passed.
tracked_run(kind) ==
    /\ kind = "digest" => Cardinality(LiveDigests) < MaxAtOnce
    /\ \E day \in today..LastDay : AddRow(Begun(kind, day))
    /\ live' = live \cup {Len(rows) + 1}

\* A post or a mention, stamped in the transaction that stores it.
RecordFact ==
    /\ \E day \in today..LastDay : AddRow([Begun("fact", day) EXCEPT !.ended = clock + 1])
    /\ UNCHANGED live

DropDraft(i) == drafts' = {r \in drafts : r.by # i}

_finish(i) ==
    /\ rows' = [rows EXCEPT ![i].ended = clock + 1]
    /\ live' = live \ {i}
    /\ DropDraft(i)
    /\ clock' = clock + 1
    /\ UNCHANGED << today, files, written, kills >>

EndRun == \E i \in live \ Digests : _finish(i)

\* A killed process, or one that cannot write its last status, leaves its row
\* "running" for ever, and the file it was writing as it is.
Kill ==
    /\ kills < MaxKills
    /\ kills' = kills + 1
    /\ \E i \in live : live' = live \ {i} /\ DropDraft(i)
    /\ UNCHANGED << today, clock, rows, files, written >>

-----------------------------------------------------------------------------
(***************************************************************************)
(* The digest of a date.                                                   *)
(***************************************************************************)

AnyDone(date)     == {i \in Digests : Ended(i)}
DoneBefore(date)  == {i \in Digests : Ended(i) /\ rows[i].day < date}

SinceItsEnd(i, date) ==
    IF DoneBefore(date) = {} THEN rows[i].day >= date - 1
    ELSE rows[i].started >= rows[Max(DoneBefore(date))].ended
\* At or after the beginning of the last digest of an earlier day, a failed one
\* included; without one, since the beginning of the day before.
InWindow(i, date) ==
    IF DoneBefore(date) = {} THEN rows[i].day >= date - 1
    ELSE rows[i].started >= rows[Max(DoneBefore(date))].started

WholeWindow(date)   == {i \in DOMAIN rows : InWindow(i, date)}
Reportable(date)    == {i \in DOMAIN rows : InWindow(i, date) /\ Ended(i)}

\* For the day the process was started, or with `--date` for any other.
_collect ==
    /\ \E i \in LiveDigests : \E date \in Days :
          /\ \A r \in drafts : r.by # i
          /\ drafts' = drafts \cup {[by |-> i, date |-> date, at |-> clock + 1,
                                     lists |-> Reportable(date),
                                     step |-> "read", alone |-> TRUE]}
    /\ clock' = clock + 1
    /\ UNCHANGED << today, rows, live, files, written, kills >>

Writing(date) == {r \in drafts : r.step = "writing" /\ r.date = date}

\* write_text opens the file, which empties the one the date may have already.
\* Two that have it open at once may each write over the other.
OpenFile ==
    /\ \E r \in drafts :
          LET others == Writing(r.date)
          IN  /\ r.step = "read"
              /\ files' = [files EXCEPT ![r.date] = NoText]
              /\ drafts' = (drafts \ ({r} \cup others))
                      \cup {[s EXCEPT !.alone = FALSE] : s \in others}
                      \cup {[r EXCEPT !.step = "writing", !.alone = others = {}]}
    /\ UNCHANGED << today, clock, rows, live, written, kills >>

\* A part of its text goes into a file that another digest has written meanwhile.
FlushPart ==
    /\ \E r \in drafts : /\ r.step = "writing"
                         /\ files[r.date] # NoText
                         /\ files' = [files EXCEPT ![r.date] = NoText]
    /\ UNCHANGED << today, clock, rows, live, drafts, written, kills >>

\* The last of it is written; if another had the file open too, what is in it may
\* be of both.
CloseFile ==
    /\ \E r \in drafts :
          /\ r.step = "writing"
          /\ \E text \in {r.lists} \cup (IF r.alone THEN {} ELSE {NoText}) :
                files' = [files EXCEPT ![r.date] = text]
          /\ written' = written \cup {[by |-> r.by, date |-> r.date, at |-> r.at,
                                       done |-> clock + 1, lists |-> r.lists]}
          /\ drafts' = (drafts \ {r}) \cup {[r EXCEPT !.step = "written"]}
    /\ clock' = clock + 1
    /\ UNCHANGED << today, rows, live, kills >>

\* A mail that cannot be sent makes the run partial and nothing else.
build_digest == \E r \in drafts : r.step = "written" /\ _finish(r.by)

\* Reading or writing raises, and the file stays as it is.
FailDigest ==
    \E i \in LiveDigests : /\ \A r \in drafts : r.by = i => r.step # "written"
                           /\ _finish(i)

Next ==
    \/ \E kind \in {"run", "digest"} : tracked_run(kind)
    \/ RecordFact \/ EndRun \/ Kill
    \/ _collect \/ OpenFile \/ FlushPart \/ CloseFile \/ build_digest \/ FailDigest

Spec == Init /\ [][Next]_vars

-----------------------------------------------------------------------------
(***************************************************************************)
(* Properties.                                                             *)
(***************************************************************************)

\* Every variable has its type, and a digest lists rows that have ended only.
TypeOK ==
    /\ today \in Days
    /\ clock \in Nat
    /\ rows \in Seq(Row)
    /\ live \subseteq DOMAIN rows
    /\ files \in [Days -> {NoText} \cup SUBSET DOMAIN rows]
    /\ \A r \in drafts : /\ r.by \in LiveDigests /\ r.date \in Days
                         /\ r.lists \subseteq DOMAIN rows
                         /\ r.step \in {"read", "writing", "written"}
    /\ \A w \in written : w.by \in Digests /\ w.date \in Days /\ \A i \in w.lists : Ended(i)
    /\ kills \in 0..MaxKills

Listed(i) == \E w \in written : i \in w.lists

\* The digests written that had read the rows after row i ended.
ReadSince(i) == {w \in written : w.at > rows[i].ended}

\* A digest began after the row did and moved the window on when it ended, and
\* none that had read the row's end was written for the day of that digest or for
\* one before: they failed, were killed or were too early for the row.
PassedBy(i) ==
    \E g \in Digests : /\ Ended(g)
                       /\ rows[g].started > rows[i].started
                       /\ \A w \in ReadSince(i) : rows[g].day < w.date

\* When w read the rows, no digest of a day before its date had ended.
FirstOfAll(w) == \A g \in Digests : Ended(g) /\ rows[g].day < w.date => rows[g].ended > w.at

\* Older than all that the first digest looks back to.
BeforeTime(i) == /\ \A w \in ReadSince(i) : rows[i].day + 1 < w.date
                 /\ \E w \in ReadSince(i) : FirstOfAll(w)

\* Once a digest has read the rows after a row ended and was written, the row is
\* in a written digest, whatever date each was for and however many failed, were
\* killed, repeated or ran at the same time, unless a digest passed it by.
LostOnlyWhenPassedBy ==
    \A i \in DOMAIN rows :
        Ended(i) /\ ReadSince(i) # {} => Listed(i) \/ PassedBy(i) \/ BeforeTime(i)

\* What may take rows out of the file that w wrote: w was made before its date had
\* come, a digest of a day before its date ended only after w had read, or one
\* that had read earlier wrote later.
Overtaken(w) ==
    \/ rows[w.by].day < w.date
    \/ \E g \in Digests : /\ rows[g].day < w.date
                          /\ Ended(g) /\ rows[g].started < w.at /\ w.at < rows[g].ended
    \/ \E v \in written : v.date = w.date /\ v.at < w.at /\ w.done < v.done

\* The file of a date has all that any digest has ever written into it, however
\* often the date was digested again, unless that digest was overtaken or a write
\* has emptied the file and is not, or not yet, complete.
FilesKeepTheirRows ==
    \A w \in written :
        files[w.date] # NoText => w.lists \subseteq files[w.date] \/ Overtaken(w)
=============================================================================
