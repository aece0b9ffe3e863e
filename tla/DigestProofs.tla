---------------------------- MODULE DigestProofs -----------------------------
(***************************************************************************)
(* The digest of a day and the classification of mentions, which share no  *)
(* state, in two parts.                                                    *)
(*                                                                         *)
(* DailyDigest: the digests and the rows they report, for any number of    *)
(* days, of rows, of kills and of digests at one time, made for any dates. *)
(*                                                                         *)
(* Nothing is settled when a digest reads: others run beside it and may    *)
(* end at any time, with a date before its own.  But what it has read can  *)
(* be told for ever after from the stamps in the rows (Reading): whatever  *)
(* ends later has a later stamp than the reading.  Two readings for one    *)
(* date then differ only by the digests that ended in between, and these   *)
(* are the ones that PassedBy and Overtaken name.                          *)
(*                                                                         *)
(* Mentions, for every set of URLs, hits, notes and crawls: the table, the *)
(* log and the hits stored so far are one sound database (Sound), and      *)
(* merging a hit, writing tags and the owner's changes each keep it so.    *)
(***************************************************************************)
EXTENDS DailyDigest, Mentions, FiniteSetTheorems, SequenceTheorems, TLAPS

\* Rows are in the order of their stamps and days, and none is of the future.
RowInv ==
    /\ \A i, j \in DOMAIN rows :
          i < j => rows[i].started < rows[j].started /\ rows[i].day <= rows[j].day
    /\ \A i \in DOMAIN rows : /\ rows[i].day <= today
                              /\ rows[i].started <= clock
                              /\ rows[i].ended <= clock
    /\ \A i \in live : rows[i].ended = Running

\* What a reading at a time for a date looked back to, and what it found.
DoneThen(at, date) == {g \in DoneBefore(date) : rows[g].ended < at}

FoundThen(i, at, date) ==
    /\ Ended(i) /\ rows[i].ended < at
    /\ DoneThen(at, date) = {} => rows[i].day >= date - 1
    /\ \A g \in DoneThen(at, date) : rows[i].started >= rows[g].started

Reading(by, date, at, lists) ==
    /\ by \in Digests /\ date \in Days
    /\ at \in Nat /\ at <= clock /\ rows[by].started < at
    /\ \A i \in DOMAIN rows : rows[i].ended # at
    /\ lists \subseteq DOMAIN rows
    /\ \A i \in DOMAIN rows : i \in lists <=> FoundThen(i, at, date)

Draft == [by : Nat, date : Days, at : Nat, lists : SUBSET Nat,
          step : {"read", "writing", "written"}, alone : BOOLEAN]

DraftInv ==
    \A r \in drafts : r \in Draft /\ r.by \in live /\ Reading(r.by, r.date, r.at, r.lists)

WrittenInv ==
    \A w \in written : Reading(w.by, w.date, w.at, w.lists) /\ w.done \in Nat /\ w.done <= clock

\* The last that was written for its date.
Latest(v) == \A w \in written : w.date = v.date => w = v \/ w.done < v.done

FileInv ==
    \A d \in Days :
        \/ files[d] = NoText
        \/ \A w \in written : w.date # d
        \/ \E v \in written : v.date = d /\ files[d] = v.lists /\ Latest(v)

DigestInv == TypeOK /\ RowInv /\ DraftInv /\ WrittenInv /\ FileInv

-----------------------------------------------------------------------------
(* The largest and the least. *)

\* A set of indices that is not empty has a largest one.
LEMMA MaxOf ==
    ASSUME NEW n \in Nat, NEW S \in SUBSET (1..n), S # {}
    PROVE  Max(S) \in S /\ \A y \in S : Max(S) >= y
<1> DEFINE Above(x) == {y \in 1..n : y > x}
           B == {Above(x) : x \in S}
           R == StrictSubsetOrdering(1..n)
<1>1. IsFiniteSet(1..n)
  BY FS_Interval
<1>2. IsWellFoundedOn(R, FiniteSubsetsOf(1..n)) /\ FiniteSubsetsOf(1..n) = SUBSET (1..n)
  BY <1>1, FS_StrictSubsetOrderingWellFounded, FS_FiniteSubsetsOfFinite
<1>3. B \subseteq SUBSET (1..n) /\ B # {}
  OBVIOUS
<1>4. PICK b \in B : \A a \in B : ~ << a, b >> \in R
  <2> HIDE DEF B, R
  <2> QED
    BY <1>2, <1>3, WFMin
<1>5. PICK x \in S : b = Above(x)
  OBVIOUS
<1>6. ASSUME NEW y \in S PROVE x >= y
  <2> SUFFICES ASSUME y > x PROVE FALSE
    OBVIOUS
  <2>1. y \in Above(x) /\ y \notin Above(y) /\ Above(y) \subseteq Above(x)
    OBVIOUS
  <2>2. << Above(y), Above(x) >> \in R
    BY <2>1 DEF StrictSubsetOrdering
  <2> QED
    BY <1>4, <1>5, <2>2
<1> QED
  BY <1>6 DEF Max

\* A function into the days has a least value on a set that is not empty.
LEMMA EarliestOf ==
    ASSUME NEW W, W # {}, NEW day \in [W -> Days]
    PROVE  \E w \in W : \A v \in W : day[w] <= day[v]
<1> DEFINE Before(w) == {d \in Days : d < day[w]}
           B == {Before(w) : w \in W}
           R == StrictSubsetOrdering(Days)
<1>1. LastDay \in Nat /\ Days \subseteq Nat
  BY LastDayAssumption DEF Days
<1>2. IsFiniteSet(Days)
  BY <1>1, FS_Interval DEF Days
<1>3. IsWellFoundedOn(R, FiniteSubsetsOf(Days)) /\ FiniteSubsetsOf(Days) = SUBSET Days
  BY <1>2, FS_StrictSubsetOrderingWellFounded, FS_FiniteSubsetsOfFinite
<1>4. B \subseteq SUBSET Days /\ B # {}
  OBVIOUS
<1>5. PICK b \in B : \A a \in B : ~ << a, b >> \in R
  <2> HIDE DEF B, R
  <2> QED
    BY <1>3, <1>4, WFMin
<1>6. PICK w \in W : b = Before(w)
  OBVIOUS
<1>7. ASSUME NEW v \in W PROVE day[w] <= day[v]
  <2>1. day[w] \in Days /\ day[v] \in Days /\ day[w] \in Nat /\ day[v] \in Nat
    BY <1>1
  <2> SUFFICES ASSUME day[v] < day[w] PROVE FALSE
    BY <2>1
  <2>2. day[v] \in Before(w) /\ day[v] \notin Before(v)
    BY <2>1
  <2>3. ASSUME NEW d \in Before(v) PROVE d \in Before(w)
    <3>1. d \in Days /\ d \in Nat /\ d < day[v]
      BY <1>1
    <3>2. d < day[w]
      BY <2>1, <3>1
    <3> QED
      BY <3>1, <3>2
  <2>4. << Before(v), Before(w) >> \in R
    <3>1. Before(v) \in SUBSET Days /\ Before(w) \in SUBSET Days
      OBVIOUS
    <3> HIDE DEF Before
    <3> QED
      BY <2>2, <2>3, <3>1 DEF StrictSubsetOrdering
  <2> QED
    BY <1>5, <1>6, <2>4
<1> QED
  BY <1>7

-----------------------------------------------------------------------------
(* How the rows change. *)

LEMMA Numbers ==
    ASSUME TypeOK
    PROVE  /\ LastDay \in Nat /\ Days \subseteq Nat /\ today \in Days /\ today \in Nat
           /\ clock \in Nat
           /\ Len(rows) \in Nat /\ DOMAIN rows = 1..Len(rows)
           /\ \A i \in DOMAIN rows : /\ rows[i] \in Row
                                     /\ rows[i].day \in Days /\ rows[i].day \in Nat
                                     /\ rows[i].started \in Nat /\ rows[i].ended \in Nat
<1>1. LastDay \in Nat /\ Days \subseteq Nat
  BY LastDayAssumption DEF Days
<1>2. rows \in Seq(Row) /\ clock \in Nat /\ today \in Days
  BY DEF TypeOK
<1>3. Len(rows) \in Nat /\ DOMAIN rows = 1..Len(rows)
  BY <1>2, LenProperties
<1>4. \A i \in DOMAIN rows : rows[i] \in Row
  BY <1>2, <1>3, ElementOfSeq
<1> QED
  BY <1>1, <1>2, <1>3, <1>4 DEF Row

\* The most that a step does to them: some time passes, a row is begun, one that is
\* live ends, and the others stay as they are.
TimePasses ==
    /\ today' \in Days /\ today <= today'
    /\ clock' \in Nat /\ clock <= clock'

OldRowKept(i) ==
    /\ rows'[i].kind = rows[i].kind
    /\ rows'[i].day = rows[i].day
    /\ rows'[i].started = rows[i].started
    /\ \/ rows'[i].ended = rows[i].ended
       \/ i \in live /\ i \notin live' /\ rows'[i].ended = clock + 1 /\ clock' = clock + 1

NewRow(i) ==
    /\ i = Len(rows) + 1
    /\ rows'[i].day = today'
    /\ rows'[i].started = clock + 1 /\ clock' = clock + 1
    /\ rows'[i].ended \in {Running, clock + 1}

Grow ==
    /\ TimePasses
    /\ rows' \in Seq(Row)
    /\ DOMAIN rows \subseteq DOMAIN rows'
    /\ \A i \in DOMAIN rows : OldRowKept(i)
    /\ \A i \in DOMAIN rows' : i \in DOMAIN rows \/ NewRow(i)
    /\ live' \subseteq DOMAIN rows'
    /\ \A i \in live' : i \in live \/ (i = Len(rows) + 1 /\ rows'[i].ended = Running)

\* Row by row, after such a step.
LEMMA GrownRows ==
    ASSUME TypeOK, RowInv, Grow
    PROVE  /\ \A i \in DOMAIN rows : Ended(i) => rows'[i].ended = rows[i].ended
           /\ \A i \in DOMAIN rows' :
                 Ended(i)' => (i \in DOMAIN rows /\ Ended(i)) \/ rows'[i].ended = clock + 1
           /\ \A i \in DOMAIN rows : IsDigest(i)' <=> IsDigest(i)
           /\ live \subseteq DOMAIN rows
<1>1. live \subseteq DOMAIN rows
  BY DEF TypeOK
<1>2. \A i \in DOMAIN rows : Ended(i) => rows'[i].ended = rows[i].ended
  BY DEF Grow, OldRowKept, Ended, RowInv
<1>3. ASSUME NEW i \in DOMAIN rows', Ended(i)'
      PROVE  (i \in DOMAIN rows /\ Ended(i)) \/ rows'[i].ended = clock + 1
  BY <1>3 DEF Grow, OldRowKept, NewRow, Ended
<1>4. \A i \in DOMAIN rows : IsDigest(i)' <=> IsDigest(i)
  BY DEF Grow, OldRowKept, IsDigest
<1> QED
  BY <1>1, <1>2, <1>3, <1>4

LEMMA GrownInv ==
    ASSUME TypeOK, RowInv, Grow
    PROVE  RowInv'
<1>1. /\ clock \in Nat /\ clock' \in Nat /\ clock <= clock' /\ today \in Nat /\ today' \in Nat
      /\ today <= today'
  BY Numbers DEF Grow, TimePasses, Days
<1>2. ASSUME NEW i \in DOMAIN rows'
      PROVE  rows'[i].day <= today' /\ rows'[i].started <= clock' /\ rows'[i].ended <= clock'
  <2>1. CASE i \in DOMAIN rows
    <3>1. rows[i].day \in Nat /\ rows[i].ended \in Nat /\ rows[i].started \in Nat
      BY <2>1, Numbers
    <3>2. rows[i].day <= today /\ rows[i].started <= clock /\ rows[i].ended <= clock
      BY <2>1 DEF RowInv
    <3>3. OldRowKept(i)
      BY <2>1 DEF Grow
    <3>4. /\ rows'[i].day = rows[i].day /\ rows'[i].started = rows[i].started
          /\ rows'[i].ended = rows[i].ended \/ rows'[i].ended = clock'
      BY <3>3 DEF OldRowKept
    <3> QED
      BY <1>1, <3>1, <3>2, <3>4
  <2>2. CASE NewRow(i)
    <3>1. /\ rows'[i].day = today' /\ rows'[i].started = clock'
          /\ rows'[i].ended = 0 \/ rows'[i].ended = clock'
      BY <2>2 DEF NewRow, Running
    <3> QED
      BY <1>1, <3>1
  <2> QED
    BY <2>1, <2>2 DEF Grow
<1>3. ASSUME NEW i \in live' PROVE rows'[i].ended = Running
  <2>1. CASE i \in live
    <3>1. OldRowKept(i) /\ rows[i].ended = Running
      BY <2>1, GrownRows DEF Grow, RowInv
    <3> QED
      BY <3>1, <1>3 DEF OldRowKept
  <2> QED
    BY <2>1 DEF Grow
<1>4. ASSUME NEW i \in DOMAIN rows', NEW j \in DOMAIN rows', i < j
      PROVE  rows'[i].started < rows'[j].started /\ rows'[i].day <= rows'[j].day
  <2>1. DOMAIN rows = 1..Len(rows) /\ Len(rows) \in Nat /\ DOMAIN rows' \subseteq Nat
    <3>1. DOMAIN rows' = 1..Len(rows') /\ Len(rows') \in Nat
      BY LenProperties DEF Grow
    <3> QED
      BY <3>1, Numbers
  <2>2. i \in DOMAIN rows
    <3> SUFFICES ASSUME NewRow(i) PROVE FALSE
      BY DEF Grow
    <3>1. i = Len(rows) + 1
      BY DEF NewRow
    <3>2. j \notin DOMAIN rows /\ j # Len(rows) + 1
      BY <1>4, <2>1, <3>1
    <3> QED
      BY <3>2 DEF Grow, NewRow
  <2>3. rows'[i].day = rows[i].day /\ rows'[i].started = rows[i].started
    BY <2>2 DEF Grow, OldRowKept
  <2>4. rows[i].day \in Nat /\ rows[i].started \in Nat
    BY <2>2, Numbers
  <2>5. CASE j \in DOMAIN rows
    <3>1. rows'[j].day = rows[j].day /\ rows'[j].started = rows[j].started
      BY <2>5 DEF Grow, OldRowKept
    <3>2. rows[i].started < rows[j].started /\ rows[i].day <= rows[j].day
      BY <1>4, <2>2, <2>5 DEF RowInv
    <3> QED
      BY <2>3, <3>1, <3>2
  <2>6. CASE NewRow(j)
    <3>1. rows'[j].day = today' /\ rows'[j].started = clock + 1
      BY <2>6 DEF NewRow
    <3>2. rows[i].day <= today /\ rows[i].started <= clock
      BY <2>2 DEF RowInv
    <3> QED
      BY <1>1, <2>3, <2>4, <3>1, <3>2
  <2> QED
    BY <2>5, <2>6 DEF Grow
<1> QED
  BY <1>2, <1>3, <1>4 DEF RowInv

-----------------------------------------------------------------------------
(* What was read stays told by the stamps. *)

LEMMA ReadingStays ==
    ASSUME TypeOK, RowInv, Grow, NEW by, NEW date, NEW at, NEW lists,
           Reading(by, date, at, lists)
    PROVE  Reading(by, date, at, lists)'
<1>1. /\ clock \in Nat /\ clock' \in Nat /\ clock <= clock' /\ at \in Nat /\ at <= clock
      /\ by \in DOMAIN rows /\ IsDigest(by) /\ date \in Days /\ date \in Nat
      /\ lists \subseteq DOMAIN rows
  BY Numbers DEF Grow, TimePasses, Reading, Digests
<1>2. by \in Digests' /\ rows'[by].started < at
  <2>1. by \in DOMAIN rows' /\ IsDigest(by)' /\ rows'[by].started = rows[by].started
    BY <1>1, GrownRows DEF Grow, OldRowKept
  <2> QED
    BY <2>1 DEF Reading, Digests
<1>3. ASSUME NEW i \in DOMAIN rows'
      PROVE  /\ rows'[i].ended # at
             /\ Ended(i)' /\ rows'[i].ended < at <=>
                    i \in DOMAIN rows /\ Ended(i) /\ rows[i].ended < at
  <2>1. 0 < at
    <3>1. rows[by].started \in Nat /\ rows[by].started < at
      BY <1>1, Numbers DEF Reading
    <3> QED
      BY <1>1, <3>1
  <2>2. CASE i \in DOMAIN rows
    <3>1. rows[i].ended # at
      BY <2>2 DEF Reading
    <3>2. \/ rows'[i].ended = rows[i].ended
          \/ rows'[i].ended = clock + 1 /\ rows[i].ended = 0
      BY <2>2 DEF Grow, OldRowKept, RowInv, Running
    <3> QED
      BY <1>1, <2>2, <3>1, <3>2 DEF Ended, Running
  <2>3. CASE i \notin DOMAIN rows
    <3>1. rows'[i].ended \in {0, clock + 1}
      BY <2>3 DEF Grow, NewRow, Running
    <3> QED
      BY <1>1, <2>1, <2>3, <3>1 DEF Ended, Running
  <2> QED
    BY <2>2, <2>3
<1>4. DoneThen(at, date)' = DoneThen(at, date)
  <2>1. ASSUME NEW g PROVE g \in DoneThen(at, date)' <=> g \in DoneThen(at, date)
    <3>1. g \in DoneThen(at, date)' <=>
              /\ g \in DOMAIN rows' /\ IsDigest(g)' /\ Ended(g)' /\ rows'[g].day < date
              /\ rows'[g].ended < at
      BY DEF DoneThen, DoneBefore, Digests
    <3>2. g \in DoneThen(at, date) <=>
              /\ g \in DOMAIN rows /\ IsDigest(g) /\ Ended(g) /\ rows[g].day < date
              /\ rows[g].ended < at
      BY DEF DoneThen, DoneBefore, Digests
    <3>3. g \in DOMAIN rows => /\ g \in DOMAIN rows'
                               /\ IsDigest(g)' <=> IsDigest(g)
                               /\ rows'[g].day = rows[g].day
      BY GrownRows DEF Grow, OldRowKept
    <3> QED
      BY <1>3, <3>1, <3>2, <3>3
  <2> QED
    BY <2>1
<1>5. ASSUME NEW g \in DoneThen(at, date)
      PROVE  g \in DOMAIN rows /\ rows'[g].started = rows[g].started
  BY DEF DoneThen, DoneBefore, Digests, Grow, OldRowKept
<1>6. ASSUME NEW i \in DOMAIN rows' PROVE i \in lists <=> FoundThen(i, at, date)'
  <2>1. FoundThen(i, at, date)' <=>
            /\ Ended(i)' /\ rows'[i].ended < at
            /\ DoneThen(at, date) = {} => rows'[i].day >= date - 1
            /\ \A g \in DoneThen(at, date) : rows'[i].started >= rows[g].started
    BY <1>4, <1>5 DEF FoundThen
  <2>2. CASE i \in DOMAIN rows
    <3>1. rows'[i].day = rows[i].day /\ rows'[i].started = rows[i].started
      BY <2>2 DEF Grow, OldRowKept
    <3>2. i \in lists <=> FoundThen(i, at, date)
      BY <2>2 DEF Reading
    <3> QED
      BY <1>3, <2>1, <2>2, <3>1, <3>2 DEF FoundThen
  <2>3. CASE i \notin DOMAIN rows
    BY <1>1, <1>3, <2>1, <2>3
  <2> QED
    BY <2>2, <2>3
<1>7. at <= clock' /\ lists \subseteq DOMAIN rows'
  <2>1. at <= clock'
    BY <1>1
  <2> QED
    BY <1>1, <2>1 DEF Grow
<1> QED
  BY <1>1, <1>2, <1>3, <1>6, <1>7 DEF Reading

-----------------------------------------------------------------------------
(* The steps. *)

LEMMA InitDigest == Init => DigestInv
<1> SUFFICES ASSUME Init PROVE DigestInv
  OBVIOUS
<1>1. today = 1 /\ clock = 0 /\ kills = 0 /\ rows = << >> /\ live = {} /\ drafts = {}
      /\ files = [d \in Days |-> {}] /\ written = {}
  BY DEF Init
<1>2. today \in Days /\ clock \in Nat /\ kills \in 0..MaxKills
  BY <1>1, LastDayAssumption, MaxKillsAssumption DEF Days
<1>3. rows \in Seq(Row) /\ DOMAIN rows = {}
  BY <1>1, EmptySeq
<1>4. TypeOK
  BY <1>1, <1>2, <1>3 DEF TypeOK
<1>5. RowInv
  BY <1>1, <1>3 DEF RowInv
<1>6. DraftInv /\ FileInv /\ WrittenInv
  BY <1>1 DEF DraftInv, FileInv, WrittenInv
<1> QED
  BY <1>4, <1>5, <1>6 DEF DigestInv

\* What holds of the rows, the readings and the written digests a step leaves alone.
LEMMA Kept ==
    ASSUME DigestInv, Grow
    PROVE  /\ RowInv'
           /\ files \in [Days -> {NoText} \cup SUBSET DOMAIN rows']
           /\ \A r \in drafts : r \in Draft /\ Reading(r.by, r.date, r.at, r.lists)'
           /\ \A w \in written : /\ Reading(w.by, w.date, w.at, w.lists)'
                                 /\ w.done \in Nat /\ w.done <= clock'
<1>1. TypeOK /\ RowInv /\ DraftInv /\ WrittenInv
  BY DEF DigestInv
<1>2. RowInv'
  BY <1>1, GrownInv
<1>3. files \in [Days -> {NoText} \cup SUBSET DOMAIN rows']
  <2>1. SUBSET DOMAIN rows \subseteq SUBSET DOMAIN rows'
    BY DEF Grow
  <2> QED
    BY <1>1, <2>1 DEF TypeOK
<1>4. ASSUME NEW r \in drafts PROVE r \in Draft /\ Reading(r.by, r.date, r.at, r.lists)'
  <2>1. r \in Draft /\ Reading(r.by, r.date, r.at, r.lists)
    BY <1>1 DEF DraftInv
  <2>2. PICK by, date, at, lists : by = r.by /\ date = r.date /\ at = r.at /\ lists = r.lists
    OBVIOUS
  <2>3. Reading(by, date, at, lists)'
    BY <1>1, <2>1, <2>2, ReadingStays
  <2> QED
    BY <2>1, <2>2, <2>3
<1>5. ASSUME NEW w \in written
      PROVE  /\ Reading(w.by, w.date, w.at, w.lists)'
             /\ w.done \in Nat /\ w.done <= clock'
  <2>1. Reading(w.by, w.date, w.at, w.lists) /\ w.done \in Nat /\ w.done <= clock
    BY <1>1 DEF WrittenInv
  <2>2. PICK by, date, at, lists : by = w.by /\ date = w.date /\ at = w.at /\ lists = w.lists
    OBVIOUS
  <2>3. Reading(by, date, at, lists)'
    BY <1>1, <2>1, <2>2, ReadingStays
  <2>4. w.done <= clock'
    BY <1>1, <2>1, Numbers DEF Grow, TimePasses
  <2> QED
    BY <2>1, <2>2, <2>3, <2>4
<1> QED
  BY <1>2, <1>3, <1>4, <1>5

\* The types follow from the rest.
LEMMA TypesFollow ==
    ASSUME Grow, RowInv', DraftInv', WrittenInv', kills' \in 0..MaxKills,
           files' \in [Days -> {NoText} \cup SUBSET DOMAIN rows']
    PROVE  TypeOK'
<1>1. ASSUME NEW r \in drafts'
      PROVE  /\ r.by \in LiveDigests' /\ r.date \in Days
             /\ r.lists \subseteq DOMAIN rows'
             /\ r.step \in {"read", "writing", "written"}
  BY DEF DraftInv, Reading, Draft, LiveDigests
<1>2. ASSUME NEW w \in written'
      PROVE  w.by \in Digests' /\ w.date \in Days /\ \A i \in w.lists : Ended(i)'
  BY DEF WrittenInv, Reading, FoundThen
<1> QED
  BY <1>1, <1>2 DEF TypeOK, Grow, TimePasses

\* A step that neither reads nor writes; it may give a reading up.
LEMMA QuietStep ==
    ASSUME DigestInv, Grow, UNCHANGED << files, written >>, kills' \in 0..MaxKills,
           \A r \in drafts' : r \in drafts /\ r.by \in live'
    PROVE  DigestInv'
<1>1. files' = files /\ written' = written
  OBVIOUS
<1>2. RowInv' /\ files' \in [Days -> {NoText} \cup SUBSET DOMAIN rows']
  BY <1>1, Kept
<1>3. DraftInv'
  BY Kept DEF DraftInv
<1>4. WrittenInv'
  BY <1>1, Kept DEF WrittenInv
<1>5. FileInv'
  BY <1>1 DEF DigestInv, FileInv, Latest
<1> QED
  BY <1>2, <1>3, <1>4, <1>5, TypesFollow DEF DigestInv

\* Time passes and processes die.
LEMMA StillGrows ==
    ASSUME TypeOK, rows' = rows, live' \subseteq live, today' = today,
           clock' \in {clock, clock + 1}
    PROVE  Grow
<1>1. today \in Days /\ today \in Nat /\ clock \in Nat
  BY Numbers
<1>2. TimePasses
  <2>1. today <= today'
    BY <1>1
  <2>2. clock' \in Nat /\ clock <= clock'
    BY <1>1
  <2> QED
    BY <1>1, <2>1, <2>2 DEF TimePasses
<1>3. rows' \in Seq(Row) /\ live' \subseteq DOMAIN rows'
  BY DEF TypeOK
<1> QED
  BY <1>2, <1>3 DEF Grow, OldRowKept

\* A row is begun, or recorded at once.
LEMMA BeginGrows ==
    ASSUME TypeOK, NEW row \in Row, today <= row.day, row.started = clock + 1,
           row.ended \in {Running, clock + 1}, AddRow(row),
           live' = live \/ (live' = live \cup {Len(rows) + 1} /\ row.ended = Running)
    PROVE  Grow
<1> DEFINE n == Len(rows)
<1>1. /\ n \in Nat /\ DOMAIN rows = 1..n /\ rows \in Seq(Row) /\ clock \in Nat
      /\ live \subseteq 1..n /\ row.day \in Days
      /\ rows' = Append(rows, row) /\ clock' = clock + 1 /\ today' = row.day
  BY Numbers DEF TypeOK, Row, AddRow
<1>2. /\ rows' \in Seq(Row) /\ DOMAIN rows' = 1..(n + 1)
      /\ \A i \in 1..n : rows'[i] = rows[i]
      /\ rows'[n + 1] = row
  <2>1. /\ rows' \in Seq(Row) /\ Len(rows') = n + 1
        /\ \A i \in 1..n : rows'[i] = rows[i]
        /\ rows'[n + 1] = row
    BY <1>1, AppendProperties
  <2> QED
    BY <2>1, LenProperties
<1> HIDE DEF n
<1>3. TimePasses
  <2>1. clock + 1 \in Nat /\ clock <= clock + 1
    BY <1>1
  <2> QED
    BY <1>1, <2>1 DEF TimePasses
<1>4. \A i \in DOMAIN rows : OldRowKept(i)
  BY <1>1, <1>2 DEF OldRowKept
<1>5. DOMAIN rows \subseteq DOMAIN rows' /\ n + 1 \in DOMAIN rows'
  BY <1>1, <1>2
<1>6. \A i \in DOMAIN rows' : i \in DOMAIN rows \/ NewRow(i)
  <2> SUFFICES ASSUME NEW i \in DOMAIN rows', i \notin DOMAIN rows PROVE NewRow(i)
    OBVIOUS
  <2>1. i = n + 1
    BY <1>1, <1>2
  <2> QED
    BY <1>1, <1>2, <2>1 DEF NewRow, n
<1>7. live' \subseteq DOMAIN rows'
  BY <1>1, <1>5 DEF n
<1>8. ASSUME NEW i \in live', i \notin live
      PROVE  i = Len(rows) + 1 /\ rows'[i].ended = Running
  <2>1. i = n + 1 /\ row.ended = Running
    BY <1>8 DEF n
  <2> QED
    BY <1>2, <2>1 DEF n
<1> QED
  BY <1>2, <1>3, <1>4, <1>5, <1>6, <1>7, <1>8 DEF Grow

\* A live row ends.
LEMMA FinishGrows ==
    ASSUME TypeOK, NEW i \in live, _finish(i)
    PROVE  Grow
<1>1. /\ rows' = [rows EXCEPT ![i].ended = clock + 1]
      /\ live' = live \ {i} /\ clock' = clock + 1 /\ today' = today
  BY DEF _finish
<1>2. /\ rows \in Seq(Row) /\ i \in DOMAIN rows /\ live \subseteq DOMAIN rows
      /\ clock \in Nat /\ clock + 1 \in Nat /\ clock <= clock + 1 /\ today \in Days /\ today <= today
      /\ rows[i] \in Row
  BY Numbers DEF TypeOK
<1> DEFINE row == [rows[i] EXCEPT !.ended = clock + 1]
<1>3. /\ row \in Row /\ row.kind = rows[i].kind /\ row.day = rows[i].day
      /\ row.started = rows[i].started /\ row.ended = clock + 1
  BY <1>2 DEF Row
<1>4. rows' = [rows EXCEPT ![i] = row]
  BY <1>1
<1> HIDE DEF row
<1>5. rows' \in Seq(Row) /\ DOMAIN rows' = DOMAIN rows
  BY <1>2, <1>3, <1>4, ExceptSeq
<1>6. ASSUME NEW j \in DOMAIN rows PROVE OldRowKept(j)
  <2>1. rows'[j] = IF j = i THEN row ELSE rows[j]
    BY <1>2, <1>4
  <2> QED
    BY <1>1, <1>3, <2>1 DEF OldRowKept
<1> QED
  BY <1>1, <1>2, <1>5, <1>6 DEF Grow, TimePasses

\* A row is begun or recorded, and nothing else happens.
LEMMA BeginDigest ==
    ASSUME DigestInv, NEW row \in Row, today <= row.day, row.started = clock + 1,
           row.ended \in {Running, clock + 1}, AddRow(row),
           live' = live \/ (live' = live \cup {Len(rows) + 1} /\ row.ended = Running)
    PROVE  DigestInv'
<1>1. TypeOK /\ DraftInv
  BY DEF DigestInv
<1>2. Grow
  BY <1>1, BeginGrows
<1>3. UNCHANGED << drafts, files, written, kills >> /\ kills \in 0..MaxKills
  BY <1>1 DEF AddRow, TypeOK
<1>4. \A r \in drafts' : r \in drafts /\ r.by \in live'
  BY <1>1, <1>3 DEF DraftInv
<1> QED
  BY <1>2, <1>3, <1>4, QuietStep

\* A row ends, and its reading is given up.
LEMMA FinishDigest ==
    ASSUME DigestInv, NEW i \in live, _finish(i)
    PROVE  DigestInv'
<1>1. TypeOK /\ DraftInv
  BY DEF DigestInv
<1>2. Grow
  BY <1>1, FinishGrows
<1>3. /\ UNCHANGED << files, written, kills >> /\ kills \in 0..MaxKills
      /\ live' = live \ {i} /\ drafts' = {r \in drafts : r.by # i}
  BY <1>1 DEF _finish, DropDraft, TypeOK
<1>4. \A r \in drafts' : r \in drafts /\ r.by \in live'
  BY <1>1, <1>3 DEF DraftInv
<1> QED
  BY <1>2, <1>3, <1>4, QuietStep

LEMMA KillDigest ==
    ASSUME DigestInv, Kill
    PROVE  DigestInv'
<1>1. TypeOK /\ DraftInv /\ kills' \in 0..MaxKills
  BY MaxKillsAssumption DEF DigestInv, TypeOK, Kill
<1>2. PICK i \in live : live' = live \ {i} /\ drafts' = {r \in drafts : r.by # i}
  BY DEF Kill, DropDraft
<1>3. UNCHANGED << today, clock, rows, files, written >>
  BY DEF Kill
<1>4. Grow
  BY <1>1, <1>2, <1>3, StillGrows
<1>5. \A r \in drafts' : r \in drafts /\ r.by \in live'
  BY <1>1, <1>2 DEF DraftInv
<1> QED
  BY <1>1, <1>3, <1>4, <1>5, QuietStep

\* A reading looks back to the digest of an earlier day that began last, which is
\* to look back to all of them, and every stamp there is lies before it.
LEMMA ReadNow ==
    ASSUME TypeOK, RowInv, NEW i \in LiveDigests, NEW date \in Days,
           NEW at, NEW lists, at = clock + 1, lists = Reportable(date),
           rows' = rows, clock' = clock + 1
    PROVE  Reading(i, date, at, lists)'
<1> DEFINE D == DoneBefore(date)
<1>1. /\ clock \in Nat /\ clock + 1 \in Nat /\ clock + 1 <= clock + 1
      /\ i \in DOMAIN rows /\ i \in Digests
      /\ \A j \in DOMAIN rows : rows[j].ended \in Nat /\ rows[j].started \in Nat
      /\ Len(rows) \in Nat /\ DOMAIN rows = 1..Len(rows)
  BY Numbers DEF LiveDigests, Digests
<1>2. \A j \in DOMAIN rows : rows[j].ended < clock + 1 /\ rows[j].started < clock + 1
  BY <1>1 DEF RowInv
<1>3. DoneThen(clock + 1, date) = D /\ D \subseteq DOMAIN rows
  BY <1>2 DEF DoneThen, DoneBefore, Digests
<1>4. ASSUME NEW j \in DOMAIN rows PROVE InWindow(j, date) /\ Ended(j) <=> FoundThen(j, clock + 1, date)
  <2>1. CASE D = {}
    BY <1>2, <1>3, <2>1 DEF InWindow, FoundThen
  <2>2. CASE D # {}
    <3> DEFINE last == Max(D)
    <3>1. last \in D /\ \A g \in D : last >= g
      <4>1. D \in SUBSET (1..Len(rows))
        BY <1>1, <1>3
      <4> HIDE DEF D
      <4> QED
        BY <1>1, <2>2, <4>1, MaxOf
    <3>2. InWindow(j, date) <=> rows[j].started >= rows[last].started
      BY <2>2 DEF InWindow
    <3> HIDE DEF last, D
    <3>3. ASSUME NEW g \in D PROVE rows[g].started <= rows[last].started
      <4>1. g \in DOMAIN rows /\ last \in DOMAIN rows /\ g \in Nat /\ last \in Nat /\ last >= g
        BY <1>1, <1>3, <3>1
      <4>2. CASE g = last
        BY <1>1, <4>1, <4>2
      <4>3. CASE g < last
        <5>1. rows[g].started < rows[last].started
          BY <4>1, <4>3 DEF RowInv
        <5> QED
          BY <1>1, <4>1, <5>1
      <4> QED
        BY <4>1, <4>2, <4>3
    <3>4. rows[j].started >= rows[last].started
              <=> \A g \in D : rows[j].started >= rows[g].started
      <4>1. \A g \in D : rows[g].started \in Nat
        BY <1>1, <1>3
      <4>2. rows[j].started \in Nat /\ rows[last].started \in Nat
        BY <3>1, <4>1, <1>1
      <4> QED
        BY <3>1, <3>3, <4>1, <4>2
    <3> QED
      BY <1>2, <1>3, <2>2, <3>2, <3>4 DEF FoundThen
  <2> QED
    BY <2>1, <2>2
<1>5. \A j \in DOMAIN rows : j \in Reportable(date) <=> FoundThen(j, clock + 1, date)
  BY <1>4 DEF Reportable
<1>6. \A j \in DOMAIN rows : rows[j].ended # clock + 1
  BY <1>1, <1>2
<1>7. /\ lists \subseteq DOMAIN rows /\ rows[i].started < at /\ at \in Nat /\ at <= clock'
      /\ \A j \in DOMAIN rows : rows[j].ended # at /\ (j \in lists <=> FoundThen(j, at, date))
  BY <1>1, <1>2, <1>5, <1>6 DEF Reportable
<1>8. /\ Digests' = Digests
      /\ \A j \in DOMAIN rows : FoundThen(j, at, date)' <=> FoundThen(j, at, date)
  BY DEF Digests, IsDigest, FoundThen, DoneThen, DoneBefore, Ended
<1> QED
  BY <1>1, <1>7, <1>8 DEF Reading

LEMMA CollectDigest ==
    ASSUME DigestInv, _collect
    PROVE  DigestInv'
<1>1. TypeOK /\ RowInv /\ DraftInv /\ kills \in 0..MaxKills
  BY DEF DigestInv, TypeOK
<1>2. PICK i \in LiveDigests, date \in Days :
          drafts' = drafts \cup {[by |-> i, date |-> date, at |-> clock + 1,
                                  lists |-> Reportable(date), step |-> "read", alone |-> TRUE]}
  BY DEF _collect
<1>3. clock' = clock + 1 /\ UNCHANGED << today, rows, live, files, written, kills >>
  BY DEF _collect
<1>4. Grow
  BY <1>1, <1>3, StillGrows
<1>5. PICK at, lists : at = clock + 1 /\ lists = Reportable(date)
  OBVIOUS
<1> DEFINE r == [by |-> i, date |-> date, at |-> at, lists |-> lists,
                 step |-> "read", alone |-> TRUE]
<1>6. Reading(i, date, at, lists)'
  BY <1>1, <1>3, <1>5, ReadNow
<1>7. /\ r \in Draft /\ r.by = i /\ r.date = date /\ r.at = at /\ r.lists = lists
      /\ drafts' = drafts \cup {r} /\ i \in live
  <2>1. i \in DOMAIN rows /\ DOMAIN rows \subseteq Nat /\ lists \subseteq DOMAIN rows
    BY <1>1, <1>5, Numbers DEF LiveDigests, Digests, Reportable
  <2>2. i \in Nat /\ lists \in SUBSET Nat /\ at \in Nat
    BY <1>1, <1>5, <2>1, Numbers
  <2> QED
    BY <1>2, <1>5, <2>2 DEF Draft, LiveDigests
<1> HIDE DEF r
<1>8. DraftInv'
  <2> SUFFICES ASSUME NEW q \in drafts'
               PROVE  q \in Draft /\ q.by \in live' /\ Reading(q.by, q.date, q.at, q.lists)'
    BY DEF DraftInv
  <2>1. CASE q \in drafts
    BY <1>1, <1>3, <1>4, <2>1, Kept DEF DraftInv
  <2>2. CASE q = r
    BY <1>3, <1>6, <1>7, <2>2
  <2> QED
    BY <1>7, <2>1, <2>2
<1>9. RowInv' /\ WrittenInv' /\ files' \in [Days -> {NoText} \cup SUBSET DOMAIN rows']
  BY <1>3, <1>4, Kept DEF WrittenInv
<1>10. FileInv'
  BY <1>3 DEF DigestInv, FileInv, Latest
<1> QED
  BY <1>1, <1>3, <1>4, <1>8, <1>9, <1>10, TypesFollow DEF DigestInv

\* Going on with the file changes nothing of the reading.
SameReading(q, r) ==
    q \in Draft /\ q.by = r.by /\ q.date = r.date /\ q.at = r.at /\ q.lists = r.lists

LEMMA DraftGoesOn ==
    ASSUME NEW r \in Draft, NEW alone \in BOOLEAN
    PROVE  /\ SameReading([r EXCEPT !.alone = alone], r)
           /\ SameReading([r EXCEPT !.step = "writing", !.alone = alone], r)
           /\ SameReading([r EXCEPT !.step = "written"], r)
BY DEF Draft, SameReading

\* A step of writing: readings are those there were, and a file is empty or whole.
LEMMA WritingStep ==
    ASSUME DigestInv, UNCHANGED << today, rows, live, kills >>, clock' \in {clock, clock + 1},
           \A q \in drafts' : \E r \in drafts : SameReading(q, r),
           WrittenInv', FileInv', files' \in [Days -> {NoText} \cup SUBSET DOMAIN rows']
    PROVE  DigestInv'
<1>1. TypeOK /\ DraftInv /\ kills' \in 0..MaxKills
  BY DEF DigestInv, TypeOK
<1>2. Grow
  BY <1>1, StillGrows
<1>3. DraftInv'
  <2> SUFFICES ASSUME NEW q \in drafts'
               PROVE  q \in Draft /\ q.by \in live' /\ Reading(q.by, q.date, q.at, q.lists)'
    BY DEF DraftInv
  <2>1. PICK r \in drafts : SameReading(q, r)
    OBVIOUS
  <2>2. r.by \in live /\ Reading(r.by, r.date, r.at, r.lists)'
    BY <1>1, <1>2, Kept DEF DraftInv
  <2>3. PICK by, date, at, lists : by = r.by /\ date = r.date /\ at = r.at /\ lists = r.lists
    OBVIOUS
  <2>4. Reading(by, date, at, lists)'
    BY <2>2, <2>3
  <2>5. q \in Draft /\ q.by = by /\ q.date = date /\ q.at = at /\ q.lists = lists
    BY <2>1, <2>3 DEF SameReading
  <2> QED
    BY <2>2, <2>3, <2>4, <2>5
<1>4. RowInv'
  BY <1>2, Kept
<1> QED
  BY <1>1, <1>2, <1>3, <1>4, TypesFollow DEF DigestInv

\* A file that is emptied, or cut short, says nothing any more.
LEMMA Emptied ==
    ASSUME DigestInv, UNCHANGED << today, rows, live, clock, written, kills >>,
           NEW d \in Days, files' = [files EXCEPT ![d] = NoText],
           \A q \in drafts' : \E r \in drafts : SameReading(q, r)
    PROVE  DigestInv'
<1>1. TypeOK /\ FileInv
  BY DEF DigestInv
<1>2. files \in [Days -> {NoText} \cup SUBSET DOMAIN rows] /\ rows' = rows /\ written' = written
  BY <1>1 DEF TypeOK
<1>3. files' \in [Days -> {NoText} \cup SUBSET DOMAIN rows']
  BY <1>2
<1>4. \A e \in Days : files'[e] = NoText \/ files'[e] = files[e]
  BY <1>2
<1>5. FileInv'
  BY <1>1, <1>2, <1>4 DEF FileInv, Latest
<1>6. WrittenInv'
  <2>1. Grow
    BY <1>1, StillGrows
  <2> QED
    BY <1>2, <2>1, Kept DEF WrittenInv
<1> QED
  BY <1>3, <1>5, <1>6, WritingStep

LEMMA OpenDigest ==
    ASSUME DigestInv, OpenFile
    PROVE  DigestInv'
<1>1. UNCHANGED << today, clock, rows, live, written, kills >> /\ DraftInv
  BY DEF OpenFile, DigestInv
<1>2. PICK r \in drafts :
          /\ files' = [files EXCEPT ![r.date] = NoText]
          /\ drafts' = (drafts \ ({r} \cup Writing(r.date)))
                  \cup {[s EXCEPT !.alone = FALSE] : s \in Writing(r.date)}
                  \cup {[r EXCEPT !.step = "writing", !.alone = Writing(r.date) = {}]}
  BY DEF OpenFile
<1>3. drafts \subseteq Draft /\ r.date \in Days
  BY <1>1 DEF DraftInv, Draft
<1>4. ASSUME NEW q \in drafts' PROVE \E s \in drafts : SameReading(q, s)
  <2>1. CASE q \in drafts
    BY <1>3, <2>1 DEF SameReading
  <2>2. ASSUME NEW s \in Writing(r.date), q = [s EXCEPT !.alone = FALSE]
        PROVE  \E t \in drafts : SameReading(q, t)
    <3>1. s \in drafts /\ s \in Draft
      BY <1>3 DEF Writing
    <3> QED
      BY <2>2, <3>1, DraftGoesOn
  <2>3. ASSUME q = [r EXCEPT !.step = "writing", !.alone = Writing(r.date) = {}]
        PROVE  \E t \in drafts : SameReading(q, t)
    <3>1. PICK alone \in BOOLEAN : alone = (Writing(r.date) = {})
      OBVIOUS
    <3>2. q = [r EXCEPT !.step = "writing", !.alone = alone]
      BY <2>3, <3>1
    <3> QED
      BY <1>3, <3>2, DraftGoesOn
  <2> QED
    BY <1>2, <2>1, <2>2, <2>3
<1> QED
  BY <1>1, <1>2, <1>3, <1>4, Emptied

LEMMA FlushDigest ==
    ASSUME DigestInv, FlushPart
    PROVE  DigestInv'
<1>1. UNCHANGED << today, clock, rows, live, drafts, written, kills >> /\ DraftInv
  BY DEF FlushPart, DigestInv
<1>2. PICK r \in drafts : files' = [files EXCEPT ![r.date] = NoText]
  BY DEF FlushPart
<1>3. r.date \in Days /\ \A q \in drafts' : \E s \in drafts : SameReading(q, s)
  BY <1>1 DEF DraftInv, Draft, SameReading
<1> QED
  BY <1>1, <1>2, <1>3, Emptied

\* What is written last for a date is the latest, and a whole file is its.
LEMMA CloseDigest ==
    ASSUME DigestInv, CloseFile
    PROVE  DigestInv'
<1>1. /\ TypeOK /\ DraftInv /\ WrittenInv /\ FileInv /\ clock \in Nat
      /\ UNCHANGED << today, rows, live, kills >> /\ clock' = clock + 1
  BY Numbers DEF CloseFile, DigestInv
<1>2. PICK r \in drafts :
          /\ \E text \in {r.lists} \cup (IF r.alone THEN {} ELSE {NoText}) :
                files' = [files EXCEPT ![r.date] = text]
          /\ written' = written \cup {[by |-> r.by, date |-> r.date, at |-> r.at,
                                       done |-> clock + 1, lists |-> r.lists]}
          /\ drafts' = (drafts \ {r}) \cup {[r EXCEPT !.step = "written"]}
  BY DEF CloseFile
<1>3. PICK text : text \in {r.lists, NoText} /\ files' = [files EXCEPT ![r.date] = text]
  BY <1>2
<1> DEFINE w == [by |-> r.by, date |-> r.date, at |-> r.at, done |-> clock + 1,
                 lists |-> r.lists]
<1>4. /\ w.by = r.by /\ w.date = r.date /\ w.at = r.at /\ w.done = clock + 1
      /\ w.lists = r.lists /\ written' = written \cup {w}
  BY <1>2
<1> HIDE DEF w
<1>5. drafts \subseteq Draft /\ r.date \in Days
  BY <1>1 DEF DraftInv, Draft
<1>6. ASSUME NEW q \in drafts' PROVE \E s \in drafts : SameReading(q, s)
  <2>1. SameReading([r EXCEPT !.step = "written"], r)
    BY <1>5, DraftGoesOn
  <2>2. q \in drafts => SameReading(q, q)
    BY <1>5 DEF SameReading
  <2> QED
    BY <1>2, <2>1, <2>2
<1>7. Grow
  BY <1>1, StillGrows
<1>8. /\ Reading(r.by, r.date, r.at, r.lists)' /\ r.lists \subseteq DOMAIN rows
      /\ \A v \in written : v.done \in Nat /\ v.done < clock + 1
  BY <1>1, <1>7, Kept DEF DraftInv, Reading, WrittenInv
<1>9. WrittenInv'
  <2> SUFFICES ASSUME NEW v \in written'
               PROVE  Reading(v.by, v.date, v.at, v.lists)' /\ v.done \in Nat /\ v.done <= clock'
    BY DEF WrittenInv
  <2>1. CASE v \in written
    BY <1>7, <2>1, Kept
  <2>2. CASE v = w
    <3>1. w.done \in Nat /\ w.done <= clock'
      BY <1>1, <1>4
    <3>2. PICK by, date, at, lists : by = r.by /\ date = r.date /\ at = r.at /\ lists = r.lists
      OBVIOUS
    <3>3. Reading(by, date, at, lists)'
      BY <1>8, <3>2
    <3> QED
      BY <1>4, <2>2, <3>1, <3>2, <3>3
  <2> QED
    BY <1>4, <2>1, <2>2
<1>10. files \in [Days -> {NoText} \cup SUBSET DOMAIN rows] /\ rows' = rows
  BY <1>1 DEF TypeOK
<1>11. /\ files' \in [Days -> {NoText} \cup SUBSET DOMAIN rows']
       /\ \A d \in Days : files'[d] = IF d = r.date THEN text ELSE files[d]
  <2>1. text \in {NoText} \cup SUBSET DOMAIN rows
    BY <1>3, <1>8
  <2> QED
    BY <1>3, <1>5, <1>10, <2>1
<1>12. FileInv'
  <2> SUFFICES ASSUME NEW d \in Days, files'[d] # NoText
               PROVE  \/ \A v \in written' : v.date # d
                      \/ \E v \in written' : v.date = d /\ files'[d] = v.lists /\ Latest(v)'
    BY DEF FileInv
  <2>1. CASE d = r.date
    <3>1. files'[d] = w.lists /\ w.date = d /\ w \in written'
      BY <1>3, <1>4, <1>11, <2>1
    <3>2. \A v \in written' : v = w \/ v.done < w.done
      BY <1>4, <1>8
    <3> QED
      BY <3>1, <3>2 DEF Latest
  <2>2. CASE d # r.date
    <3>1. files'[d] = files[d]
      BY <1>11, <2>2
    <3>2. CASE \A v \in written : v.date # d
      BY <1>4, <2>2, <3>2
    <3>3. ASSUME NEW v \in written, v.date = d, files[d] = v.lists, Latest(v)
          PROVE  v \in written' /\ Latest(v)'
      <4>1. \A u \in written' : u.date = v.date => u \in written
        BY <1>4, <2>2, <3>3
      <4>2. \A u \in written : u.date = v.date => v = u \/ u.done < v.done
        BY <3>3 DEF Latest
      <4> QED
        BY <1>4, <4>1, <4>2 DEF Latest
    <3> QED
      BY <1>1, <3>1, <3>2, <3>3 DEF FileInv
  <2> QED
    BY <2>1, <2>2
<1> QED
  BY <1>1, <1>6, <1>9, <1>11, <1>12, WritingStep

LEMMA NextDigest ==
    ASSUME DigestInv, [Next]_vars
    PROVE  DigestInv'
<1>1. TypeOK
  BY DEF DigestInv
<1>2. /\ clock \in Nat /\ clock + 1 \in Nat /\ today \in Nat /\ LastDay \in Nat
      /\ \A day \in today..LastDay : day \in Days /\ today <= day
  <2>1. today \in Days /\ today \in Nat /\ LastDay \in Nat /\ clock \in Nat
    BY <1>1, Numbers
  <2> QED
    BY <2>1 DEF Days
<1>3. ASSUME NEW kind \in {"run", "digest"}, tracked_run(kind) PROVE DigestInv'
  <2>1. PICK day \in today..LastDay : AddRow(Begun(kind, day))
    BY <1>3 DEF tracked_run
  <2> DEFINE row == Begun(kind, day)
  <2>2. row \in Row /\ row.day = day /\ row.started = clock + 1 /\ row.ended = Running
    BY <1>2 DEF Begun, Row, Running
  <2>3. live' = live \cup {Len(rows) + 1}
    BY <1>3 DEF tracked_run
  <2> HIDE DEF row
  <2> QED
    BY <1>2, <2>1, <2>2, <2>3, BeginDigest DEF row
<1>4. CASE RecordFact
  <2>1. PICK day \in today..LastDay : AddRow([Begun("fact", day) EXCEPT !.ended = clock + 1])
    BY <1>4 DEF RecordFact
  <2> DEFINE row == [Begun("fact", day) EXCEPT !.ended = clock + 1]
  <2>2. row \in Row /\ row.day = day /\ row.started = clock + 1 /\ row.ended = clock + 1
    BY <1>2 DEF Begun, Row
  <2>3. live' = live
    BY <1>4 DEF RecordFact
  <2> HIDE DEF row
  <2> QED
    BY <1>2, <2>1, <2>2, <2>3, BeginDigest DEF row
<1>5. CASE EndRun
  BY <1>5, FinishDigest DEF EndRun
<1>6. CASE build_digest
  <2>1. PICK r \in drafts : _finish(r.by)
    BY <1>6 DEF build_digest
  <2>2. r.by \in live
    BY DEF DigestInv, DraftInv
  <2> QED
    BY <2>1, <2>2, FinishDigest
<1>7. CASE FailDigest
  BY <1>7, FinishDigest DEF FailDigest, LiveDigests
<1>8. CASE UNCHANGED vars
  <2>1. UNCHANGED << today, clock, rows, live, drafts, files, written, kills >>
    BY <1>8 DEF vars
  <2>2. Grow
    BY <1>1, <2>1, StillGrows
  <2>3. \A r \in drafts' : r \in drafts /\ r.by \in live'
    BY <2>1 DEF DigestInv, DraftInv
  <2>4. kills' \in 0..MaxKills
    BY <1>1, <2>1 DEF TypeOK
  <2> QED
    BY <2>1, <2>2, <2>3, <2>4, QuietStep
<1> QED
  BY <1>3, <1>4, <1>5, <1>6, <1>7, <1>8, KillDigest, CollectDigest, OpenDigest, FlushDigest,
     CloseDigest DEF Next

-----------------------------------------------------------------------------
(* What follows from the invariant. *)

\* The inductive invariant of the digests holds for any number of days, rows, kills
\* and digests at one time (digest/builder.py over core/runs.py).
THEOREM DigestInvariant == Spec => []DigestInv
<1>1. DigestInv /\ [Next]_vars => DigestInv'
  BY NextDigest
<1> QED
  BY InitDigest, <1>1, PTL DEF Spec

\* Type correctness: in particular a written digest lists rows that have ended only.
THEOREM TypeCorrect == Spec => []TypeOK
<1>1. DigestInv => TypeOK
  BY DEF DigestInv
<1> QED
  BY <1>1, DigestInvariant, PTL

\* A whole file has all that any digest wrote into it, unless that digest was
\* overtaken (builder.py's window and its write_text): a later reading misses only
\* what a digest of an earlier day has put before its window by ending in between.
THEOREM FilesKeepAllRows == Spec => []FilesKeepTheirRows
<1>1. DigestInv => FilesKeepTheirRows
  <2> SUFFICES ASSUME DigestInv, NEW w \in written, files[w.date] # NoText, ~ Overtaken(w),
                      NEW i \in w.lists
               PROVE  i \in files[w.date]
    BY DEF FilesKeepTheirRows
  <2>1. TypeOK /\ RowInv /\ WrittenInv /\ FileInv
    BY DEF DigestInv
  <2>2. Reading(w.by, w.date, w.at, w.lists)
    BY <2>1 DEF WrittenInv
  <2>3. w.date \in Days
    BY <2>2 DEF Reading
  <2>4. PICK v \in written : v.date = w.date /\ files[w.date] = v.lists /\ Latest(v)
    BY <2>1, <2>3 DEF FileInv
  <2>5. Reading(v.by, w.date, v.at, v.lists)
    BY <2>1, <2>4 DEF WrittenInv
  <2>6. /\ w.at \in Nat /\ v.at \in Nat /\ i \in DOMAIN rows /\ rows[i].ended \in Nat
        /\ FoundThen(i, w.at, w.date)
    BY <2>1, <2>2, <2>5, Numbers DEF Reading
  <2>7. w.at <= v.at
    <3>1. w = v \/ w.done < v.done
      BY <2>4 DEF Latest
    <3>2. ~ (v.at < w.at /\ w.done < v.done)
      BY <2>4 DEF Overtaken
    <3> QED
      BY <2>6, <3>1, <3>2
  <2>8. DoneThen(v.at, w.date) \subseteq DoneThen(w.at, w.date)
    <3> SUFFICES ASSUME NEW g \in DoneThen(v.at, w.date), ~ rows[g].ended < w.at PROVE FALSE
      BY DEF DoneThen
    <3>1. /\ g \in Digests /\ g \in DOMAIN rows /\ Ended(g) /\ rows[g].day < w.date
          /\ rows[g].ended \in Nat /\ rows[g].started \in Nat /\ rows[g].day \in Nat
      BY <2>1, Numbers DEF DoneThen, DoneBefore, Digests
    <3>2. w.at < rows[g].ended
      <4>1. rows[g].ended # w.at
        BY <2>2, <3>1 DEF Reading
      <4> QED
        BY <2>6, <3>1, <4>1
    <3>3. ~ rows[g].started < w.at /\ ~ rows[w.by].day < w.date
      BY <3>1, <3>2 DEF Overtaken
    <3>4. /\ w.by \in DOMAIN rows /\ rows[w.by].started < w.at /\ w.date \in Nat
          /\ rows[w.by].started \in Nat /\ rows[w.by].day \in Nat /\ DOMAIN rows \subseteq Nat
      BY <2>1, <2>2, Numbers DEF Reading, Digests
    <3>5. w.by < g
      <4> SUFFICES ASSUME g <= w.by PROVE FALSE
        BY <3>1, <3>4
      <4>1. CASE g = w.by
        BY <3>3, <3>4, <4>1
      <4>2. CASE g < w.by
        <5>1. rows[g].started < rows[w.by].started
          BY <2>1, <3>1, <3>4, <4>2 DEF RowInv
        <5> QED
          BY <2>6, <3>1, <3>3, <3>4, <5>1
      <4> QED
        BY <3>1, <3>4, <4>1, <4>2
    <3>6. rows[w.by].day <= rows[g].day
      BY <2>1, <3>1, <3>4, <3>5 DEF RowInv
    <3> QED
      BY <3>1, <3>3, <3>4, <3>6
  <2>9. FoundThen(i, v.at, w.date)
    <3>1. DoneThen(w.at, w.date) \subseteq DoneThen(v.at, w.date)
      <4> SUFFICES ASSUME NEW g \in DoneThen(w.at, w.date) PROVE rows[g].ended < v.at
        BY DEF DoneThen
      <4>1. rows[g].ended \in Nat /\ rows[g].ended < w.at
        BY <2>1, Numbers DEF DoneThen, DoneBefore, Digests
      <4> QED
        BY <2>6, <2>7, <4>1
    <3>2. rows[i].ended < v.at
      BY <2>6, <2>7 DEF FoundThen
    <3>3. DoneThen(w.at, w.date) = DoneThen(v.at, w.date)
      BY <2>8, <3>1
    <3> QED
      BY <2>6, <3>2, <3>3 DEF FoundThen
  <2> QED
    BY <2>4, <2>5, <2>6, <2>9 DEF Reading
<1> QED
  BY <1>1, DigestInvariant, PTL

\* A row that a written digest read after its end is listed, unless a digest that
\* began after it moved the window on before any such digest of a date up to its
\* own day, or it is older than all the first digest looks back to.
THEOREM NothingElseIsLost == Spec => []LostOnlyWhenPassedBy
<1>1. DigestInv => LostOnlyWhenPassedBy
  <2> SUFFICES ASSUME DigestInv, NEW i \in DOMAIN rows, Ended(i), ReadSince(i) # {}, ~ Listed(i)
               PROVE  PassedBy(i) \/ BeforeTime(i)
    BY DEF LostOnlyWhenPassedBy
  <2> DEFINE W == ReadSince(i)
             date == [w \in W |-> w.date]
  <2>1. /\ TypeOK /\ WrittenInv
        /\ rows[i].day \in Nat /\ rows[i].started \in Nat /\ rows[i].ended \in Nat
    BY Numbers DEF DigestInv
  <2>2. \A w \in W : w \in written /\ w.date \in Days /\ w.date \in Nat
    BY <2>1, Numbers DEF WrittenInv, Reading, ReadSince
  <2>3. PICK w \in W : \A v \in W : w.date <= v.date
    <3>1. W # {} /\ date \in [W -> Days]
      BY <2>2
    <3>2. PICK w \in W : \A v \in W : date[w] <= date[v]
      <4> HIDE DEF W, date
      <4> QED
        BY <3>1, EarliestOf
    <3> QED
      BY <3>2
  <2>4. Reading(w.by, w.date, w.at, w.lists) /\ w \in written /\ rows[i].ended < w.at
    BY <2>1, <2>2 DEF WrittenInv, ReadSince
  <2>5. ~ FoundThen(i, w.at, w.date)
    <3>1. i \notin w.lists
      BY <2>4 DEF Listed
    <3> QED
      BY <2>4, <3>1 DEF Reading
  <2>6. ASSUME NEW g \in DoneThen(w.at, w.date), ~ rows[i].started >= rows[g].started
        PROVE  PassedBy(i)
    <3>1. /\ g \in Digests /\ Ended(g) /\ rows[g].day < w.date
          /\ rows[g].started \in Nat /\ rows[g].day \in Nat
      BY <2>1, Numbers DEF DoneThen, DoneBefore, Digests
    <3>2. rows[g].started > rows[i].started
      BY <2>1, <2>6, <3>1
    <3>3. \A v \in W : rows[g].day < v.date
      BY <2>2, <2>3, <3>1
    <3> QED
      BY <3>1, <3>2, <3>3 DEF PassedBy
  <2>7. ASSUME DoneThen(w.at, w.date) = {}, ~ rows[i].day >= w.date - 1
        PROVE  BeforeTime(i)
    <3>1. \A v \in W : rows[i].day + 1 < v.date
      BY <2>1, <2>2, <2>3, <2>7
    <3>2. ASSUME NEW g \in Digests, Ended(g), rows[g].day < w.date PROVE rows[g].ended > w.at
      <4>1. rows[g].ended \in Nat /\ w.at \in Nat /\ rows[g].ended # w.at
        BY <2>1, <2>4, Numbers DEF Reading, Digests
      <4>2. ~ rows[g].ended < w.at
        BY <2>7, <3>2 DEF DoneThen, DoneBefore
      <4> QED
        BY <4>1, <4>2
    <3> QED
      BY <3>1, <3>2 DEF BeforeTime, FirstOfAll
  <2> QED
    BY <2>4, <2>5, <2>6, <2>7 DEF FoundThen
<1> QED
  BY <1>1, DigestInvariant, PTL

-----------------------------------------------------------------------------
(***************************************************************************)
(* Mentions.                                                               *)
(***************************************************************************)

(* Sorting the parameters of a query. *)

\* A nonempty set of naturals up to n has a least element.
LEMMA LeastUpTo ==
    ASSUME NEW n \in Nat, NEW S \in SUBSET (0..n), S # {}
    PROVE  \E x \in S : \A y \in S : x <= y
<1> DEFINE Below(x) == {y \in 0..n : y < x}
           B == {Below(x) : x \in S}
           R == StrictSubsetOrdering(0..n)
<1>1. IsWellFoundedOn(R, FiniteSubsetsOf(0..n)) /\ FiniteSubsetsOf(0..n) = SUBSET (0..n)
  <2>1. IsFiniteSet(0..n)
    BY FS_Interval
  <2> QED
    BY <2>1, FS_StrictSubsetOrderingWellFounded, FS_FiniteSubsetsOfFinite
<1>2. B \subseteq SUBSET (0..n) /\ B # {}
  OBVIOUS
<1>3. PICK b \in B : \A a \in B : ~ << a, b >> \in R
  <2> HIDE DEF B, R
  <2> QED
    BY <1>1, <1>2, WFMin
<1>4. PICK x \in S : b = Below(x)
  OBVIOUS
<1>5. ASSUME NEW y \in S PROVE x <= y
  <2> SUFFICES ASSUME y < x PROVE FALSE
    OBVIOUS
  <2>1. y \in Below(x) /\ y \notin Below(y) /\ Below(y) \subseteq Below(x)
    OBVIOUS
  <2>2. << Below(y), Below(x) >> \in R
    BY <2>1 DEF StrictSubsetOrdering
  <2> QED
    BY <1>3, <1>4, <2>2
<1> QED
  BY <1>5

\* A nonempty set of naturals has a least one.
LEMMA MinOfNaturals ==
    ASSUME NEW S \in SUBSET Nat, S # {}
    PROVE  Min(S) \in S /\ \A y \in S : Min(S) <= y
<1>1. PICK s \in S : TRUE
  OBVIOUS
<1> DEFINE T == S \cap 0..s
<1>2. s \in Nat /\ T \in SUBSET (0..s) /\ T # {}
  BY <1>1
<1>3. PICK x \in T : \A y \in T : x <= y
  BY <1>2, LeastUpTo
<1>4. x \in S /\ \A y \in S : x <= y
  <2> SUFFICES ASSUME NEW y \in S PROVE x <= y
    OBVIOUS
  <2>1. y \in Nat /\ x \in Nat /\ x <= s
    OBVIOUS
  <2>2. CASE y <= s
    BY <1>3, <2>1, <2>2
  <2>3. CASE y > s
    BY <1>2, <2>1, <2>3
  <2> QED
    BY <1>2, <2>1, <2>2, <2>3
<1> QED
  BY <1>4 DEF Min

\* The parameters of a query are bounded.
LEMMA QueryBounded ==
    ASSUME NEW q \in Seq(Nat)
    PROVE  \E x \in Nat : \A k \in DOMAIN q : q[k] <= x
<1> DEFINE L == Len(q)
           Good(n) == \E x \in Nat : \A k \in 1..n : q[k] <= x
           Bad == {n \in 0..L : ~ Good(n)}
<1>1. L \in Nat /\ DOMAIN q = 1..L /\ \A k \in 1..L : q[k] \in Nat
  BY LenProperties, ElementOfSeq
<1>2. Good(0)
  <2>1. \A k \in 1..0 : q[k] <= 0
    OBVIOUS
  <2> QED
    BY <2>1
<1>3. ASSUME NEW n \in 1..L, Good(n - 1) PROVE Good(n)
  <2>1. PICK x \in Nat : \A k \in 1..(n - 1) : q[k] <= x
    BY <1>3
  <2>2. q[n] \in Nat /\ n \in Nat
    BY <1>1
  <2>3. PICK m \in Nat : x <= m /\ q[n] <= m
    BY <2>2
  <2>4. ASSUME NEW k \in 1..n PROVE q[k] <= m
    <3>1. CASE k = n
      BY <2>3, <3>1
    <3>2. CASE k # n
      <4>1. k \in 1..(n - 1) /\ k \in 1..L
        BY <1>1, <2>2, <3>2
      <4>2. q[k] \in Nat /\ q[k] <= x
        BY <1>1, <2>1, <4>1
      <4> QED
        BY <2>3, <4>2
    <3> QED
      BY <3>1, <3>2
  <2> QED
    BY <2>4
<1> HIDE DEF Good, L
<1>4. Bad = {}
  <2> SUFFICES ASSUME Bad # {} PROVE FALSE
    OBVIOUS
  <2>1. PICK n \in Bad : \A m \in Bad : n <= m
    <3>1. Bad \in SUBSET (0..L)
      OBVIOUS
    <3> HIDE DEF Bad
    <3> QED
      BY <1>1, <3>1, LeastUpTo
  <2>2. n \in 0..L /\ ~ Good(n)
    OBVIOUS
  <2>3. n # 0
    BY <1>2, <2>2
  <2>4. n - 1 \in 0..L /\ n \in 1..L /\ ~ n <= n - 1
    BY <1>1, <2>2, <2>3
  <2>5. Good(n - 1)
    BY <2>1, <2>4
  <2> QED
    BY <1>3, <2>2, <2>4, <2>5
<1>5. Good(L)
  <2>1. L \in 0..L
    BY <1>1
  <2> QED
    BY <1>4, <2>1
<1> QED
  BY <1>1, <1>5 DEF Good

-----------------------------------------------------------------------------
(* Sorted parameters.  Equal(q, K, p) are the places of K where q has p. *)

Equal(q, K, p) == {k \in K : q[k] = p}

\* How many parameters do not exceed a bound.
LEMMA UpToCounts ==
    ASSUME NEW q \in Seq(Nat), NEW K \in SUBSET DOMAIN q, NEW x \in Nat
    PROVE  /\ IsFiniteSet(K) /\ Cardinality(K) \in Nat
           /\ IsFiniteSet(UpTo(q, K, x))
           /\ Cardinality(UpTo(q, K, x)) \in Nat
           /\ Cardinality(UpTo(q, K, x)) <= Cardinality(K)
           /\ \A y \in 0..x : Cardinality(UpTo(q, K, y)) <= Cardinality(UpTo(q, K, x))
<1>1. IsFiniteSet(DOMAIN q) /\ \A k \in DOMAIN q : q[k] \in Nat
  <2>1. Len(q) \in Nat /\ DOMAIN q = 1..Len(q)
    BY LenProperties
  <2>2. IsFiniteSet(1..Len(q))
    BY <2>1, FS_Interval
  <2>3. \A k \in 1..Len(q) : q[k] \in Nat
    BY ElementOfSeq
  <2> QED
    BY <2>1, <2>2, <2>3
<1>2. IsFiniteSet(K) /\ Cardinality(K) \in Nat
  BY <1>1, FS_Subset, FS_CardinalityType
<1>3. UpTo(q, K, x) \in SUBSET K
  BY DEF UpTo
<1>4. /\ IsFiniteSet(UpTo(q, K, x)) /\ Cardinality(UpTo(q, K, x)) \in Nat
      /\ Cardinality(UpTo(q, K, x)) <= Cardinality(K)
  BY <1>2, <1>3, FS_Subset, FS_CardinalityType
<1>5. ASSUME NEW y \in 0..x
      PROVE  Cardinality(UpTo(q, K, y)) <= Cardinality(UpTo(q, K, x))
  <2>1. \A k \in K : q[k] <= y => q[k] <= x
    <3> TAKE k \in K
    <3>1. q[k] \in Nat /\ y \in Nat /\ y <= x
      BY <1>1
    <3> QED
      BY <3>1
  <2>2. UpTo(q, K, y) \in SUBSET UpTo(q, K, x)
    BY <2>1 DEF UpTo
  <2> QED
    BY <1>4, <2>2, FS_Subset
<1> QED
  BY <1>2, <1>4, <1>5

\* Up to x there are those up to x - 1 and those equal to x.
LEMMA UpToSteps ==
    ASSUME NEW q \in Seq(Nat), NEW K \in SUBSET DOMAIN q, NEW x \in Nat
    PROVE  /\ Cardinality(Equal(q, K, x)) \in Nat
           /\ x = 0 => Cardinality(UpTo(q, K, x)) = Cardinality(Equal(q, K, x))
           /\ x # 0 => Cardinality(UpTo(q, K, x))
                          = Cardinality(UpTo(q, K, x - 1)) + Cardinality(Equal(q, K, x))
<1>1. IsFiniteSet(K) /\ \A k \in K : q[k] \in Nat
  BY UpToCounts, ElementOfSeq, LenProperties
<1>2. Equal(q, K, x) \in SUBSET K
  BY DEF Equal
<1>3. IsFiniteSet(Equal(q, K, x)) /\ Cardinality(Equal(q, K, x)) \in Nat
  BY <1>1, <1>2, FS_Subset, FS_CardinalityType
<1>4. ASSUME x = 0 PROVE UpTo(q, K, x) = Equal(q, K, x)
  BY <1>1, <1>4 DEF UpTo, Equal
<1>5. ASSUME x # 0
      PROVE  Cardinality(UpTo(q, K, x))
                = Cardinality(UpTo(q, K, x - 1)) + Cardinality(Equal(q, K, x))
  <2>1. x - 1 \in Nat
    BY <1>5
  <2>2. IsFiniteSet(UpTo(q, K, x - 1)) /\ Cardinality(UpTo(q, K, x - 1)) \in Nat
    BY <2>1, UpToCounts
  <2>3. UpTo(q, K, x) = UpTo(q, K, x - 1) \cup Equal(q, K, x)
    BY <1>1, <1>5 DEF UpTo, Equal
  <2>4. UpTo(q, K, x - 1) \cap Equal(q, K, x) = {}
    BY <1>1, <1>5 DEF UpTo, Equal
  <2>5. Cardinality({}) = 0
    BY FS_EmptySet
  <2> DEFINE U == UpTo(q, K, x - 1)
             V == Equal(q, K, x)
  <2>6. Cardinality(U \cup V) = Cardinality(U) + Cardinality(V) - Cardinality(U \cap V)
    <3> HIDE DEF U, V
    <3>1. IsFiniteSet(U) /\ IsFiniteSet(V)
      BY <1>3, <2>2 DEF U, V
    <3> QED
      BY <3>1, FS_Union
  <2>7. Cardinality(U) \in Nat /\ Cardinality(V) \in Nat /\ Cardinality(U \cap V) = 0
    BY <1>3, <2>2, <2>4, <2>5
  <2>8. UpTo(q, K, x) = U \cup V
    BY <2>3
  <2> HIDE DEF U, V
  <2>9. Cardinality(U \cup V) = Cardinality(U) + Cardinality(V)
    BY <2>6, <2>7
  <2> QED
    BY <2>8, <2>9 DEF U, V
<1> QED
  BY <1>3, <1>4, <1>5

\* The i-th sorted parameter is at most x exactly if at least i of them are.
LEMMA InOrderBounds ==
    ASSUME NEW q \in Seq(Nat), NEW K \in SUBSET DOMAIN q,
           NEW i \in 1..Cardinality(K)
    PROVE  /\ InOrder(q, K)[i] \in Nat
           /\ \A x \in Nat : InOrder(q, K)[i] <= x <=> Cardinality(UpTo(q, K, x)) >= i
<1> DEFINE Values == {q[k] : k \in K}
           C(x) == Cardinality(UpTo(q, K, x))
           S == {p \in Values : C(p) >= i}
<1>1. /\ \A k \in K : q[k] \in Nat
      /\ Cardinality(K) \in Nat
      /\ i \in Nat /\ i >= 1 /\ i <= Cardinality(K)
  <2>1. Cardinality(K) \in Nat
    BY UpToCounts
  <2> QED
    BY <2>1, ElementOfSeq, LenProperties
<1>2. S \in SUBSET Nat
  BY <1>1
<1>3. \A x \in Nat : C(x) \in Nat
  BY UpToCounts
<1>4. \A x \in Nat, y \in Nat : y <= x => C(y) <= C(x)
  <2> TAKE x \in Nat, y \in Nat
  <2> SUFFICES ASSUME y <= x PROVE C(y) <= C(x)
    OBVIOUS
  <2>1. y \in 0..x
    OBVIOUS
  <2> HIDE DEF C
  <2>2. \A z \in 0..x : C(z) <= C(x)
    BY UpToCounts DEF C
  <2> QED
    BY <2>1, <2>2
<1>5. ASSUME NEW x \in Nat, C(x) >= i PROVE \E y \in S : y <= x
  <2> DEFINE Y == {y \in 0..x : C(y) >= i}
  <2>1. Y \in SUBSET (0..x) /\ Y # {}
    BY <1>5
  <2>2. PICK y \in Y : \A z \in Y : y <= z
    <3> HIDE DEF Y
    <3> QED
      BY <2>1, LeastUpTo
  <2>3. y \in Nat /\ y <= x /\ C(y) >= i
    OBVIOUS
  <2>4. y \in Values
    <3> SUFFICES ASSUME y \notin Values PROVE FALSE
      OBVIOUS
    <3>1. Equal(q, K, y) = {}
      BY DEF Equal
    <3>2. Cardinality(Equal(q, K, y)) = 0
      BY <3>1, FS_EmptySet
    <3>3. CASE y = 0
      BY <1>1, <2>3, <3>2, <3>3, UpToSteps
    <3>4. CASE y # 0
      <4>1. y - 1 \in Nat /\ y - 1 \in 0..x
        BY <2>3, <3>4
      <4>2. C(y) = C(y - 1) + 0
        BY <2>3, <3>2, <3>4, UpToSteps
      <4>3. C(y - 1) \in Nat
        BY <1>3, <4>1
      <4>4. y - 1 \in Y
        BY <2>3, <4>1, <4>2, <4>3
      <4> QED
        BY <2>2, <2>3, <4>1, <4>4
    <3> QED
      BY <3>3, <3>4
  <2> QED
    BY <2>3, <2>4
<1>6. S # {}
  <2>1. PICK x \in Nat : \A k \in DOMAIN q : q[k] <= x
    BY QueryBounded
  <2>2. UpTo(q, K, x) = K
    BY <2>1 DEF UpTo
  <2> QED
    BY <1>1, <1>5, <2>1, <2>2
<1>7. InOrder(q, K)[i] = Min(S)
  BY DEF InOrder
<1> HIDE DEF S, C, Values
<1>8. Min(S) \in S /\ \A y \in S : Min(S) <= y
  BY <1>2, <1>6, MinOfNaturals
<1>9. Min(S) \in Nat /\ C(Min(S)) >= i
  BY <1>2, <1>8 DEF S
<1>10. ASSUME NEW x \in Nat PROVE Min(S) <= x <=> C(x) >= i
  <2>1. ASSUME Min(S) <= x PROVE C(x) >= i
    <3>1. C(Min(S)) <= C(x) /\ C(x) \in Nat /\ C(Min(S)) \in Nat
      BY <1>3, <1>4, <1>9, <2>1
    <3> QED
      BY <1>1, <1>9, <3>1
  <2>2. ASSUME C(x) >= i PROVE Min(S) <= x
    <3>1. PICK y \in S : y <= x
      BY <1>5, <2>2
    <3> QED
      BY <1>2, <1>8, <1>9, <3>1
  <2> QED
    BY <2>1, <2>2
<1> QED
  BY <1>7, <1>9, <1>10 DEF C

\* Two queries sort to one sequence exactly if each parameter is in both as often.
LEMMA SortedAlike ==
    ASSUME NEW q \in Seq(Nat), NEW K \in SUBSET DOMAIN q,
           NEW r \in Seq(Nat), NEW J \in SUBSET DOMAIN r
    PROVE  InOrder(q, K) = InOrder(r, J)
              <=> \A p \in Nat : Cardinality(Equal(q, K, p)) = Cardinality(Equal(r, J, p))
<1> DEFINE C(x) == Cardinality(UpTo(q, K, x))
           D(x) == Cardinality(UpTo(r, J, x))
<1>1. /\ Cardinality(K) \in Nat /\ Cardinality(J) \in Nat
      /\ \A x \in Nat : C(x) \in Nat /\ D(x) \in Nat
      /\ \A x \in Nat : C(x) <= Cardinality(K) /\ D(x) <= Cardinality(J)
  <2>1. 0 \in Nat
    OBVIOUS
  <2> QED
    BY <2>1, UpToCounts
<1>2. /\ DOMAIN InOrder(q, K) = 1..Cardinality(K)
      /\ DOMAIN InOrder(r, J) = 1..Cardinality(J)
      /\ InOrder(q, K) = [i \in 1..Cardinality(K) |-> InOrder(q, K)[i]]
      /\ InOrder(r, J) = [i \in 1..Cardinality(J) |-> InOrder(r, J)[i]]
  BY DEF InOrder
<1>3. ASSUME \A p \in Nat : Cardinality(Equal(q, K, p)) = Cardinality(Equal(r, J, p))
      PROVE  InOrder(q, K) = InOrder(r, J)
  <2>1. \A x \in Nat : C(x) = D(x)
    <3> SUFFICES ASSUME NEW x \in Nat, C(x) # D(x) PROVE FALSE
      OBVIOUS
    <3> DEFINE Bad == {y \in 0..x : C(y) # D(y)}
    <3>1. Bad \in SUBSET (0..x) /\ Bad # {}
      OBVIOUS
    <3>2. PICK y \in Bad : \A z \in Bad : y <= z
      <4> HIDE DEF Bad
      <4> QED
        BY <3>1, LeastUpTo
    <3>3. y \in Nat /\ y <= x /\ C(y) # D(y)
      OBVIOUS
    <3>4. Cardinality(Equal(q, K, y)) = Cardinality(Equal(r, J, y))
      BY <1>3, <3>3
    <3>5. CASE y = 0
      <4>1. C(y) = Cardinality(Equal(q, K, y)) /\ D(y) = Cardinality(Equal(r, J, y))
        BY <3>3, <3>5, UpToSteps
      <4> QED
        BY <3>3, <3>4, <4>1
    <3>6. CASE y # 0
      <4>1. y - 1 \in 0..x /\ y - 1 \notin Bad
        BY <3>2, <3>3, <3>6
      <4>2. C(y - 1) = D(y - 1)
        BY <4>1
      <4>3. /\ C(y) = C(y - 1) + Cardinality(Equal(q, K, y))
            /\ D(y) = D(y - 1) + Cardinality(Equal(r, J, y))
        BY <3>3, <3>6, UpToSteps
      <4> QED
        BY <3>3, <3>4, <4>2, <4>3
    <3> QED
      BY <3>5, <3>6
  <2>2. Cardinality(K) = Cardinality(J)
    <3>1. PICK x \in Nat : \A k \in DOMAIN q : q[k] <= x
      BY QueryBounded
    <3>2. PICK y \in Nat : \A k \in DOMAIN r : r[k] <= y
      BY QueryBounded
    <3>3. UpTo(q, K, x) = K /\ UpTo(r, J, y) = J
      BY <3>1, <3>2 DEF UpTo
    <3>4. C(x) = D(x) /\ C(y) = D(y)
      BY <2>1
    <3>5. C(x) = Cardinality(K) /\ D(y) = Cardinality(J)
      BY <3>3
    <3>6. D(x) <= Cardinality(J) /\ C(y) <= Cardinality(K)
      BY <1>1
    <3> HIDE DEF C, D
    <3> QED
      BY <1>1, <3>4, <3>5, <3>6
  <2>3. \A i \in 1..Cardinality(K) : InOrder(q, K)[i] = InOrder(r, J)[i]
    <3> TAKE i \in 1..Cardinality(K)
    <3> DEFINE a == InOrder(q, K)[i]
               b == InOrder(r, J)[i]
    <3>1. a \in Nat /\ \A x \in Nat : a <= x <=> C(x) >= i
      BY InOrderBounds
    <3>2. b \in Nat /\ \A x \in Nat : b <= x <=> D(x) >= i
      BY <2>2, InOrderBounds
    <3> HIDE DEF a, b, C, D
    <3>3. a <= b /\ b <= a
      <4>1. a <= a /\ b <= b
        BY <3>1, <3>2
      <4>2. D(a) >= i /\ C(b) >= i
        BY <2>1, <3>1, <3>2, <4>1
      <4> QED
        BY <3>1, <3>2, <4>2
    <3>5. a = b
      BY <3>1, <3>2, <3>3
    <3> QED
      BY <3>5 DEF a, b
  <2> QED
    BY <1>2, <2>2, <2>3
<1>4. ASSUME InOrder(q, K) = InOrder(r, J), NEW p \in Nat
      PROVE  Cardinality(Equal(q, K, p)) = Cardinality(Equal(r, J, p))
  <2>1. Cardinality(K) = Cardinality(J)
    <3>1. 1..Cardinality(K) = 1..Cardinality(J)
      BY <1>2, <1>4
    <3>2. \A n \in Nat : Cardinality(1..n) = n
      <4> TAKE n \in Nat
      <4>1. Cardinality(1..n) = IF 1 > n THEN 0 ELSE n - 1 + 1
        BY FS_Interval
      <4> QED
        BY <4>1
    <3>3. Cardinality(1..Cardinality(K)) = Cardinality(K)
          /\ Cardinality(1..Cardinality(J)) = Cardinality(J)
      BY <1>1, <3>2
    <3> QED
      BY <3>1, <3>3
  <2>2. ASSUME NEW x \in Nat PROVE C(x) = D(x)
    <3>1. \A i \in 1..Cardinality(K) : C(x) >= i <=> D(x) >= i
      <4> TAKE i \in 1..Cardinality(K)
      <4>1. InOrder(q, K)[i] <= x <=> C(x) >= i
        BY InOrderBounds
      <4>2. InOrder(r, J)[i] <= x <=> D(x) >= i
        BY <2>1, InOrderBounds
      <4> QED
        BY <1>4, <4>1, <4>2
    <3>2. /\ C(x) \in Nat /\ D(x) \in Nat
          /\ C(x) <= Cardinality(K) /\ D(x) <= Cardinality(K)
      BY <1>1, <2>1
    <3> HIDE DEF C, D
    <3>3. C(x) >= 1 => D(x) >= C(x)
      BY <1>1, <3>1, <3>2
    <3>4. D(x) >= 1 => C(x) >= D(x)
      BY <1>1, <3>1, <3>2
    <3> QED
      BY <3>2, <3>3, <3>4
  <2>3. /\ Cardinality(Equal(q, K, p)) \in Nat
        /\ Cardinality(Equal(r, J, p)) \in Nat
    BY UpToSteps
  <2>4. CASE p = 0
    <3>1. C(p) = Cardinality(Equal(q, K, p)) /\ D(p) = Cardinality(Equal(r, J, p))
      BY <2>4, UpToSteps
    <3> QED
      BY <2>2, <3>1
  <2>5. CASE p # 0
    <3>1. p - 1 \in Nat
      BY <2>5
    <3>2. /\ C(p) = C(p - 1) + Cardinality(Equal(q, K, p))
          /\ D(p) = D(p - 1) + Cardinality(Equal(r, J, p))
      BY <2>5, UpToSteps
    <3>3. C(p) = D(p) /\ C(p - 1) = D(p - 1) /\ C(p - 1) \in Nat
      BY <1>1, <2>2, <3>1
    <3> HIDE DEF C, D
    <3> QED
      BY <2>3, <3>2, <3>3
  <2> QED
    BY <2>4, <2>5
<1> QED
  BY <1>3, <1>4

-----------------------------------------------------------------------------
(* normalize_url. *)

KeptPlaces(u) == {k \in DOMAIN u.query : u.query[k] \notin TrackingParams}

\* What is left of a query is a query.
LEMMA KeptTyped ==
    ASSUME NEW u \in Urls
    PROVE  /\ u.query \in Seq(Nat)
           /\ KeptParams(u) = InOrder(u.query, KeptPlaces(u))
           /\ KeptParams(u) \in Seq(Nat)
<1>1. u.query \in Seq(Nat)
  BY DEF Urls
<1>2. KeptParams(u) = InOrder(u.query, KeptPlaces(u)) /\ KeptPlaces(u) \in SUBSET DOMAIN u.query
  BY DEF KeptParams, KeptPlaces
<1> DEFINE n == Cardinality(KeptPlaces(u))
<1>3. n \in Nat
  <2>1. 0 \in Nat
    OBVIOUS
  <2> QED
    BY <1>1, <1>2, <2>1, UpToCounts
<1>4. \A i \in 1..n : InOrder(u.query, KeptPlaces(u))[i] \in Nat
  BY <1>1, <1>2, InOrderBounds
<1>5. InOrder(u.query, KeptPlaces(u)) = [i \in 1..n |-> InOrder(u.query, KeptPlaces(u))[i]]
  BY DEF InOrder
<1> HIDE DEF n
<1>6. InOrder(u.query, KeptPlaces(u)) \in [1..n -> Nat]
  BY <1>4, <1>5
<1>7. InOrder(u.query, KeptPlaces(u)) \in Seq(Nat)
  BY <1>3, <1>6, SeqDef
<1> QED
  BY <1>1, <1>2, <1>7

UrlOf(scheme, www, host, port, name, slashes, query, fragment) ==
    [scheme |-> scheme, www |-> www, host |-> host, port |-> port, name |-> name,
     slashes |-> slashes, query |-> query, fragment |-> fragment]

\* A normalised URL is one, and these are its parts.
LEMMA NormalTyped ==
    ASSUME NEW u \in Urls
    PROVE  /\ normalize_url(u) \in Urls
           /\ normalize_url(u) = UrlOf(u.scheme, LessOneWww(u), u.host, PortLeft(u),
                                         u.name, SlashesLeft(u), KeptParams(u), FALSE)
<1> DEFINE w == LessOneWww(u)
           p == PortLeft(u)
           l == SlashesLeft(u)
           q == KeptParams(u)
<1>1. /\ u.www \in Nat /\ u.port \in Nat /\ u.slashes \in Nat
      /\ u = UrlOf(u.scheme, u.www, u.host, u.port, u.name, u.slashes, u.query, u.fragment)
      /\ u.scheme \in {"http", "https"} /\ u.host \in STRING /\ u.name \in STRING
  BY DEF Urls, UrlOf
<1>2. w \in Nat
  BY <1>1 DEF LessOneWww
<1>3. p \in Nat
  BY <1>1 DEF PortLeft
<1>4. l \in Nat
  BY DEF SlashesLeft
<1>5. q \in Seq(Nat)
  BY KeptTyped
<1>6. normalize_url(u) = UrlOf(u.scheme, w, u.host, p, u.name, l, q, FALSE)
  <2> DEFINE a == [u EXCEPT !.www = w]
             b == [a EXCEPT !.port = p]
             c == [b EXCEPT !.slashes = l]
             d == [c EXCEPT !.query = q]
             e == [d EXCEPT !.fragment = FALSE]
  <2> HIDE DEF w, p, l, q
  <2>1. a = UrlOf(u.scheme, w, u.host, u.port, u.name, u.slashes, u.query, u.fragment)
    BY <1>1 DEF UrlOf
  <2> HIDE DEF a
  <2>2. b = UrlOf(u.scheme, w, u.host, p, u.name, u.slashes, u.query, u.fragment)
    BY <2>1 DEF UrlOf
  <2> HIDE DEF b
  <2>3. c = UrlOf(u.scheme, w, u.host, p, u.name, l, u.query, u.fragment)
    BY <2>2 DEF UrlOf
  <2> HIDE DEF c
  <2>4. d = UrlOf(u.scheme, w, u.host, p, u.name, l, q, u.fragment)
    BY <2>3 DEF UrlOf
  <2> HIDE DEF d
  <2>5. e = UrlOf(u.scheme, w, u.host, p, u.name, l, q, FALSE)
    <3>1. \A f : [d EXCEPT !.fragment = f] = UrlOf(u.scheme, w, u.host, p, u.name, l, q, f)
      BY <2>4 DEF UrlOf
    <3> QED
      BY <3>1, Zenon
  <2>6. normalize_url(u)
           = [[[[[u EXCEPT !.www = w] EXCEPT !.port = p] EXCEPT !.slashes = l]
                  EXCEPT !.query = q] EXCEPT !.fragment = FALSE]
    BY DEF normalize_url, w, p, l, q
  <2> QED
    BY <2>5, <2>6 DEF a, b, c, d, e
<1>7. normalize_url(u) \in Urls
  <2> HIDE DEF w, p, l, q
  <2> QED
    BY <1>1, <1>2, <1>3, <1>4, <1>5, <1>6 DEF Urls, UrlOf
<1> QED
  BY <1>6, <1>7

\* KeptPlaces parameters are those that do not track, each as often as in the query.
LEMMA KeptAlike ==
    ASSUME NEW u \in Urls, NEW v \in Urls
    PROVE  KeptParams(u) = KeptParams(v)
              <=> \A p \in (Range(u.query) \cup Range(v.query)) \ TrackingParams :
                     Count(u.query, p) = Count(v.query, p)
<1> DEFINE E(p) == Cardinality(Equal(u.query, KeptPlaces(u), p))
           F(p) == Cardinality(Equal(v.query, KeptPlaces(v), p))
           R == Range(u.query) \cup Range(v.query)
<1>1. KeptParams(u) = KeptParams(v) <=> \A p \in Nat : E(p) = F(p)
  <2>1. KeptPlaces(u) \in SUBSET DOMAIN u.query /\ KeptPlaces(v) \in SUBSET DOMAIN v.query
    BY DEF KeptPlaces
  <2>2. u.query \in Seq(Nat) /\ v.query \in Seq(Nat)
    BY KeptTyped
  <2>3. InOrder(u.query, KeptPlaces(u)) = InOrder(v.query, KeptPlaces(v))
           <=> \A p \in Nat : Cardinality(Equal(u.query, KeptPlaces(u), p))
                               = Cardinality(Equal(v.query, KeptPlaces(v), p))
    BY <2>1, <2>2, SortedAlike
  <2> QED
    BY <2>3, KeptTyped
<1>2. ASSUME NEW p \in Nat, p \notin TrackingParams
      PROVE  E(p) = Count(u.query, p) /\ F(p) = Count(v.query, p)
  <2>1. Equal(u.query, KeptPlaces(u), p) = {i \in DOMAIN u.query : u.query[i] = p}
    BY <1>2 DEF Equal, KeptPlaces
  <2>2. Equal(v.query, KeptPlaces(v), p) = {i \in DOMAIN v.query : v.query[i] = p}
    BY <1>2 DEF Equal, KeptPlaces
  <2> QED
    BY <2>1, <2>2 DEF Count
<1>3. ASSUME NEW p \in Nat, p \in TrackingParams \/ p \notin R
      PROVE  E(p) = F(p)
  <2>1. Equal(u.query, KeptPlaces(u), p) = {} /\ Equal(v.query, KeptPlaces(v), p) = {}
    BY <1>3 DEF Equal, KeptPlaces, Range
  <2> QED
    BY <2>1
<1>4. R \subseteq Nat
  <2>1. \A i \in DOMAIN u.query : u.query[i] \in Nat
    BY KeptTyped, ElementOfSeq, LenProperties
  <2>2. \A i \in DOMAIN v.query : v.query[i] \in Nat
    BY KeptTyped, ElementOfSeq, LenProperties
  <2> QED
    BY <2>1, <2>2 DEF Range
<1> HIDE DEF E, F, R
<1>5. (\A p \in Nat : E(p) = F(p))
         <=> \A p \in R \ TrackingParams : Count(u.query, p) = Count(v.query, p)
  BY <1>2, <1>3, <1>4
<1> QED
  BY <1>1, <1>5 DEF R

\* For all URLs there are: two are stored as one exactly when they are of one page.
THEOREM SpellingsOfOnePage ==
    \A u, v \in Urls : SamePage(u, v) <=> normalize_url(u) = normalize_url(v)
<1> TAKE u, v \in Urls
<1>1. normalize_url(u) = normalize_url(v) <=>
         /\ u.scheme = v.scheme
         /\ u.host = v.host
         /\ LessOneWww(u) = LessOneWww(v)
         /\ PortLeft(u) = PortLeft(v)
         /\ u.name = v.name /\ SlashesLeft(u) = SlashesLeft(v)
         /\ KeptParams(u) = KeptParams(v)
  <2>1. /\ normalize_url(u) = UrlOf(u.scheme, LessOneWww(u), u.host, PortLeft(u),
                                       u.name, SlashesLeft(u), KeptParams(u), FALSE)
        /\ normalize_url(v) = UrlOf(v.scheme, LessOneWww(v), v.host, PortLeft(v),
                                       v.name, SlashesLeft(v), KeptParams(v), FALSE)
    BY NormalTyped
  <2>2. \A f : UrlOf(u.scheme, LessOneWww(u), u.host, PortLeft(u),
                     u.name, SlashesLeft(u), KeptParams(u), f)
               = UrlOf(v.scheme, LessOneWww(v), v.host, PortLeft(v),
                       v.name, SlashesLeft(v), KeptParams(v), f)
               <=> /\ u.scheme = v.scheme
                   /\ u.host = v.host
                   /\ LessOneWww(u) = LessOneWww(v)
                   /\ PortLeft(u) = PortLeft(v)
                   /\ u.name = v.name /\ SlashesLeft(u) = SlashesLeft(v)
                   /\ KeptParams(u) = KeptParams(v)
    BY DEF UrlOf
  <2> QED
    BY <2>1, <2>2, Zenon
<1>2. /\ u.www \in Nat /\ v.www \in Nat /\ u.port \in Nat /\ v.port \in Nat
      /\ u.slashes \in Nat /\ v.slashes \in Nat
  BY DEF Urls
<1>3. u.scheme \in {"http", "https"}
  BY DEF Urls
<1>4. LessOneWww(u) = LessOneWww(v) <=> u.www = v.www \/ {u.www, v.www} = {0, 1}
  <2>1. {u.www, v.www} = {0, 1} <=> (u.www = 0 /\ v.www = 1) \/ (u.www = 1 /\ v.www = 0)
    BY <1>2
  <2>2. LessOneWww(u) = LessOneWww(v)
           <=> u.www = v.www \/ (u.www = 0 /\ v.www = 1) \/ (u.www = 1 /\ v.www = 0)
    BY <1>2 DEF LessOneWww
  <2> QED
    BY <2>1, <2>2
<1>5. ASSUME u.scheme = v.scheme
      PROVE  PortLeft(u) = PortLeft(v) <=> SamePort(u, v)
  <2> DEFINE d == IF u.scheme = "https" THEN 443 ELSE 80
             a == u.port
             b == v.port
  <2>1. PortLeft(u) = (IF a = d THEN 0 ELSE a) /\ PortLeft(v) = (IF b = d THEN 0 ELSE b)
    <3>1. CASE u.scheme = "https"
      <4>1. d = 443 /\ (DefaultPort(u) <=> a = 443) /\ (DefaultPort(v) <=> b = 443)
        BY <1>5, <3>1 DEF DefaultPort
      <4> QED
        BY <4>1 DEF PortLeft
    <3>2. CASE u.scheme = "http"
      <4>1. d = 80 /\ (DefaultPort(u) <=> a = 80) /\ (DefaultPort(v) <=> b = 80)
        BY <1>5, <3>2 DEF DefaultPort
      <4> QED
        BY <4>1 DEF PortLeft
    <3> QED
      BY <1>3, <3>1, <3>2
  <2>2. d \in Nat /\ d > 0
    OBVIOUS
  <2>3. SamePort(u, v) <=> a = b \/ {a, b} = {0, d}
    BY DEF SamePort
  <2>4. a \in Nat /\ b \in Nat
    BY <1>2
  <2> HIDE DEF a, b, d
  <2>5. {a, b} = {0, d} <=> (a = 0 /\ b = d) \/ (a = d /\ b = 0)
    BY <2>2, <2>4
  <2> QED
    BY <2>1, <2>2, <2>3, <2>4, <2>5
<1>6. u.name = v.name /\ SlashesLeft(u) = SlashesLeft(v) <=> SamePath(u, v)
  <2> DEFINE few(x) == x.slashes <= 1
  <2>1. SlashesLeft(u) = (IF u.name = "" /\ few(u) THEN 1 ELSE 0)
        /\ SlashesLeft(v) = (IF v.name = "" /\ few(v) THEN 1 ELSE 0)
    BY DEF SlashesLeft
  <2>2. SamePath(u, v) <=> u.name = v.name /\ (u.name = "" => (few(u) <=> few(v)))
    BY DEF SamePath
  <2> HIDE DEF few
  <2>3. CASE u.name = v.name
    <3>1. CASE u.name = ""
      <4>1. /\ SlashesLeft(u) = (IF few(u) THEN 1 ELSE 0)
            /\ SlashesLeft(v) = (IF few(v) THEN 1 ELSE 0)
        BY <2>1, <2>3, <3>1
      <4>2. SlashesLeft(u) = SlashesLeft(v) <=> (few(u) <=> few(v))
        BY <4>1
      <4> QED
        BY <2>2, <2>3, <3>1, <4>2
    <3>2. CASE u.name # ""
      <4>1. SlashesLeft(u) = 0 /\ SlashesLeft(v) = 0
        BY <2>1, <2>3, <3>2
      <4> QED
        BY <2>2, <2>3, <3>2, <4>1
    <3> QED
      BY <3>1, <3>2
  <2> QED
    BY <2>2, <2>3
<1>7. SamePage(u, v) <=>
         /\ u.scheme = v.scheme
         /\ u.host = v.host
         /\ u.www = v.www \/ {u.www, v.www} = {0, 1}
         /\ SamePort(u, v)
         /\ SamePath(u, v)
         /\ KeptParams(u) = KeptParams(v)
  BY KeptAlike DEF SamePage
<1> QED
  BY <1>1, <1>4, <1>5, <1>6, <1>7

TableRow == [url : Urls, matched_terms : SUBSET Terms, status : Statuses,
              notes : Seq(Notes \cup {TAG})]
LogEntry == [matched_terms : SUBSET Terms, status : Statuses, notes : Seq(Notes)]

\* The notes of a row are those of the log, or those with one tag among them.
TagOnce(s, t) ==
    \/ s = t
    \/ \E k \in 1..Len(s) :
          /\ Len(s) = Len(t) + 1 /\ s[k] = TAG
          /\ \A i \in 1..(k - 1) : s[i] = t[i]
          /\ \A i \in k..Len(t) : s[i + 1] = t[i]

FoundAs(url, S) == {h \in S : normalize_url(h.url) = url}

RowSound(table, log, S, i) ==
    /\ FoundAs(table[i].url, S) # {}
    /\ \A j \in DOMAIN table : table[j].url = table[i].url => j = i
    /\ table[i].matched_terms = UNION {h.matched_terms : h \in FoundAs(table[i].url, S)}
    /\ log[i].matched_terms = table[i].matched_terms
    /\ log[i].status = table[i].status
    /\ TagOnce(table[i].notes, log[i].notes)

\* What the table, the log and the hits stored so far are to each other.
Sound(table, log, S) ==
    /\ table \in Seq(TableRow)
    /\ log \in Seq(LogEntry)
    /\ Len(log) = Len(table)
    /\ \A h \in S : \E i \in 1..Len(table) : table[i].url = normalize_url(h.url)
    /\ \A i \in 1..Len(table) : RowSound(table, log, S, i)

LEMMA HitTyped ==
    ASSUME NEW h \in Hits
    PROVE  normalize_url(h.url) \in Urls /\ h.matched_terms \in SUBSET Terms
<1>1. h.url \in Urls
  BY SpellingsAssumption, HitsAssumption
<1>2. normalize_url(h.url) \in Urls
  BY <1>1, NormalTyped
<1> QED
  BY <1>2 DEF Terms

\* A page seen for the first time gets a row and a log entry of its own.
LEMMA NewMentionSound ==
    ASSUME NEW table, NEW log, NEW S \in SUBSET Hits, Sound(table, log, S),
           NEW hit \in Hits, NEW url, url = normalize_url(hit.url), Known(table, url) = {},
           NEW row, row = [url |-> url, matched_terms |-> hit.matched_terms,
                           status |-> "new", notes |-> << >>],
           NEW entry, entry = [matched_terms |-> hit.matched_terms, status |-> "new",
                               notes |-> << >>]
    PROVE  Sound(Append(table, row), Append(log, entry), S \cup {hit})
<1> DEFINE R == Append(table, row)
           L == Append(log, entry)
           T == S \cup {hit}
           n == Len(table)
<1>1. /\ table \in Seq(TableRow) /\ log \in Seq(LogEntry) /\ Len(log) = n
      /\ \A h \in S : \E i \in 1..n : table[i].url = normalize_url(h.url)
      /\ \A i \in 1..n : RowSound(table, log, S, i)
  BY DEF Sound
<1>2. n \in Nat /\ DOMAIN table = 1..n
  BY <1>1, LenProperties
<1>3. row \in TableRow /\ entry \in LogEntry
  <2>1. url \in Urls /\ hit.matched_terms \in SUBSET Terms /\ "new" \in Statuses
    BY HitTyped, StatusesAssumption
  <2>2. << >> \in Seq(Notes) /\ << >> \in Seq(Notes \cup {TAG})
    OBVIOUS
  <2> QED
    BY <2>1, <2>2 DEF TableRow, LogEntry
<1>4. /\ R \in Seq(TableRow) /\ Len(R) = n + 1
      /\ \A i \in 1..n : R[i] = table[i]
      /\ R[n + 1] = row
  BY <1>1, <1>3, AppendProperties
<1>5. /\ L \in Seq(LogEntry) /\ Len(L) = n + 1
      /\ \A i \in 1..n : L[i] = log[i]
      /\ L[n + 1] = entry
  BY <1>1, <1>3, AppendProperties
<1>6. DOMAIN R = 1..(n + 1)
  BY <1>4, LenProperties
<1>7. \A i \in 1..n : table[i].url # url
  BY <1>2 DEF Known
<1>8. FoundAs(url, S) = {} /\ FoundAs(url, T) = {hit}
  <2>1. FoundAs(url, S) = {}
    BY <1>1, <1>7 DEF FoundAs
  <2> QED
    BY <2>1 DEF FoundAs
<1>9. \A i \in 1..n : FoundAs(table[i].url, T) = FoundAs(table[i].url, S)
  BY <1>7 DEF FoundAs
<1>10. row.url = url /\ row.matched_terms = hit.matched_terms /\ row.status = "new"
       /\ row.notes = << >> /\ entry.matched_terms = hit.matched_terms
       /\ entry.status = "new" /\ entry.notes = << >>
  OBVIOUS
<1>11. \A i \in 1..(n + 1) : i = n + 1 \/ i \in 1..n
  BY <1>2
<1>12. n + 1 \in 1..(n + 1) /\ 1..n \subseteq 1..(n + 1) /\ n + 1 \notin 1..n
  BY <1>2
<1> HIDE DEF R, L, T, n
<1>13. ASSUME NEW i \in 1..n PROVE RowSound(R, L, T, i)
  <2>1. R[i] = table[i] /\ L[i] = log[i] /\ FoundAs(R[i].url, T) = FoundAs(table[i].url, S)
    BY <1>4, <1>5, <1>9
  <2>2. \A j \in DOMAIN R : R[j].url = R[i].url => j = i
    <3> SUFFICES ASSUME NEW j \in 1..(n + 1), R[j].url = R[i].url PROVE j = i
      BY <1>6
    <3>1. CASE j \in 1..n
      BY <1>1, <1>2, <1>4, <2>1, <3>1 DEF RowSound
    <3>2. CASE j = n + 1
      BY <1>4, <1>7, <1>10, <2>1, <3>2
    <3> QED
      BY <1>11, <3>1, <3>2
  <2> QED
    BY <1>1, <2>1, <2>2 DEF RowSound
<1>14. RowSound(R, L, T, n + 1)
  <2>1. R[n + 1].url = url /\ FoundAs(R[n + 1].url, T) = {hit}
    BY <1>4, <1>8, <1>10
  <2>2. \A j \in DOMAIN R : R[j].url = url => j = n + 1
    BY <1>4, <1>6, <1>7, <1>11
  <2>3. UNION {h.matched_terms : h \in {hit}} = hit.matched_terms
    OBVIOUS
  <2> QED
    BY <1>4, <1>5, <1>10, <2>1, <2>2, <2>3 DEF RowSound, TagOnce
<1>15. \A h \in T : \E i \in 1..(n + 1) : R[i].url = normalize_url(h.url)
  <2>1. \A h \in S : \E i \in 1..(n + 1) : R[i].url = normalize_url(h.url)
    BY <1>1, <1>4, <1>12
  <2>2. R[n + 1].url = normalize_url(hit.url)
    BY <1>4, <1>10
  <2> QED
    BY <1>12, <2>1, <2>2 DEF T
<1> QED
  BY <1>4, <1>5, <1>11, <1>13, <1>14, <1>15 DEF Sound, R, L, T, n

\* TableRow i and its log entry have got the terms of the hit, and nothing else changed.
TermsAdded(table, log, i, hit, R, L) ==
    /\ R \in Seq(TableRow) /\ Len(R) = Len(table)
    /\ L \in Seq(LogEntry) /\ Len(L) = Len(log)
    /\ \A j \in 1..Len(table) : j # i => R[j] = table[j] /\ L[j] = log[j]
    /\ R[i].url = table[i].url /\ R[i].status = table[i].status /\ R[i].notes = table[i].notes
    /\ L[i].status = log[i].status /\ L[i].notes = log[i].notes
    /\ R[i].matched_terms = table[i].matched_terms \cup hit.matched_terms
    /\ L[i].matched_terms = R[i].matched_terms

LEMMA MergedSound ==
    ASSUME NEW table, NEW log, NEW S \in SUBSET Hits, Sound(table, log, S),
           NEW hit \in Hits, NEW i \in 1..Len(table), table[i].url = normalize_url(hit.url),
           NEW R, NEW L, TermsAdded(table, log, i, hit, R, L)
    PROVE  Sound(R, L, S \cup {hit})
<1> DEFINE T == S \cup {hit}
           n == Len(table)
<1> USE DEF TermsAdded
<1>1. /\ table \in Seq(TableRow) /\ Len(log) = n
      /\ \A h \in S : \E j \in 1..n : table[j].url = normalize_url(h.url)
      /\ \A j \in 1..n : RowSound(table, log, S, j)
  BY DEF Sound
<1>2. DOMAIN table = 1..n /\ DOMAIN R = 1..n
  BY <1>1, LenProperties
<1>3. \A j \in 1..n : R[j].url = table[j].url
  OBVIOUS
<1> HIDE DEF n
<1>4. ASSUME NEW j \in 1..n, j # i PROVE RowSound(R, L, T, j)
  <2>1. R[j] = table[j] /\ L[j] = log[j]
    BY <1>4 DEF n
  <2>2. table[j].url # normalize_url(hit.url)
    BY <1>1, <1>2, <1>4 DEF RowSound, n
  <2>3. FoundAs(R[j].url, T) = FoundAs(table[j].url, S)
    BY <2>1, <2>2 DEF FoundAs
  <2>4. \A k \in DOMAIN R : R[k].url = R[j].url => k = j
    BY <1>1, <1>2, <1>3 DEF RowSound
  <2> QED
    BY <1>1, <2>1, <2>3, <2>4 DEF RowSound
<1>5. RowSound(R, L, T, i)
  <2>1. RowSound(table, log, S, i)
    BY <1>1 DEF n
  <2>2. FoundAs(R[i].url, T) = FoundAs(table[i].url, S) \cup {hit}
    BY DEF FoundAs
  <2>3. UNION {h.matched_terms : h \in FoundAs(R[i].url, T)}
           = (UNION {h.matched_terms : h \in FoundAs(table[i].url, S)}) \cup hit.matched_terms
    BY <2>2
  <2>4. R[i].matched_terms = UNION {h.matched_terms : h \in FoundAs(R[i].url, T)}
    BY <2>1, <2>3 DEF RowSound
  <2>5. \A k \in DOMAIN R : R[k].url = R[i].url => k = i
    BY <1>2, <1>3, <2>1 DEF RowSound, n
  <2> QED
    BY <2>1, <2>2, <2>4, <2>5 DEF RowSound
<1>6. \A h \in T : \E j \in 1..n : R[j].url = normalize_url(h.url)
  <2>1. \A h \in S : \E j \in 1..n : R[j].url = normalize_url(h.url)
    BY <1>1, <1>3
  <2> QED
    BY <2>1, <1>3 DEF n
<1>7. \A j \in 1..n : RowSound(R, L, T, j)
  BY <1>4, <1>5
<1> QED
  BY <1>1, <1>6, <1>7 DEF Sound, n

\* Storing a hit, whether its page is known or not.
LEMMA StoreHitSound ==
    ASSUME NEW db, NEW S \in SUBSET Hits, Sound(db.rows, db.log, S), NEW hit \in Hits
    PROVE  /\ Sound(StoreHit(db, hit).rows, StoreHit(db, hit).log, S \cup {hit})
           /\ Len(db.rows) <= Len(StoreHit(db, hit).rows)
<1> DEFINE url == normalize_url(hit.url)
           known == Known(db.rows, url)
           row == [url |-> url, matched_terms |-> hit.matched_terms,
                   status |-> "new", notes |-> << >>]
           entry == [matched_terms |-> hit.matched_terms, status |-> "new", notes |-> << >>]
<1>1. /\ db.rows \in Seq(TableRow) /\ db.log \in Seq(LogEntry) /\ Len(db.log) = Len(db.rows)
      /\ \A i \in 1..Len(db.rows) : RowSound(db.rows, db.log, S, i)
  BY DEF Sound
<1>2. DOMAIN db.rows = 1..Len(db.rows) /\ Len(db.rows) \in Nat
  BY <1>1, LenProperties
<1>3. CASE known = {}
  <2>1. StoreHit(db, hit) = NewMention(db, url, hit)
    BY <1>3 DEF StoreHit
  <2>2. NewMention(db, url, hit).rows = Append(db.rows, row)
        /\ NewMention(db, url, hit).log = Append(db.log, entry)
    BY DEF NewMention
  <2> HIDE DEF url
  <2>3. url = normalize_url(hit.url)
    BY DEF url
  <2>4. Sound(Append(db.rows, row), Append(db.log, entry), S \cup {hit})
    <3>1. PICK r, e : r = row /\ e = entry
      OBVIOUS
    <3>2. Sound(Append(db.rows, r), Append(db.log, e), S \cup {hit})
      BY <1>3, <2>3, <3>1, NewMentionSound
    <3> QED
      BY <3>1, <3>2
  <2>5. Append(db.rows, row) \in Seq(TableRow)
    BY <2>4 DEF Sound
  <2>6. Len(Append(db.rows, row)) = Len(db.rows) + 1
    <3> HIDE DEF row
    <3> QED
      BY <1>1
  <2> QED
    BY <1>2, <2>1, <2>2, <2>4, <2>6
<1>4. CASE known # {}
  <2>1. PICK i : i = (CHOOSE k \in known : TRUE)
    OBVIOUS
  <2>2. i \in known
    BY <1>4, <2>1
  <2>3. i \in 1..Len(db.rows) /\ db.rows[i].url = url
    BY <1>2, <2>2 DEF Known
  <2>4. StoreHit(db, hit) = UpdateTerms(db, i, hit)
    BY <1>4, <2>1 DEF StoreHit
  <2> DEFINE merged == db.rows[i].matched_terms \cup hit.matched_terms
  <2>5. db.rows[i] \in TableRow /\ db.log[i] \in LogEntry
    BY <1>1, <2>3, ElementOfSeq
  <2>6. merged \in SUBSET Terms
    BY <2>5, HitTyped DEF TableRow
  <2>7. RowSound(db.rows, db.log, S, i)
    BY <1>1, <2>3
  <2>8. CASE merged = db.rows[i].matched_terms
    <3>1. UpdateTerms(db, i, hit) = db
      BY <2>8 DEF UpdateTerms, MergedTerms
    <3>2. db.log[i].matched_terms = db.rows[i].matched_terms
      BY <2>7 DEF RowSound
    <3>3. Sound(db.rows, db.log, S \cup {hit})
      <4>1. TermsAdded(db.rows, db.log, i, hit, db.rows, db.log)
        BY <1>1, <2>8, <3>2 DEF TermsAdded
      <4> QED
        BY <2>3, <4>1, MergedSound
    <3> QED
      BY <1>2, <2>4, <3>1, <3>3
  <2>9. CASE merged # db.rows[i].matched_terms
    <3> DEFINE r == [db.rows[i] EXCEPT !.matched_terms = merged]
               e == [db.log[i] EXCEPT !.matched_terms = merged]
               R == [db.rows EXCEPT ![i] = r]
               L == [db.log EXCEPT ![i] = e]
    <3>1. UpdateTerms(db, i, hit).rows = R /\ UpdateTerms(db, i, hit).log = L
      BY <2>9 DEF UpdateTerms, MergedTerms
    <3> HIDE DEF merged
    <3>2. /\ r \in TableRow /\ r.url = db.rows[i].url /\ r.status = db.rows[i].status
          /\ r.notes = db.rows[i].notes /\ r.matched_terms = merged
      BY <2>5, <2>6 DEF TableRow
    <3>3. /\ e \in LogEntry /\ e.status = db.log[i].status
          /\ e.notes = db.log[i].notes /\ e.matched_terms = merged
      BY <2>5, <2>6 DEF LogEntry
    <3> HIDE DEF r, e
    <3>4. /\ R \in Seq(TableRow) /\ Len(R) = Len(db.rows)
          /\ \A j \in 1..Len(db.rows) : R[j] = IF j = i THEN r ELSE db.rows[j]
      BY <1>1, <2>3, <3>2, ExceptSeq
    <3>5. /\ L \in Seq(LogEntry) /\ Len(L) = Len(db.log)
          /\ \A j \in 1..Len(db.rows) : L[j] = IF j = i THEN e ELSE db.log[j]
      BY <1>1, <2>3, <3>3, ExceptSeq
    <3> HIDE DEF R, L
    <3>6. R[i] = r /\ L[i] = e
          /\ \A j \in 1..Len(db.rows) : j # i => R[j] = db.rows[j] /\ L[j] = db.log[j]
      BY <2>3, <3>4, <3>5
    <3>7. R[i].matched_terms = db.rows[i].matched_terms \cup hit.matched_terms
          /\ L[i].matched_terms = R[i].matched_terms
      BY <3>2, <3>3, <3>6 DEF merged
    <3>8. Sound(R, L, S \cup {hit})
      <4> HIDE DEF url
      <4>1. db.rows[i].url = normalize_url(hit.url)
        BY <2>3 DEF url
      <4>2. TermsAdded(db.rows, db.log, i, hit, R, L)
        BY <3>2, <3>3, <3>4, <3>5, <3>6, <3>7 DEF TermsAdded
      <4> QED
        BY <2>3, <4>1, <4>2, MergedSound
    <3> QED
      BY <1>2, <2>4, <3>1, <3>4, <3>8
  <2> QED
    BY <2>8, <2>9
<1> QED
  BY <1>3, <1>4

\* Storing all hits of a run.
LEMMA StoreHitsSound ==
    ASSUME NEW db, NEW S \in SUBSET Hits, Sound(db.rows, db.log, S),
           NEW N \in Nat, NEW pairs \in [1..N -> Hits]
    PROVE  /\ Sound(StoreHits(db, pairs).rows, StoreHits(db, pairs).log,
                    S \cup Range(pairs))
           /\ Len(db.rows) <= Len(StoreHits(db, pairs).rows)
<1> DEFINE Runs(g, k) == g = [n \in 0..k |-> IF n = 0 THEN db ELSE StoreHit(g[n - 1], pairs[n])]
           NoRun == {k \in 0..N : ~ \E g : Runs(g, k)}
<1>1. pairs \in Seq(Hits) /\ Len(pairs) = N /\ \A n \in 1..N : pairs[n] \in Hits
  OBVIOUS
<1>2. NoRun = {}
  <2> SUFFICES ASSUME NoRun # {} PROVE FALSE
    OBVIOUS
  <2>1. PICK k \in NoRun : \A j \in NoRun : k <= j
    <3> HIDE DEF NoRun
    <3>1. NoRun \in SUBSET (0..N)
      BY DEF NoRun
    <3> QED
      BY <3>1, LeastUpTo
  <2>2. k \in 0..N /\ ~ \E g : Runs(g, k)
    OBVIOUS
  <2>3. CASE k = 0
    <3>1. Runs([n \in 0..0 |-> db], 0)
      OBVIOUS
    <3> QED
      BY <2>2, <2>3, <3>1
  <2>4. CASE k # 0
    <3>1. k - 1 \in 0..N /\ k - 1 \notin NoRun
      <4> HIDE DEF NoRun, Runs
      <4>1. k - 1 \in 0..N /\ ~ k <= k - 1
        BY <2>2, <2>4
      <4> QED
        BY <2>1, <4>1
    <3>2. PICK g : Runs(g, k - 1)
      BY <3>1
    <3> DEFINE h == [n \in 0..k |-> IF n = k THEN StoreHit(g[k - 1], pairs[k]) ELSE g[n]]
    <3>3. Runs(h, k)
      <4> SUFFICES ASSUME NEW n \in 0..k
                   PROVE  h[n] = IF n = 0 THEN db ELSE StoreHit(h[n - 1], pairs[n])
        OBVIOUS
      <4>1. k \in Nat /\ k > 0
        BY <2>2, <2>4
      <4>2. CASE n = k
        BY <4>1, <4>2
      <4>3. CASE n # k
        <5>1. n \in 0..(k - 1) /\ h[n] = g[n]
          BY <4>1, <4>3
        <5>2. g[n] = IF n = 0 THEN db ELSE StoreHit(g[n - 1], pairs[n])
          BY <3>2, <5>1
        <5>3. n # 0 => h[n - 1] = g[n - 1]
          BY <4>1, <4>3
        <5> QED
          BY <5>1, <5>2, <5>3
      <4> QED
        BY <4>2, <4>3
    <3> QED
      BY <2>2, <3>3
  <2> QED
    BY <2>3, <2>4
<1>3. \E g : Runs(g, N)
  <2>1. N \in 0..N
    OBVIOUS
  <2> QED
    BY <1>2, <2>1
<1>4. PICK after :
         /\ after = [n \in 0..N |-> IF n = 0 THEN db ELSE StoreHit(after[n - 1], pairs[n])]
         /\ StoreHits(db, pairs) = after[N]
  <2> DEFINE f == CHOOSE g : Runs(g, N)
  <2>1. Runs(f, N)
    BY <1>3
  <2>2. StoreHits(db, pairs) = f[N]
    BY <1>1 DEF StoreHits
  <2> QED
    BY <2>1, <2>2
<1> DEFINE T(n) == S \cup {pairs[k] : k \in 1..n}
           Good(n) == /\ Sound(after[n].rows, after[n].log, T(n))
                      /\ Len(db.rows) <= Len(after[n].rows)
           Bad == {n \in 0..N : ~ Good(n)}
<1>5. after[0] = db /\ \A n \in 1..N : after[n] = StoreHit(after[n - 1], pairs[n])
  BY <1>4
<1>6. Len(db.rows) \in Nat
  BY LenProperties DEF Sound
<1>7. Bad = {}
  <2> SUFFICES ASSUME Bad # {} PROVE FALSE
    OBVIOUS
  <2>1. PICK n \in Bad : \A j \in Bad : n <= j
    <3> HIDE DEF Bad
    <3>1. Bad \in SUBSET (0..N)
      BY DEF Bad
    <3> QED
      BY <3>1, LeastUpTo
  <2>2. n \in 0..N /\ ~ Good(n)
    OBVIOUS
  <2>3. n # 0
    <3>1. T(0) = S
      OBVIOUS
    <3> HIDE DEF T
    <3>2. Good(0)
      BY <1>5, <1>6, <3>1
    <3> QED
      BY <2>2, <3>2
  <2>4. n - 1 \in 0..N /\ n - 1 \notin Bad /\ n \in 1..N
    <3> HIDE DEF Bad, Good
    <3>1. n - 1 \in 0..N /\ n \in 1..N /\ ~ n <= n - 1
      BY <2>2, <2>3
    <3> QED
      BY <2>1, <3>1
  <2>5. Good(n - 1)
    BY <2>4
  <2>6. T(n) = T(n - 1) \cup {pairs[n]} /\ T(n - 1) \in SUBSET Hits /\ pairs[n] \in Hits
    <3>1. 1..n = (1..(n - 1)) \cup {n}
      BY <2>4
    <3> QED
      BY <1>1, <2>4, <3>1
  <2> HIDE DEF T
  <2>7. /\ Sound(StoreHit(after[n - 1], pairs[n]).rows, StoreHit(after[n - 1], pairs[n]).log,
                 T(n - 1) \cup {pairs[n]})
        /\ Len(after[n - 1].rows) <= Len(StoreHit(after[n - 1], pairs[n]).rows)
    BY <2>5, <2>6, StoreHitSound
  <2>8. after[n] = StoreHit(after[n - 1], pairs[n])
    BY <1>5, <2>4
  <2>9. Sound(after[n].rows, after[n].log, T(n))
    BY <2>6, <2>7, <2>8
  <2>10. Len(after[n - 1].rows) \in Nat /\ Len(after[n].rows) \in Nat
    BY <2>5, <2>9, LenProperties DEF Sound
  <2>11. Len(db.rows) <= Len(after[n].rows)
    BY <1>6, <2>5, <2>7, <2>8, <2>10
  <2> QED
    BY <2>2, <2>9, <2>11
<1>8. Good(N)
  <2>1. N \in 0..N
    OBVIOUS
  <2> QED
    BY <1>7, <2>1
<1>9. {pairs[k] : k \in 1..N} = Range(pairs)
  BY DEF Range
<1> QED
  BY <1>4, <1>8, <1>9

-----------------------------------------------------------------------------
(* Notes and tags. *)

\* Without its tag the row's notes are the log's, and it has one tag at most.
LEMMA TagRemoved ==
    ASSUME NEW s \in Seq(Notes \cup {TAG}), NEW t \in Seq(Notes), TagOnce(s, t)
    PROVE  RemoveFirst(s, TAG) = t /\ Count(s, TAG) <= 1
<1> DEFINE At == {i \in 1..Len(s) : s[i] = TAG}
<1>1. /\ Len(s) \in Nat /\ DOMAIN s = 1..Len(s) /\ \A i \in 1..Len(s) : s[i] \in Notes \cup {TAG}
      /\ Len(t) \in Nat /\ DOMAIN t = 1..Len(t) /\ \A i \in 1..Len(t) : t[i] \in Notes
  BY ElementOfSeq, LenProperties
<1>2. \A i \in 1..Len(t) : t[i] # TAG
  BY <1>1, TagAssumption
<1>3. Count(s, TAG) = Cardinality(At)
  BY <1>1 DEF Count
<1>4. CASE s = t
  <2>1. At = {}
    BY <1>2, <1>4
  <2>2. Cardinality(At) = 0
    BY <2>1, FS_EmptySet
  <2>3. RemoveFirst(s, TAG) = s
    BY <2>1 DEF RemoveFirst
  <2> QED
    BY <1>3, <1>4, <2>2, <2>3
<1>5. CASE \E k \in 1..Len(s) :
             /\ Len(s) = Len(t) + 1 /\ s[k] = TAG
             /\ \A i \in 1..(k - 1) : s[i] = t[i]
             /\ \A i \in k..Len(t) : s[i + 1] = t[i]
  <2>1. PICK k \in 1..Len(s) :
             /\ Len(s) = Len(t) + 1 /\ s[k] = TAG
             /\ \A i \in 1..(k - 1) : s[i] = t[i]
             /\ \A i \in k..Len(t) : s[i + 1] = t[i]
    BY <1>5
  <2>2. ASSUME NEW i \in 1..Len(s), i # k PROVE s[i] # TAG
    <3>1. CASE i < k
      <4>1. i \in 1..(k - 1) /\ i \in 1..Len(t)
        BY <1>1, <2>1, <3>1
      <4> QED
        BY <1>2, <2>1, <4>1
    <3>2. CASE i > k
      <4>1. i - 1 \in k..Len(t) /\ i - 1 \in 1..Len(t) /\ i - 1 + 1 = i
        BY <1>1, <2>1, <3>2
      <4>2. s[i - 1 + 1] = t[i - 1]
        BY <2>1, <4>1
      <4> QED
        BY <1>2, <4>1, <4>2
    <3> QED
      BY <1>1, <2>2, <3>1, <3>2
  <2>3. At = {k}
    BY <2>1, <2>2
  <2>4. Cardinality(At) = 1
    BY <2>3, FS_Singleton
  <2>5. SelectInSeq(s, LAMBDA v : v = TAG) = k
    <3>1. SelectInSeq(s, LAMBDA v : v = TAG) = Min(At)
      BY <2>3 DEF SelectInSeq
    <3>2. Min({k}) = k
      BY <1>1 DEF Min
    <3> QED
      BY <2>3, <3>1, <3>2
  <2> DEFINE a == SubSeq(s, 1, k - 1)
             b == SubSeq(s, k + 1, Len(s))
  <2>6. RemoveFirst(s, TAG) = a \o b
    BY <2>1, <2>5 DEF RemoveFirst, RemoveAt
  <2>7. /\ k \in Nat /\ k > 0 /\ k - 1 \in Int /\ k + 1 \in Int /\ Len(s) \in Int
        /\ \A i \in 1..(k - 1) : i \in 1..Len(t)
        /\ \A i \in (k + 1)..Len(s) : i - 1 \in k..Len(t) /\ i - 1 \in 1..Len(t) /\ i - 1 + 1 = i
    BY <1>1, <2>1
  <2>8. \A i \in 1..(k - 1) : s[i] = t[i] /\ s[i] \in Notes
    BY <1>1, <2>1, <2>7
  <2>9. \A i \in (k + 1)..Len(s) : s[i] = t[i - 1] /\ s[i] \in Notes
    <3> TAKE i \in (k + 1)..Len(s)
    <3>1. s[i - 1 + 1] = t[i - 1]
      BY <2>1, <2>7
    <3> QED
      BY <1>1, <2>7, <3>1
  <2>10. /\ a \in Seq(Notes) /\ Len(a) = k - 1
         /\ \A i \in 1..(k - 1) : a[i] = s[i]
    <3>1. /\ a \in Seq(Notes)
          /\ Len(a) = IF 1 <= k - 1 THEN k - 1 - 1 + 1 ELSE 0
          /\ \A i \in 1..(k - 1 - 1 + 1) : a[i] = s[1 + i - 1]
      <4> HIDE DEF a
      <4>1. 1 \in Int
        OBVIOUS
      <4> QED
        BY <2>7, <2>8, <4>1, SubSeqProperties DEF a
    <3> HIDE DEF a
    <3>2. 1..(k - 1 - 1 + 1) = 1..(k - 1) /\ \A i \in 1..(k - 1) : 1 + i - 1 = i
      BY <2>7
    <3> QED
      BY <2>7, <3>1, <3>2
  <2>11. /\ b \in Seq(Notes) /\ Len(b) = Len(s) - k
         /\ \A i \in 1..(Len(s) - k) : b[i] = t[k + i - 1]
    <3>1. /\ b \in Seq(Notes)
          /\ Len(b) = IF k + 1 <= Len(s) THEN Len(s) - (k + 1) + 1 ELSE 0
          /\ \A i \in 1..(Len(s) - (k + 1) + 1) : b[i] = s[k + 1 + i - 1]
      BY <2>7, <2>9, SubSeqProperties
    <3> HIDE DEF b
    <3>2. Len(b) = Len(s) - k
      BY <1>1, <2>1, <2>7, <3>1
    <3>3. \A i \in 1..(Len(s) - k) : i \in 1..(Len(s) - (k + 1) + 1)
             /\ k + 1 + i - 1 \in (k + 1)..Len(s) /\ k + 1 + i - 1 - 1 = k + i - 1
      BY <1>1, <2>1, <2>7
    <3>4. ASSUME NEW i \in 1..(Len(s) - k) PROVE b[i] = t[k + i - 1]
      <4>1. b[i] = s[k + 1 + i - 1]
        BY <3>1, <3>3
      <4>2. s[k + 1 + i - 1] = t[k + 1 + i - 1 - 1]
        BY <2>9, <3>3
      <4>3. k + 1 + i - 1 - 1 = k + i - 1
        BY <3>3
      <4> QED
        BY <4>1, <4>2, <4>3
    <3> QED
      BY <3>1, <3>2, <3>4
  <2> HIDE DEF a, b
  <2>12. /\ a \o b \in Seq(Notes)
         /\ Len(a \o b) = Len(a) + Len(b)
         /\ \A i \in 1..(Len(a) + Len(b)) :
               (a \o b)[i] = IF i <= Len(a) THEN a[i] ELSE b[i - Len(a)]
    BY <2>10, <2>11, ConcatProperties
  <2>13. Len(a \o b) = Len(t)
    BY <1>1, <2>1, <2>7, <2>10, <2>11, <2>12
  <2>14. ASSUME NEW i \in 1..Len(t) PROVE (a \o b)[i] = t[i]
    <3>1. i \in 1..(Len(a) + Len(b))
      BY <2>12, <2>13
    <3>2. CASE i <= k - 1
      <4>1. i \in 1..(k - 1) /\ i <= Len(a)
        BY <2>7, <2>10, <3>2
      <4> QED
        BY <2>8, <2>10, <2>12, <3>1, <4>1
    <3>3. CASE ~ i <= k - 1
      <4>1. ~ i <= Len(a) /\ i - Len(a) \in 1..(Len(s) - k) /\ k + (i - Len(a)) - 1 = i
        BY <1>1, <2>1, <2>7, <2>10, <3>3
      <4>2. (a \o b)[i] = b[i - Len(a)]
        BY <2>12, <3>1, <4>1
      <4>3. b[i - Len(a)] = t[k + (i - Len(a)) - 1]
        BY <2>11, <4>1
      <4> QED
        BY <4>1, <4>2, <4>3
    <3> QED
      BY <3>2, <3>3
  <2>15. a \o b = t
    <3> DEFINE c == a \o b
    <3>1. c \in Seq(Notes) /\ Len(c) = Len(t) /\ \A i \in 1..Len(c) : c[i] = t[i]
      BY <2>12, <2>13, <2>14
    <3> HIDE DEF c
    <3>2. c = t
      BY <3>1, SeqEqual
    <3> QED
      BY <3>2 DEF c
  <2> QED
    BY <1>3, <2>4, <2>6, <2>15
<1> QED
  BY <1>4, <1>5 DEF TagOnce

\* A row that has no tag gets its only one at the end.
LEMMA TagAppended ==
    ASSUME NEW s \in Seq(Notes \cup {TAG}), NEW t \in Seq(Notes), TagOnce(s, t),
           TAG \notin Range(s)
    PROVE  Append(s, TAG) \in Seq(Notes \cup {TAG}) /\ TagOnce(Append(s, TAG), t)
<1>1. Len(s) \in Nat /\ DOMAIN s = 1..Len(s)
  BY LenProperties
<1>2. s = t
  BY <1>1 DEF TagOnce, Range
<1> DEFINE r == Append(s, TAG)
<1>3. /\ r \in Seq(Notes \cup {TAG}) /\ Len(r) = Len(s) + 1
      /\ \A i \in 1..Len(s) : r[i] = s[i]
      /\ r[Len(s) + 1] = TAG
  BY AppendProperties
<1> HIDE DEF r
<1>4. /\ Len(s) + 1 \in 1..Len(r)
      /\ \A i \in 1..(Len(s) + 1 - 1) : r[i] = s[i]
      /\ \A i \in (Len(s) + 1)..Len(s) : r[i + 1] = s[i]
  BY <1>1, <1>3
<1>5. TagOnce(r, t)
  BY <1>2, <1>3, <1>4 DEF TagOnce
<1> QED
  BY <1>3, <1>5 DEF r

\* What the owner writes goes after the notes of the row as of the log.
LEMMA NotesAppended ==
    ASSUME NEW s \in Seq(Notes \cup {TAG}), NEW t \in Seq(Notes), TagOnce(s, t),
           NEW r \in Seq(Notes)
    PROVE  /\ s \o r \in Seq(Notes \cup {TAG}) /\ t \o r \in Seq(Notes)
           /\ TagOnce(s \o r, t \o r)
<1> DEFINE S == s \o r
           T == t \o r
<1>1. r \in Seq(Notes \cup {TAG}) /\ Len(s) \in Nat /\ Len(t) \in Nat /\ Len(r) \in Nat
  BY SeqMonotonic, LenProperties
<1>2. /\ S \in Seq(Notes \cup {TAG}) /\ Len(S) = Len(s) + Len(r)
      /\ \A i \in 1..(Len(s) + Len(r)) : S[i] = IF i <= Len(s) THEN s[i] ELSE r[i - Len(s)]
  BY <1>1, ConcatProperties
<1>3. /\ T \in Seq(Notes) /\ Len(T) = Len(t) + Len(r)
      /\ \A i \in 1..(Len(t) + Len(r)) : T[i] = IF i <= Len(t) THEN t[i] ELSE r[i - Len(t)]
  BY <1>1, ConcatProperties
<1>4. TagOnce(S, T)
  <2>1. CASE s = t
    BY <2>1 DEF TagOnce
  <2>2. CASE s # t
    <3>1. PICK k \in 1..Len(s) :
             /\ Len(s) = Len(t) + 1 /\ s[k] = TAG
             /\ \A i \in 1..(k - 1) : s[i] = t[i]
             /\ \A i \in k..Len(t) : s[i + 1] = t[i]
      BY <2>2 DEF TagOnce
    <3> HIDE DEF S, T
    <3>2. k \in 1..Len(S) /\ Len(S) = Len(T) + 1 /\ k <= Len(s) /\ k \in 1..(Len(s) + Len(r))
      BY <1>1, <1>2, <1>3, <3>1
    <3>3. S[k] = TAG
      BY <1>2, <3>1, <3>2
    <3>4. ASSUME NEW i \in 1..(k - 1) PROVE S[i] = T[i]
      <4>1. /\ i \in 1..(Len(s) + Len(r)) /\ i <= Len(s)
            /\ i \in 1..(Len(t) + Len(r)) /\ i <= Len(t)
        BY <1>1, <3>1
      <4> QED
        BY <1>2, <1>3, <3>1, <4>1
    <3>5. ASSUME NEW i \in k..Len(T) PROVE S[i + 1] = T[i]
      <4>1. i + 1 \in 1..(Len(s) + Len(r)) /\ i \in 1..(Len(t) + Len(r))
        BY <1>1, <1>2, <1>3, <3>1
      <4>2. CASE i <= Len(t)
        <5>1. i + 1 <= Len(s) /\ i \in k..Len(t)
          BY <1>1, <3>1, <4>2
        <5> QED
          BY <1>2, <1>3, <3>1, <4>1, <4>2, <5>1
      <4>3. CASE ~ i <= Len(t)
        <5>1. ~ i + 1 <= Len(s) /\ i + 1 - Len(s) = i - Len(t)
          BY <1>1, <3>1, <4>3
        <5>2. S[i + 1] = r[i + 1 - Len(s)] /\ T[i] = r[i - Len(t)]
          BY <1>2, <1>3, <4>1, <4>3, <5>1
        <5> QED
          BY <5>1, <5>2
      <4> QED
        BY <4>2, <4>3
    <3> QED
      BY <3>2, <3>3, <3>4, <3>5 DEF TagOnce
  <2> QED
    BY <2>1, <2>2
<1> QED
  BY <1>2, <1>3, <1>4

-----------------------------------------------------------------------------
(* The inductive invariant. *)

CrawlsSound ==
    /\ seen \in SUBSET Hits
    /\ phase \in [Crawls -> {"idle", "stored", "asking"}]
    /\ pending \in [Crawls -> SUBSET DOMAIN mentions]
    /\ \A c \in Crawls : Cardinality(pending[c]) <= limit

MentionsInv == Sound(mentions, logged, seen) /\ CrawlsSound

\* Tags, status and notes: pages and terms stay, and what the owner gave is in
\* the row and in the log alike.
OnlyNotes(table, log, R, L) ==
    /\ R \in Seq(TableRow) /\ Len(R) = Len(table)
    /\ L \in Seq(LogEntry) /\ Len(L) = Len(table)
    /\ \A i \in 1..Len(table) :
          /\ R[i].url = table[i].url /\ R[i].matched_terms = table[i].matched_terms
          /\ L[i].matched_terms = log[i].matched_terms
          /\ L[i].status = R[i].status
          /\ TagOnce(R[i].notes, L[i].notes)

LEMMA OnlyNotesSound ==
    ASSUME NEW table, NEW log, NEW S, Sound(table, log, S),
           NEW R, NEW L, OnlyNotes(table, log, R, L)
    PROVE  Sound(R, L, S)
<1> DEFINE n == Len(table)
<1>1. /\ table \in Seq(TableRow) /\ \A h \in S : \E i \in 1..n : table[i].url = normalize_url(h.url)
      /\ \A i \in 1..n : RowSound(table, log, S, i)
  BY DEF Sound
<1>2. DOMAIN table = 1..n /\ DOMAIN R = 1..n /\ Len(R) = n /\ Len(L) = n
  BY <1>1, LenProperties DEF OnlyNotes
<1> HIDE DEF n
<1>3. \A i \in 1..n : /\ R[i].url = table[i].url /\ R[i].matched_terms = table[i].matched_terms
                      /\ L[i].matched_terms = log[i].matched_terms
                      /\ L[i].status = R[i].status
                      /\ TagOnce(R[i].notes, L[i].notes)
  BY DEF OnlyNotes, n
<1>4. ASSUME NEW i \in 1..n PROVE RowSound(R, L, S, i)
  <2>1. RowSound(table, log, S, i)
    BY <1>1
  <2>2. \A j \in DOMAIN R : R[j].url = R[i].url => j = i
    BY <1>2, <1>3, <2>1 DEF RowSound
  <2> QED
    BY <1>3, <2>1, <2>2 DEF RowSound
<1>5. \A h \in S : \E i \in 1..n : R[i].url = normalize_url(h.url)
  BY <1>1, <1>3
<1> QED
  BY <1>2, <1>4, <1>5 DEF Sound, OnlyNotes

LEMMA InitSound == MentionsInit => MentionsInv
<1> SUFFICES ASSUME MentionsInit PROVE MentionsInv
  OBVIOUS
<1>1. Sound(mentions, logged, seen)
  <2>1. mentions = << >> /\ logged = << >> /\ seen = {}
    BY DEF MentionsInit
  <2>2. Len(mentions) = 0 /\ Len(logged) = 0 /\ mentions \in Seq(TableRow) /\ logged \in Seq(LogEntry)
    BY <2>1
  <2> QED
    BY <2>1, <2>2 DEF Sound
<1>2. CrawlsSound
  <2>1. Cardinality({}) = 0
    BY FS_EmptySet
  <2> QED
    BY <2>1, LimitAssumption DEF MentionsInit, CrawlsSound
<1> QED
  BY <1>1, <1>2 DEF MentionsInv

LEMMA NextSound ==
    ASSUME Sound(mentions', logged', seen'), CrawlsSound'
    PROVE  MentionsInv'
  BY DEF MentionsInv, Sound, RowSound, TableRow, LogEntry, FoundAs, TagOnce, Terms

\* The hits of a run.
LEMMA StoreKeepsSound ==
    ASSUME MentionsInv, NEW c \in Crawls, _dedupe_and_store(c)
    PROVE  MentionsInv'
<1>1. PICK pairs \in UNION {[1..n -> Hits] : n \in 0..MaxBatch} :
         /\ mentions' = StoreHits([rows |-> mentions, log |-> logged], pairs).rows
         /\ logged' = StoreHits([rows |-> mentions, log |-> logged], pairs).log
         /\ seen' = seen \cup Range(pairs)
  BY DEF _dedupe_and_store
<1>2. PICK N \in Nat : pairs \in [1..N -> Hits]
  BY BatchAssumption
<1>3. PICK db : db = [rows |-> mentions, log |-> logged]
  OBVIOUS
<1>4. db.rows = mentions /\ db.log = logged /\ Sound(db.rows, db.log, seen) /\ seen \in SUBSET Hits
  BY <1>3 DEF MentionsInv, CrawlsSound
<1>5. /\ Sound(StoreHits(db, pairs).rows, StoreHits(db, pairs).log, seen \cup Range(pairs))
      /\ Len(db.rows) <= Len(StoreHits(db, pairs).rows)
  BY <1>2, <1>4, StoreHitsSound
<1>6. Sound(mentions', logged', seen') /\ Len(mentions) <= Len(mentions')
  BY <1>1, <1>3, <1>4, <1>5
<1>7. DOMAIN mentions \subseteq DOMAIN mentions'
  <2>1. mentions \in Seq(TableRow) /\ mentions' \in Seq(TableRow)
    BY <1>6 DEF MentionsInv, Sound
  <2>2. /\ DOMAIN mentions = 1..Len(mentions) /\ DOMAIN mentions' = 1..Len(mentions')
        /\ Len(mentions) \in Nat /\ Len(mentions') \in Nat
    BY <2>1, LenProperties
  <2> QED
    BY <1>6, <2>2
<1>8. CrawlsSound'
  <2>1. seen' \in SUBSET Hits
    <3>1. Range(pairs) \subseteq Hits
      BY <1>2 DEF Range
    <3> QED
      BY <1>1, <1>4, <3>1
  <2>2. phase' \in [Crawls -> {"idle", "stored", "asking"}]
    BY DEF MentionsInv, CrawlsSound, _dedupe_and_store
  <2>3. /\ pending' \in [Crawls -> SUBSET (DOMAIN mentions)']
        /\ \A d \in Crawls : Cardinality(pending'[d]) <= limit
    BY <1>7 DEF MentionsInv, CrawlsSound, _dedupe_and_store
  <2> QED
    BY <2>1, <2>2, <2>3 DEF CrawlsSound
<1> QED
  BY <1>6, <1>8, NextSound

\* However many mentions are new, the list read has no more than the limit: they
\* are the oldest of the list and the new ones after it.
LEMMA ListLimited ==
    ASSUME mentions \in Seq(TableRow)
    PROVE  LET P == {i \in DOMAIN mentions : IsNew(i) /\ AmongNewest(i) /\ ~ Tagged(i)}
           IN  Cardinality(P) <= limit
<1> DEFINE n == Len(mentions)
           P == {i \in DOMAIN mentions : IsNew(i) /\ AmongNewest(i) /\ ~ Tagged(i)}
<1>1. n \in Nat /\ DOMAIN mentions = 1..n
  BY LenProperties
<1>2. limit \in Nat
  BY LimitAssumption
<1>3. CASE P = {}
  <2>1. Cardinality(P) = 0
    BY <1>3, FS_EmptySet
  <2> QED
    BY <1>2, <2>1
<1>4. CASE P # {}
  <2>1. P \subseteq 0..n
    BY <1>1
  <2>2. PICK x \in P : \A y \in P : x <= y
    <3> HIDE DEF P, n
    <3> QED
      BY <1>1, <1>4, <2>1, LeastUpTo
  <2> DEFINE Q == {j \in DOMAIN mentions : j > x /\ IsNew(j)}
  <2>3. Cardinality(Q) < limit
    BY <2>2 DEF AmongNewest
  <2>4. P \ {x} \subseteq Q
    <3> SUFFICES ASSUME NEW y \in P, y # x PROVE y > x
      OBVIOUS
    <3>1. y \in 1..n /\ x \in 1..n /\ x <= y
      BY <1>1, <2>2
    <3> QED
      BY <1>1, <3>1
  <2>5. IsFiniteSet(Q) /\ IsFiniteSet(P)
    <3>1. IsFiniteSet(1..n)
      BY FS_Interval
    <3>2. Q \subseteq 1..n /\ P \subseteq 1..n
      BY <1>1
    <3> HIDE DEF P, Q, n
    <3> QED
      BY <3>1, <3>2, FS_Subset
  <2> HIDE DEF P, Q
  <2>6. Cardinality(P \ {x}) <= Cardinality(Q) /\ Cardinality(Q) \in Nat
        /\ IsFiniteSet(P \ {x})
    BY <2>4, <2>5, FS_Subset, FS_CardinalityType
  <2>7. Cardinality(P \ {x}) = Cardinality(P) - 1 /\ Cardinality(P) \in Nat
    BY <2>2, <2>5, FS_RemoveElement, FS_CardinalityType
  <2> QED
    BY <1>2, <2>3, <2>6, <2>7 DEF P
<1> QED
  BY <1>3, <1>4

LEMMA ReadKeepsSound ==
    ASSUME MentionsInv, NEW c \in Crawls, ReadNew(c)
    PROVE  MentionsInv'
<1> DEFINE P == {i \in DOMAIN mentions : IsNew(i) /\ AmongNewest(i) /\ ~ Tagged(i)}
<1>1. mentions' = mentions /\ logged' = logged /\ seen' = seen
  BY DEF ReadNew
<1>2. Sound(mentions', logged', seen')
  BY <1>1 DEF MentionsInv
<1>3. Cardinality(P) <= limit
  BY ListLimited DEF MentionsInv, Sound
<1>4. pending' = [pending EXCEPT ![c] = P]
  BY DEF ReadNew
<1>5. P \in SUBSET DOMAIN mentions
  OBVIOUS
<1> HIDE DEF P
<1>6. /\ pending' \in [Crawls -> SUBSET DOMAIN mentions]
      /\ \A d \in Crawls : Cardinality(pending'[d]) <= limit
  BY <1>3, <1>4, <1>5 DEF MentionsInv, CrawlsSound
<1>7. phase' \in [Crawls -> {"idle", "stored", "asking"}]
  BY DEF MentionsInv, CrawlsSound, ReadNew
<1>8. CrawlsSound'
  BY <1>1, <1>6, <1>7 DEF MentionsInv, CrawlsSound
<1> QED
  BY <1>2, <1>8, NextSound

\* A crawl that has nothing in hand any more.
LEMMA NothingInHand ==
    ASSUME CrawlsSound, NEW c \in Crawls,
           pending' = [pending EXCEPT ![c] = {}], phase' = [phase EXCEPT ![c] = "idle"],
           seen' = seen, DOMAIN mentions' = DOMAIN mentions
    PROVE  CrawlsSound'
<1>1. Cardinality({}) = 0
  BY FS_EmptySet
<1>2. /\ pending' \in [Crawls -> SUBSET DOMAIN mentions]
      /\ \A d \in Crawls : Cardinality(pending'[d]) <= limit
  BY <1>1, LimitAssumption DEF CrawlsSound
<1>3. phase' \in [Crawls -> {"idle", "stored", "asking"}]
  BY DEF CrawlsSound
<1> QED
  BY <1>2, <1>3 DEF CrawlsSound

LEMMA WriteKeepsSound ==
    ASSUME MentionsInv, NEW c \in Crawls, WriteTags(c)
    PROVE  MentionsInv'
<1>1. PICK tags \in SUBSET pending[c] :
          mentions' = [i \in DOMAIN mentions |->
              IF i \in tags /\ StillUntagged(i)
              THEN [mentions[i] EXCEPT !.notes = Append(@, TAG)]
              ELSE mentions[i]]
  BY DEF WriteTags
<1>2. /\ logged' = logged /\ seen' = seen
      /\ pending' = [pending EXCEPT ![c] = {}] /\ phase' = [phase EXCEPT ![c] = "idle"]
  BY DEF WriteTags
<1>3. /\ mentions \in Seq(TableRow) /\ logged \in Seq(LogEntry) /\ Len(logged) = Len(mentions)
      /\ \A i \in 1..Len(mentions) : RowSound(mentions, logged, seen, i)
  BY DEF MentionsInv, Sound
<1>4. DOMAIN mentions = 1..Len(mentions) /\ Len(mentions) \in Nat
  BY <1>3, LenProperties
<1>5. ASSUME NEW i \in 1..Len(mentions)
      PROVE  /\ mentions'[i] \in TableRow
             /\ mentions'[i].url = mentions[i].url
             /\ mentions'[i].matched_terms = mentions[i].matched_terms
             /\ mentions'[i].status = mentions[i].status
             /\ TagOnce(mentions'[i].notes, logged[i].notes)
  <2>1. mentions[i] \in TableRow /\ logged[i] \in LogEntry
    BY <1>3, ElementOfSeq
  <2>2. TagOnce(mentions[i].notes, logged[i].notes)
    BY <1>3 DEF RowSound
  <2>3. CASE i \in tags /\ StillUntagged(i)
    <3>1. mentions'[i] = [mentions[i] EXCEPT !.notes = Append(mentions[i].notes, TAG)]
      BY <1>1, <1>4, <2>3
    <3>2. mentions[i].notes \in Seq(Notes \cup {TAG}) /\ logged[i].notes \in Seq(Notes)
      BY <2>1 DEF TableRow, LogEntry
    <3>3. TAG \notin Range(mentions[i].notes)
      BY <2>3 DEF StillUntagged, Tagged
    <3>4. PICK s : s = Append(mentions[i].notes, TAG)
      OBVIOUS
    <3>5. s \in Seq(Notes \cup {TAG}) /\ TagOnce(s, logged[i].notes)
      BY <2>2, <3>2, <3>3, <3>4, TagAppended
    <3> QED
      BY <2>1, <3>1, <3>4, <3>5 DEF TableRow
  <2>4. CASE ~ (i \in tags /\ StillUntagged(i))
    <3>1. mentions'[i] = mentions[i]
      BY <1>1, <1>4, <2>4
    <3> QED
      BY <2>1, <2>2, <3>1
  <2> QED
    BY <2>3, <2>4
<1>6. /\ mentions' \in Seq(TableRow) /\ Len(mentions') = Len(mentions)
      /\ DOMAIN mentions' = DOMAIN mentions
  <2>1. mentions' = [i \in 1..Len(mentions) |-> mentions'[i]]
    BY <1>1, <1>4
  <2>2. mentions' \in [1..Len(mentions) -> TableRow]
    BY <1>5, <2>1
  <2> QED
    BY <1>4, <2>2
<1>7. OnlyNotes(mentions, logged, mentions', logged)
  BY <1>3, <1>5, <1>6 DEF OnlyNotes, RowSound
<1>8. Sound(mentions', logged, seen)
  BY <1>7, OnlyNotesSound DEF MentionsInv
<1>9. Sound(mentions', logged', seen')
  BY <1>2, <1>8
<1>10. CrawlsSound'
  BY <1>2, <1>6, NothingInHand DEF MentionsInv
<1> QED
  BY <1>9, <1>10, NextSound

LEMMA StopKeepsSound ==
    ASSUME MentionsInv, NEW c \in Crawls, Stop(c)
    PROVE  MentionsInv'
<1>1. mentions' = mentions /\ logged' = logged /\ seen' = seen
  BY DEF Stop
<1>2. Sound(mentions', logged', seen')
  BY <1>1 DEF MentionsInv
<1>3. CrawlsSound'
  BY <1>1, NothingInHand DEF MentionsInv, Stop
<1> QED
  BY <1>2, <1>3, NextSound

LEMMA StatusKeepsSound ==
    ASSUME MentionsInv, NEW i \in DOMAIN mentions, NEW status \in Statuses,
           NEW note \in {<< >>} \cup {<< n >> : n \in Notes}, set_status(i, status, note)
    PROVE  MentionsInv'
<1>1. note \in Seq(Notes)
  <2>1. << >> \in Seq(Notes)
    OBVIOUS
  <2>2. \A n \in Notes : << n >> \in Seq(Notes)
    OBVIOUS
  <2> QED
    BY <2>1, <2>2
<1>2. /\ mentions \in Seq(TableRow) /\ logged \in Seq(LogEntry) /\ Len(logged) = Len(mentions)
      /\ \A j \in 1..Len(mentions) : RowSound(mentions, logged, seen, j)
  BY DEF MentionsInv, Sound
<1>3. /\ i \in 1..Len(mentions)
      /\ DOMAIN mentions = 1..Len(mentions) /\ DOMAIN logged = 1..Len(mentions)
  BY <1>2, LenProperties
<1>4. mentions[i] \in TableRow /\ logged[i] \in LogEntry
  BY <1>2, <1>3, ElementOfSeq
<1> DEFINE s == mentions[i].notes \o note
           t == logged[i].notes \o note
           r == [[mentions[i] EXCEPT !.status = status] EXCEPT !.notes = s]
           e == [[logged[i] EXCEPT !.status = status] EXCEPT !.notes = t]
<1>5. /\ mentions' = [mentions EXCEPT ![i] = r]
      /\ logged' = [logged EXCEPT ![i] = e]
  BY <1>2, <1>3, <1>4 DEF set_status, TableRow, LogEntry
<1>6. /\ s \in Seq(Notes \cup {TAG}) /\ t \in Seq(Notes) /\ TagOnce(s, t)
  <2>1. mentions[i].notes \in Seq(Notes \cup {TAG}) /\ logged[i].notes \in Seq(Notes)
    BY <1>4 DEF TableRow, LogEntry
  <2>2. TagOnce(mentions[i].notes, logged[i].notes)
    BY <1>2, <1>3 DEF RowSound
  <2> QED
    BY <1>1, <2>1, <2>2, NotesAppended
<1> HIDE DEF s, t
<1>7. /\ r \in TableRow /\ r.url = mentions[i].url /\ r.matched_terms = mentions[i].matched_terms
      /\ r.status = status /\ r.notes = s
  BY <1>4, <1>6 DEF TableRow
<1>8. /\ e \in LogEntry /\ e.matched_terms = logged[i].matched_terms
      /\ e.status = status /\ e.notes = t
  BY <1>4, <1>6 DEF LogEntry
<1> HIDE DEF r, e
<1>9. /\ mentions' \in Seq(TableRow) /\ Len(mentions') = Len(mentions)
      /\ \A j \in 1..Len(mentions) : mentions'[j] = IF j = i THEN r ELSE mentions[j]
  BY <1>2, <1>3, <1>5, <1>7, ExceptSeq
<1>10. /\ logged' \in Seq(LogEntry) /\ Len(logged') = Len(mentions)
       /\ \A j \in 1..Len(mentions) : logged'[j] = IF j = i THEN e ELSE logged[j]
  BY <1>2, <1>3, <1>5, <1>8, ExceptSeq
<1>11. OnlyNotes(mentions, logged, mentions', logged')
  <2>1. ASSUME NEW j \in 1..Len(mentions)
        PROVE  /\ mentions'[j].url = mentions[j].url
               /\ mentions'[j].matched_terms = mentions[j].matched_terms
               /\ logged'[j].matched_terms = logged[j].matched_terms
               /\ logged'[j].status = mentions'[j].status
               /\ TagOnce(mentions'[j].notes, logged'[j].notes)
    <3>1. CASE j = i
      BY <1>6, <1>7, <1>8, <1>9, <1>10, <3>1
    <3>2. CASE j # i
      <4>1. mentions'[j] = mentions[j] /\ logged'[j] = logged[j]
        BY <1>9, <1>10, <3>2
      <4> QED
        BY <1>2, <4>1 DEF RowSound
    <3> QED
      BY <3>1, <3>2
  <2> QED
    BY <1>9, <1>10, <2>1 DEF OnlyNotes
<1>12. seen' = seen /\ phase' = phase /\ pending' = pending
  BY DEF set_status
<1>13. Sound(mentions', logged', seen')
  BY <1>11, <1>12, OnlyNotesSound DEF MentionsInv
<1>14. CrawlsSound'
  <2>1. DOMAIN mentions' = DOMAIN mentions
    BY <1>5
  <2> QED
    BY <1>12, <2>1 DEF MentionsInv, CrawlsSound
<1> QED
  BY <1>13, <1>14, NextSound

LEMMA StepKeepsSound == MentionsInv /\ [MentionsNext]_mentionsVars => MentionsInv'
<1> SUFFICES ASSUME MentionsInv, [MentionsNext]_mentionsVars PROVE MentionsInv'
  OBVIOUS
<1>1. CASE UNCHANGED mentionsVars
  <2>1. /\ mentions' = mentions /\ logged' = logged /\ seen' = seen
        /\ phase' = phase /\ pending' = pending
    BY <1>1 DEF mentionsVars
  <2>2. Sound(mentions', logged', seen')
    BY <2>1 DEF MentionsInv
  <2>3. CrawlsSound'
    BY <2>1 DEF MentionsInv, CrawlsSound
  <2> QED
    BY <2>2, <2>3, NextSound
<1>2. ASSUME NEW c \in Crawls, Crawl(c) PROVE MentionsInv'
  BY <1>2, StoreKeepsSound, ReadKeepsSound, WriteKeepsSound, StopKeepsSound DEF Crawl
<1>3. ASSUME NEW i \in DOMAIN mentions, NEW status \in Statuses,
             NEW note \in {<< >>} \cup {<< n >> : n \in Notes}, set_status(i, status, note)
      PROVE  MentionsInv'
  BY <1>3, StatusKeepsSound
<1> QED
  BY <1>1, <1>2, <1>3 DEF MentionsNext

-----------------------------------------------------------------------------
(* The theorems about the rows. *)

\* Whatever crawls, classifiers and the owner do to the table, in any order:
\* table, log and the hits of the crawls stay Sound.
THEOREM MentionsInvariant == MentionsSpec => []MentionsInv
<1>1. MentionsInit => MentionsInv
  BY InitSound
<1>2. MentionsInv /\ [MentionsNext]_mentionsVars => MentionsInv'
  BY StepKeepsSound
<1> QED
  BY <1>1, <1>2, PTL DEF MentionsSpec

\* Rows and entries are well formed, and classify_new_mentions never has more
\* mentions in hand than its limit.
THEOREM MentionsTyped == MentionsSpec => []MentionsTypeOK
<1>1. MentionsInv => MentionsTypeOK
  BY DEF MentionsInv, Sound, CrawlsSound, TableRow, LogEntry, MentionsTypeOK
<1> QED
  BY <1>1, MentionsInvariant, PTL

\* There are as many rows as pages found.
LEMMA RowsCounted ==
    ASSUME MentionsInv
    PROVE  Len(mentions) = Cardinality({normalize_url(h.url) : h \in seen})
<1> DEFINE n == Len(mentions)
           U == {normalize_url(h.url) : h \in seen}
           f == [i \in 1..n |-> mentions[i].url]
<1>1. /\ mentions \in Seq(TableRow)
      /\ \A h \in seen : \E i \in 1..n : mentions[i].url = normalize_url(h.url)
      /\ \A i \in 1..n : RowSound(mentions, logged, seen, i)
  BY DEF MentionsInv, Sound
<1>2. n \in Nat /\ DOMAIN mentions = 1..n
  BY <1>1, LenProperties
<1>3. IsFiniteSet(1..n) /\ Cardinality(1..n) = n
  <2>1. 1 \in Int /\ n \in Int
    BY <1>2
  <2>2. IsFiniteSet(1..n) /\ Cardinality(1..n) = IF 1 > n THEN 0 ELSE n - 1 + 1
    BY <2>1, FS_Interval
  <2> QED
    BY <1>2, <2>2
<1> HIDE DEF n
<1>4. \A i \in 1..n : mentions[i].url \in U
  BY <1>1 DEF RowSound, FoundAs
<1>5. \A u \in U : \E i \in 1..n : mentions[i].url = u
  BY <1>1
<1>6. \A i, j \in 1..n : mentions[i].url = mentions[j].url => i = j
  BY <1>1, <1>2 DEF RowSound
<1> HIDE DEF U
<1>7. f \in Bijection(1..n, U)
  <2>1. f \in [1..n -> U]
    BY <1>4
  <2>2. f \in Injection(1..n, U)
    BY <1>6, <2>1 DEF Injection, IsInjective
  <2>3. f \in Surjection(1..n, U)
    BY <1>5, <2>1 DEF Surjection
  <2> QED
    BY <2>2, <2>3 DEF Bijection
<1>8. ExistsBijection(1..n, U)
  BY <1>7 DEF ExistsBijection
<1>9. Cardinality(U) = Cardinality(1..n)
  BY <1>3, <1>8, FS_Bijection
<1> QED
  BY <1>3, <1>9 DEF n, U

\* A page that was found has exactly one row, however its URL was spelled and
\* whichever crawl found it first; two pages never share one.
THEOREM OneRowForAPage == MentionsSpec => []OneRowPerPage
<1>1. MentionsInv => OneRowPerPage
  <2> SUFFICES ASSUME MentionsInv PROVE OneRowPerPage
    OBVIOUS
  <2>1. SpellingsAgree
    <3>1. \A u, v \in Urls : SamePage(u, v) <=> normalize_url(u) = normalize_url(v)
      BY SpellingsOfOnePage
    <3>2. Spellings \subseteq Urls
      BY SpellingsAssumption
    <3> QED
      BY <3>1, <3>2 DEF SpellingsAgree
  <2>2. ASSUME NEW h \in seen PROVE Cardinality(RowsOf(h)) = 1
    <3>1. /\ mentions \in Seq(TableRow)
          /\ \A g \in seen : \E i \in 1..Len(mentions) : mentions[i].url = normalize_url(g.url)
          /\ \A i \in 1..Len(mentions) : RowSound(mentions, logged, seen, i)
      BY DEF MentionsInv, Sound
    <3>2. DOMAIN mentions = 1..Len(mentions)
      BY <3>1, LenProperties
    <3>3. PICK i \in 1..Len(mentions) : mentions[i].url = normalize_url(h.url)
      BY <3>1
    <3>4. RowsOf(h) = {i}
      BY <3>1, <3>2, <3>3 DEF RowsOf, Known, RowSound
    <3> QED
      BY <3>4, FS_Singleton
  <2> QED
    BY <2>1, <2>2, RowsCounted DEF OneRowPerPage
<1> QED
  BY <1>1, MentionsInvariant, PTL

\* A row has all the terms of all hits for its page, and the log says the same.
THEOREM TermsAreKept == MentionsSpec => []TermsKept
<1>1. MentionsInv => TermsKept
  <2> SUFFICES ASSUME MentionsInv, NEW i \in DOMAIN mentions
               PROVE  /\ mentions[i].matched_terms =
                            UNION {h.matched_terms : h \in {g \in seen : i \in RowsOf(g)}}
                      /\ logged[i].matched_terms = mentions[i].matched_terms
    BY DEF TermsKept
  <2>1. mentions \in Seq(TableRow) /\ \A j \in 1..Len(mentions) : RowSound(mentions, logged, seen, j)
    BY DEF MentionsInv, Sound
  <2>2. i \in 1..Len(mentions)
    BY <2>1, LenProperties
  <2>3. {g \in seen : i \in RowsOf(g)} = FoundAs(mentions[i].url, seen)
    BY DEF RowsOf, Known, FoundAs
  <2> QED
    BY <2>1, <2>2, <2>3 DEF RowSound
<1> QED
  BY <1>1, MentionsInvariant, PTL

\* A tag written minutes after its row was read undoes no status and no note of
\* the owner, and there is one tag at most.
THEOREM NotesAreKept == MentionsSpec => []NotesKept
<1>1. MentionsInv => NotesKept
  <2> SUFFICES ASSUME MentionsInv, NEW i \in DOMAIN mentions
               PROVE  /\ mentions[i].status = logged[i].status
                      /\ RemoveFirst(mentions[i].notes, TAG) = logged[i].notes
                      /\ Count(mentions[i].notes, TAG) <= 1
    BY DEF NotesKept
  <2>1. /\ mentions \in Seq(TableRow) /\ logged \in Seq(LogEntry) /\ Len(logged) = Len(mentions)
        /\ \A j \in 1..Len(mentions) : RowSound(mentions, logged, seen, j)
    BY DEF MentionsInv, Sound
  <2>2. i \in 1..Len(mentions)
    BY <2>1, LenProperties
  <2>3. mentions[i] \in TableRow /\ logged[i] \in LogEntry
    BY <2>1, <2>2, ElementOfSeq
  <2>4. mentions[i].notes \in Seq(Notes \cup {TAG}) /\ logged[i].notes \in Seq(Notes)
    BY <2>3 DEF TableRow, LogEntry
  <2>5. TagOnce(mentions[i].notes, logged[i].notes) /\ logged[i].status = mentions[i].status
    BY <2>1, <2>2 DEF RowSound
  <2> QED
    BY <2>4, <2>5, TagRemoved
<1> QED
  BY <1>1, MentionsInvariant, PTL
=============================================================================
