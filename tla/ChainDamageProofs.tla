-------------------------- MODULE ChainDamageProofs --------------------------
(***************************************************************************)
(* What the verifications can tell of a damaged log, for every set of      *)
(* contents, every length, and any number of timestamps and of damages.    *)
(*                                                                         *)
(* First the judgements alone, on any table that can come about: the rows  *)
(* are in the order of their seqs, and a row's seq is the number of the    *)
(* contents its hash commits to.  No damage undoes that, and it is why a   *)
(* walk that takes the first row's own seq for granted still starts at 1.  *)
(* Then the protocol of checkpoints and timestamps over such tables.       *)
(***************************************************************************)
EXTENDS ChainDamage, FiniteSetTheorems, SequenceTheorems, TLAPS

Table(log) ==
    /\ log \in Seq(EvidenceEntry)
    /\ \A i, j \in DOMAIN log : i < j => log[i].seq < log[j].seq
    /\ \A i \in DOMAIN log : /\ log[i].seq = Len(log[i].prev_hash) + 1
                             /\ log[i].seq = Len(log[i].entry_hash)

-----------------------------------------------------------------------------
(* Tables and their rows. *)

\* A set of rows that is not empty has a first one.
LEMMA FirstOf ==
    ASSUME NEW n \in Nat, NEW S \in SUBSET (1..n), S # {}
    PROVE  FirstBreak(S) \in S /\ \A x \in S : FirstBreak(S) <= x
<1> DEFINE Below(x) == {y \in 1..n : y < x}
           B == {Below(x) : x \in S}
           R == StrictSubsetOrdering(1..n)
<1>1. IsFiniteSet(1..n)
  BY FS_Interval
<1>2. IsWellFoundedOn(R, FiniteSubsetsOf(1..n)) /\ FiniteSubsetsOf(1..n) = SUBSET (1..n)
  BY <1>1, FS_StrictSubsetOrderingWellFounded, FS_FiniteSubsetsOfFinite
<1>3. B \subseteq SUBSET (1..n) /\ B # {}
  OBVIOUS
<1>4. PICK b \in B : \A a \in B : ~ << a, b >> \in R
  <2> HIDE DEF B, R
  <2> QED
    BY <1>2, <1>3, WFMin
<1>5. PICK x \in S : b = Below(x)
  OBVIOUS
<1>6. ASSUME NEW y \in S PROVE x <= y
  <2> SUFFICES ASSUME y < x PROVE FALSE
    OBVIOUS
  <2>1. Below(y) \subseteq Below(x) /\ Below(y) # Below(x)
    <3>1. y \in Below(x) /\ y \notin Below(y)
      OBVIOUS
    <3> QED
      BY <3>1
  <2>2. << Below(y), Below(x) >> \in R
    BY <2>1 DEF StrictSubsetOrdering
  <2> QED
    BY <1>4, <1>5, <2>2
<1> QED
  BY <1>6 DEF FirstBreak, Min

\* The rows of a log and their columns have their types.
LEMMA Rows ==
    ASSUME NEW log \in Seq(EvidenceEntry)
    PROVE  /\ Len(log) \in Nat
           /\ DOMAIN log = 1..Len(log)
           /\ log = << >> <=> Len(log) = 0
           /\ \A i \in 1..Len(log) : /\ log[i] \in EvidenceEntry
                                     /\ log[i].seq \in Nat \ {0}
                                     /\ log[i].prev_hash \in Seq(Payload)
                                     /\ log[i].payload \in Payload
                                     /\ log[i].entry_hash \in Seq(Payload)
<1>1. Len(log) \in Nat /\ DOMAIN log = 1..Len(log)
  BY LenProperties
<1>2. log = << >> <=> Len(log) = 0
  BY <1>1, EmptySeq
<1>3. \A i \in 1..Len(log) : log[i] \in EvidenceEntry
  BY ElementOfSeq
<1> QED
  BY <1>1, <1>2, <1>3 DEF EvidenceEntry, Hash

\* The contents up to a row are a hash of as many contents.
LEMMA Contents ==
    ASSUME NEW log \in Seq(EvidenceEntry), NEW n \in 0..Len(log)
    PROVE  /\ ContentsTo(log, n) \in Seq(Payload)
           /\ Len(ContentsTo(log, n)) = n
           /\ \A i \in 1..n : ContentsTo(log, n)[i] = log[i].payload
           /\ n > 0 => ContentsTo(log, n) = Append(ContentsTo(log, n - 1), log[n].payload)
<1>1. \A k \in 0..Len(log) : \A i \in 1..k : log[i].payload \in Payload
  BY Rows
<1>2. \A k \in 0..Len(log) : ContentsTo(log, k) \in [1..k -> Payload]
  BY <1>1 DEF ContentsTo
<1>3. n \in Nat
  BY Rows
<1>4. ASSUME NEW k \in 0..Len(log)
      PROVE  ContentsTo(log, k) \in Seq(Payload) /\ Len(ContentsTo(log, k)) = k
  <2>1. k \in Nat /\ DOMAIN ContentsTo(log, k) = 1..k
    BY Rows, <1>2
  <2>2. ContentsTo(log, k) \in Seq(Payload)
    BY <2>1, <1>2, SeqDef
  <2> QED
    BY <2>1, <2>2, LenProperties
<1>5. ASSUME n > 0
      PROVE  ContentsTo(log, n) = Append(ContentsTo(log, n - 1), log[n].payload)
  <2>1. n - 1 \in 0..Len(log) /\ n \in 1..Len(log)
    BY <1>3, <1>5, Rows
  <2>2. /\ ContentsTo(log, n - 1) \in Seq(Payload)
        /\ Len(ContentsTo(log, n - 1)) = n - 1
        /\ log[n].payload \in Payload
    BY <1>4, <2>1, Rows
  <2> DEFINE a == Append(ContentsTo(log, n - 1), log[n].payload)
  <2>3. /\ a \in Seq(Payload) /\ Len(a) = n
        /\ \A i \in 1..(n - 1) : a[i] = ContentsTo(log, n - 1)[i]
        /\ a[n] = log[n].payload
    BY <2>2, <1>3, AppendProperties
  <2>4. \A i \in 1..n : a[i] = ContentsTo(log, n)[i]
    BY <1>3, <2>3 DEF ContentsTo
  <2> QED
    BY <1>4, <2>3, <2>4, SeqEqual
<1> QED
  BY <1>3, <1>4, <1>5 DEF ContentsTo

-----------------------------------------------------------------------------
(* The full walk. *)

\* In a chain a row's hash is recomputed from its own columns.
LEMMA LinearRecomputes ==
    ASSUME NEW log \in Seq(EvidenceEntry), Linear(log), NEW i \in 1..Len(log)
    PROVE  log[i].entry_hash = compute_entry_hash(log[i].prev_hash, log[i].payload)
<1>1. Len(log) \in Nat /\ DOMAIN log = 1..Len(log)
  BY Rows
<1>2. log[i].prev_hash = ContentsTo(log, i - 1)
  <2>1. CASE i = 1
    <3>1. ContentsTo(log, 0) = << >>
      BY DEF ContentsTo
    <3> QED
      BY <1>1, <2>1, <3>1 DEF Linear, GENESIS
  <2>2. CASE i # 1
    BY <1>1, <2>2 DEF Linear
  <2> QED
    BY <2>1, <2>2
<1>3. ContentsTo(log, i) = Append(ContentsTo(log, i - 1), log[i].payload)
  BY <1>1, Contents
<1> QED
  BY <1>1, <1>2, <1>3 DEF Linear, compute_entry_hash

\* The full walk looks at every row, and expects of each what it reads off the
\* row before it.
LEMMA FullWalk ==
    ASSUME NEW log \in Seq(EvidenceEntry), NEW i \in 1..Len(log)
    PROVE  /\ Walked(log, 0) = 1..Len(log)
           /\ Fails(log, 0, GENESIS, FirstSeq(log), i) <=>
                 \/ i # 1 /\ log[i].seq # log[i - 1].seq + 1
                 \/ log[i].prev_hash # IF i = 1 THEN GENESIS ELSE log[i - 1].entry_hash
                 \/ log[i].entry_hash # compute_entry_hash(log[i].prev_hash, log[i].payload)
<1>1. Len(log) \in Nat /\ DOMAIN log = 1..Len(log) /\ log # << >>
  BY Rows
<1>2. Walked(log, 0) = 1..Len(log)
  BY <1>1, Rows DEF Walked
<1>3. i - 1 \notin Walked(log, 0) <=> i = 1
  BY <1>1, <1>2
<1>4. i = 1 => FirstSeq(log) = log[i].seq
  BY <1>1 DEF FirstSeq
<1> QED
  BY <1>2, <1>3, <1>4 DEF Fails

\* A table in which no row fails is one chain from GENESIS, and the other way round.
LEMMA LinkedIsLinear ==
    ASSUME NEW log, Table(log)
    PROVE  Linear(log) <=>
              \A i \in 1..Len(log) : ~ Fails(log, 0, GENESIS, FirstSeq(log), i)
<1> DEFINE n == Len(log)
           Good(i) == log[i].seq = i /\ log[i].entry_hash = ContentsTo(log, i)
           Bad == {i \in 1..n : ~ Good(i)}
<1>1. log \in Seq(EvidenceEntry) /\ n \in Nat /\ DOMAIN log = 1..n
  BY Rows DEF Table
<1>2. ASSUME Linear(log), NEW i \in 1..n
      PROVE  ~ Fails(log, 0, GENESIS, FirstSeq(log), i)
  <2>1. log[i].entry_hash = compute_entry_hash(log[i].prev_hash, log[i].payload)
    BY <1>1, <1>2, LinearRecomputes
  <2>2. /\ log[i].prev_hash = IF i = 1 THEN GENESIS ELSE log[i - 1].entry_hash
        /\ i # 1 => log[i].seq = log[i - 1].seq + 1
    BY <1>1, <1>2 DEF Linear
  <2> QED
    BY <1>1, <2>1, <2>2, FullWalk
<1>3. ASSUME \A i \in 1..n : ~ Fails(log, 0, GENESIS, FirstSeq(log), i)
      PROVE  Linear(log)
  <2>1. \A i \in 1..n :
            /\ i # 1 => log[i].seq = log[i - 1].seq + 1
            /\ log[i].prev_hash = IF i = 1 THEN GENESIS ELSE log[i - 1].entry_hash
            /\ log[i].entry_hash = Append(log[i].prev_hash, log[i].payload)
    BY <1>1, <1>3, FullWalk DEF compute_entry_hash
  <2>2. Bad = {}
    <3> SUFFICES ASSUME Bad # {} PROVE FALSE
      OBVIOUS
    <3> DEFINE m == FirstBreak(Bad)
    <3>1. m \in Bad /\ \A x \in Bad : m <= x
      BY <1>1, FirstOf
    <3> HIDE DEF m
    <3>2. m \in 1..n /\ ContentsTo(log, m) = Append(ContentsTo(log, m - 1), log[m].payload)
      <4>1. m \in 1..n
        BY <3>1
      <4>2. m \in 0..Len(log) /\ m > 0
        BY <1>1, <4>1
      <4> QED
        BY <1>1, <4>1, <4>2, Contents
    <3>3. CASE m = 1
      <4>1. log[m].prev_hash = << >>
        BY <2>1, <3>2, <3>3 DEF GENESIS
      <4>2. log[m].seq = 1
        BY <1>1, <3>2, <4>1, EmptySeq DEF Table
      <4>3. ContentsTo(log, 0) = << >>
        BY DEF ContentsTo
      <4> QED
        BY <2>1, <3>1, <3>2, <3>3, <4>1, <4>2, <4>3
    <3>4. CASE m # 1
      <4>1. m - 1 \in 1..n /\ Good(m - 1)
        BY <1>1, <3>1, <3>2, <3>4
      <4>2. Good(m)
        BY <1>1, <2>1, <3>2, <3>4, <4>1
      <4> QED
        BY <3>1, <4>2
    <3> QED
      BY <3>3, <3>4
  <2>3. \A i \in 1..n : Good(i)
    BY <2>2
  <2> HIDE DEF Good
  <2>4. \A i \in 1..n : log[i].seq = i /\ log[i].entry_hash = ContentsTo(log, i)
    BY <2>3 DEF Good
  <2> QED
    BY <1>1, <2>1, <2>4 DEF Linear
<1> QED
  BY <1>2, <1>3

\* The rows up to the k-th, and how the full walk judges them.
LEMMA PrefixTable ==
    ASSUME NEW log, Table(log), NEW k \in 0..Len(log)
    PROVE  /\ Table(SubSeq(log, 1, k))
           /\ Len(SubSeq(log, 1, k)) = k
           /\ \A i \in 1..k : SubSeq(log, 1, k)[i] = log[i]
<1> DEFINE pre == SubSeq(log, 1, k)
<1>1. /\ log \in Seq(EvidenceEntry) /\ Len(log) \in Nat /\ k \in Nat
      /\ DOMAIN log = 1..Len(log)
  BY Rows DEF Table
<1>2. \A i \in 1..k : i \in DOMAIN log /\ log[i] \in EvidenceEntry
  BY <1>1, Rows
<1>3. pre \in Seq(EvidenceEntry) /\ Len(pre) = k /\ \A i \in 1..k : pre[i] = log[i]
  <2>1. /\ pre \in Seq(EvidenceEntry)
        /\ Len(pre) = IF 1 <= k THEN k - 1 + 1 ELSE 0
        /\ \A i \in 1..(k - 1 + 1) : pre[i] = log[1 + i - 1]
    BY <1>1, <1>2, SubSeqProperties
  <2> QED
    BY <1>1, <2>1
<1> HIDE DEF pre
<1>4. DOMAIN pre = 1..k
  BY <1>3, Rows
<1>5. Table(pre)
  BY <1>2, <1>3, <1>4 DEF Table
<1> QED
  BY <1>3, <1>5 DEF pre

LEMMA PrefixFails ==
    ASSUME NEW log, Table(log), NEW k \in 1..Len(log), NEW i \in 1..k
    PROVE  LET pre == SubSeq(log, 1, k)
           IN  Fails(pre, 0, GENESIS, FirstSeq(pre), i) <=> Fails(log, 0, GENESIS, FirstSeq(log), i)
<1> DEFINE pre == SubSeq(log, 1, k)
<1>1. log \in Seq(EvidenceEntry) /\ Len(log) \in Nat /\ i \in 1..Len(log)
  BY Rows DEF Table
<1>2. /\ pre \in Seq(EvidenceEntry) /\ i \in 1..Len(pre)
      /\ pre[i] = log[i]
      /\ i # 1 => pre[i - 1] = log[i - 1]
  BY <1>1, PrefixTable DEF Table
<1> HIDE DEF pre
<1>3. Fails(pre, 0, GENESIS, FirstSeq(pre), i) <=> Fails(log, 0, GENESIS, FirstSeq(log), i)
  BY <1>1, <1>2, FullWalk
<1> QED
  BY <1>3 DEF pre

\* What `verify` answers on a table, whatever has been done to it.
THEOREM VerifyExact ==
    ASSUME NEW log, Table(log)
    PROVE  LET result == verify(log)
           IN  /\ result.ok <=> Linear(log)
               /\ result.ok => result.entries = Len(log)
               /\ ~ result.ok =>
                     \E i \in DOMAIN log : /\ log[i].seq = result.first_bad_seq
                                           /\ result.entries = i
                                           /\ Linear(SubSeq(log, 1, i - 1))
                                           /\ ~ Linear(SubSeq(log, 1, i))
<1> DEFINE n == Len(log)
           F(i) == Fails(log, 0, GENESIS, FirstSeq(log), i)
           broken == Broken(log, 0, GENESIS, FirstSeq(log))
<1>1. log \in Seq(EvidenceEntry) /\ n \in Nat /\ DOMAIN log = 1..n
  BY Rows DEF Table
<1>2. Walked(log, 0) = 1..n
  BY <1>1, Rows DEF Walked
<1>3. broken = {i \in 1..n : F(i)}
  BY <1>2 DEF Broken
<1>4. verify(log) = IF broken = {}
                    THEN Valid(0 + Cardinality(1..n))
                    ELSE BrokenAt(0 + Cardinality({i \in 1..n : i <= FirstBreak(broken)}),
                                  log[FirstBreak(broken)].seq)
  BY <1>2 DEF verify, _walk
<1> HIDE DEF broken, F
<1>5. CASE broken = {}
  <2>1. Linear(log)
    BY <1>3, <1>5, LinkedIsLinear DEF F
  <2>2. Cardinality(1..n) = n
    BY <1>1, FS_Interval
  <2>3. verify(log) = Valid(n)
    BY <1>1, <1>4, <1>5, <2>2
  <2> QED
    BY <2>1, <2>3 DEF Valid
<1>6. CASE broken # {}
  <2> DEFINE b == FirstBreak(broken)
  <2>1. broken \in SUBSET (1..n) /\ b \in broken /\ \A i \in broken : b <= i
    <3>1. broken \in SUBSET (1..n)
      BY <1>3
    <3> QED
      BY <1>1, <1>6, <3>1, FirstOf
  <2>2. verify(log) = BrokenAt(0 + Cardinality({i \in 1..n : i <= b}), log[b].seq)
    BY <1>4, <1>6
  <2> HIDE DEF b
  <2>3. b \in 1..n /\ F(b) /\ \A i \in 1..n : i < b => ~ F(i)
    BY <1>1, <1>3, <2>1
  <2>4. Cardinality({i \in 1..n : i <= b}) = b
    <3>1. {i \in 1..n : i <= b} = 1..b
      BY <1>1, <2>3
    <3>2. Cardinality(1..b) = b
      BY <1>1, <2>3, FS_Interval
    <3> QED
      BY <3>1, <3>2
  <2>5. verify(log) = BrokenAt(b, log[b].seq)
    BY <1>1, <2>2, <2>3, <2>4
  <2>6. ~ Linear(log)
    BY <2>3, LinkedIsLinear DEF F
  <2>7. ~ Linear(SubSeq(log, 1, b))
    <3>1. Fails(SubSeq(log, 1, b), 0, GENESIS, FirstSeq(SubSeq(log, 1, b)), b)
      BY <1>1, <2>3, PrefixFails DEF F
    <3>2. Table(SubSeq(log, 1, b)) /\ Len(SubSeq(log, 1, b)) = b /\ b \in 1..b
      BY <1>1, <2>3, PrefixTable
    <3> QED
      BY <3>1, <3>2, LinkedIsLinear
  <2>8. Linear(SubSeq(log, 1, b - 1))
    <3>1. b - 1 \in 0..n
      BY <1>1, <2>3
    <3>2. Table(SubSeq(log, 1, b - 1)) /\ Len(SubSeq(log, 1, b - 1)) = b - 1
      BY <3>1, PrefixTable
    <3>3. ASSUME NEW i \in 1..(b - 1)
          PROVE  ~ Fails(SubSeq(log, 1, b - 1), 0, GENESIS, FirstSeq(SubSeq(log, 1, b - 1)), i)
      <4>1. b - 1 \in 1..n /\ i \in 1..n /\ i < b
        BY <1>1, <2>3
      <4> QED
        BY <2>3, <4>1, PrefixFails DEF F
    <3> QED
      BY <3>2, <3>3, LinkedIsLinear
  <2> QED
    BY <1>1, <2>3, <2>5, <2>6, <2>7, <2>8 DEF BrokenAt
<1> QED
  BY <1>5, <1>6

-----------------------------------------------------------------------------
(* The daily check. *)

\* Between two rows there are at least as many seqs as rows.
LEMMA SeqsSpread ==
    ASSUME NEW log, Table(log), NEW i \in 1..Len(log), NEW j \in i..Len(log)
    PROVE  log[j].seq - log[i].seq >= j - i
<1> DEFINE n == Len(log)
           Bad == {k \in 1..n : i <= k /\ ~ log[k].seq - log[i].seq >= k - i}
<1>1. /\ log \in Seq(EvidenceEntry) /\ n \in Nat /\ DOMAIN log = 1..n
      /\ \A k \in 1..n : log[k].seq \in Nat
  BY Rows DEF Table
<1>2. \A k, m \in 1..n : k < m => log[k].seq < log[m].seq
  BY <1>1 DEF Table
<1>3. Bad = {}
  <2> SUFFICES ASSUME Bad # {} PROVE FALSE
    OBVIOUS
  <2> DEFINE m == FirstBreak(Bad)
  <2>1. m \in Bad /\ \A x \in Bad : m <= x
    BY <1>1, FirstOf
  <2> HIDE DEF m
  <2>2. m \in 1..n /\ i <= m /\ m # i
    BY <1>1, <2>1
  <2>3. m - 1 \in 1..n /\ i <= m - 1 /\ m - 1 \notin Bad
    BY <1>1, <2>1, <2>2
  <2>4. log[m - 1].seq - log[i].seq >= m - 1 - i
    BY <2>3
  <2>5. log[m - 1].seq < log[m].seq
    BY <1>1, <1>2, <2>2, <2>3
  <2>6. log[m].seq - log[i].seq >= m - i
    <3>1. /\ log[m].seq \in Nat /\ log[m - 1].seq \in Nat /\ log[i].seq \in Nat
          /\ m \in Int /\ i \in Int
      BY <1>1, <2>2, <2>3
    <3> HIDE DEF Bad
    <3> DEFINE x == log[m - 1].seq
               y == log[m].seq
               z == log[i].seq
    <3>2. x \in Nat /\ y \in Nat /\ z \in Nat /\ x - z >= m - 1 - i /\ x < y
      BY <2>4, <2>5, <3>1
    <3> HIDE DEF x, y, z
    <3>3. y - z >= m - i
      BY <3>1, <3>2
    <3> QED
      BY <3>3 DEF y, z
  <2> QED
    BY <2>1, <2>6
<1> QED
  BY <1>1, <1>3

\* The rows up to a row are as many as its place says.
LEMMA CountTo ==
    ASSUME NEW log, Table(log), NEW k \in 1..Len(log)
    PROVE  _count_to(log, log[k].seq) = k
<1>1. /\ log \in Seq(EvidenceEntry) /\ Len(log) \in Nat /\ DOMAIN log = 1..Len(log)
      /\ \A i \in 1..Len(log) : log[i].seq \in Nat
  BY Rows DEF Table
<1>2. \A i, j \in 1..Len(log) : i < j => log[i].seq < log[j].seq
  BY <1>1 DEF Table
<1>3. {i \in DOMAIN log : log[i].seq <= log[k].seq} = 1..k
  <2>1. ASSUME NEW i \in 1..Len(log) PROVE log[i].seq <= log[k].seq <=> i <= k
    BY <1>1, <1>2
  <2> QED
    BY <1>1, <2>1
<1>4. Cardinality(1..k) = k
  BY <1>1, FS_Interval
<1> QED
  BY <1>3, <1>4 DEF _count_to

\* A checkpoint that passes `_anchored` names a row of the table with the hash the
\* row's own columns give, and there is no gap from the oldest row up to it.
LEMMA AnchorHolds ==
    ASSUME NEW log, Table(log), NEW c \in ChainCheckpoint, _anchored(log, c)
    PROVE  \E k \in 1..Len(log) :
               /\ log[k].seq = c.seq
               /\ log[k].entry_hash = c.entry_hash
               /\ log[k].entry_hash = compute_entry_hash(log[k].prev_hash, log[k].payload)
               /\ \A j \in 1..k : log[j].seq = c.seq - (k - j)
<1>1. /\ log \in Seq(EvidenceEntry) /\ Len(log) \in Nat /\ DOMAIN log = 1..Len(log)
      /\ \A i \in 1..Len(log) : log[i].seq \in Nat
  BY Rows DEF Table
<1>2. PICK k \in 1..Len(log) : log[k].seq = c.seq /\ log[k].entry_hash = c.entry_hash
  BY <1>1 DEF _anchored, AnchorLost
<1>3. log[k].entry_hash = compute_entry_hash(log[k].prev_hash, log[k].payload)
  BY <1>1, <1>2 DEF _anchored, AnchorRewritten
<1>4. k = c.seq - log[1].seq + 1
  <2>1. _count_to(log, c.seq) = c.seq - FirstSeq(log) + 1
    BY DEF _anchored, BelowGone
  <2>2. FirstSeq(log) = log[1].seq
    <3>1. log # << >>
      BY <1>1, <1>2, Rows
    <3> QED
      BY <3>1 DEF FirstSeq
  <2>3. _count_to(log, c.seq) = k
    BY <1>2, CountTo
  <2> QED
    BY <2>1, <2>2, <2>3
<1>5. ASSUME NEW j \in 1..k PROVE log[j].seq = c.seq - (k - j)
  <2>1. j \in 1..Len(log) /\ 1 \in 1..Len(log) /\ j \in 1..Len(log) /\ k \in j..Len(log)
    BY <1>1
  <2>2. log[j].seq - log[1].seq >= j - 1 /\ log[k].seq - log[j].seq >= k - j
    BY <2>1, SeqsSpread
  <2>3. /\ log[1].seq \in Nat /\ log[j].seq \in Nat /\ log[k].seq \in Nat
        /\ j \in Int /\ k \in Int
    BY <1>1, <2>1
  <2>4. k = log[k].seq - log[1].seq + 1
    BY <1>2, <1>4
  <2>5. log[j].seq = log[k].seq - (k - j)
    BY <2>2, <2>3, <2>4
  <2> QED
    BY <1>2, <2>5
<1> QED
  BY <1>2, <1>3, <1>5

\* Some checkpoint is the newest.
LEMMA LatestOf ==
    ASSUME NEW cps \in SUBSET ChainCheckpoint, IsFiniteSet(cps), cps # {}
    PROVE  /\ latest_checkpoint(cps) \in cps
           /\ \A d \in cps : d.seq <= latest_checkpoint(cps).seq
<1> DEFINE Newer(c) == {d \in cps : d.seq > c.seq}
           B == {Newer(c) : c \in cps}
           R == StrictSubsetOrdering(cps)
<1>1. IsWellFoundedOn(R, FiniteSubsetsOf(cps)) /\ FiniteSubsetsOf(cps) = SUBSET cps
  BY FS_StrictSubsetOrderingWellFounded, FS_FiniteSubsetsOfFinite
<1>2. B \subseteq SUBSET cps /\ B # {}
  OBVIOUS
<1>3. PICK b \in B : \A a \in B : ~ << a, b >> \in R
  <2> HIDE DEF B, R
  <2> QED
    BY <1>1, <1>2, WFMin
<1>4. PICK c \in cps : b = Newer(c)
  OBVIOUS
<1>5. \A d \in cps : d.seq \in Nat
  BY DEF ChainCheckpoint
<1>6. ASSUME NEW d \in cps PROVE d.seq <= c.seq
  <2> SUFFICES ASSUME d.seq > c.seq PROVE FALSE
    BY <1>5
  <2>1. d \in Newer(c) /\ d \notin Newer(d)
    BY <1>5
  <2>2. Newer(d) \subseteq Newer(c)
    BY <1>5
  <2>3. << Newer(d), Newer(c) >> \in R
    BY <2>1, <2>2 DEF StrictSubsetOrdering
  <2> QED
    BY <1>3, <1>4, <2>3
<1> QED
  BY <1>6 DEF latest_checkpoint

\* What the daily check accepts without a checkpoint the full walk accepts; with
\* one, it is anchored and no row above it fails.
LEMMA DailyAccepts ==
    ASSUME NEW log, NEW cps, verify_since_checkpoint(log, cps).ok
    PROVE  LET c == latest_checkpoint(cps)
           IN  /\ cps = {} => verify(log).ok
               /\ cps # {} =>
                     /\ _anchored(log, c)
                     /\ \A i \in Walked(log, c.seq + 1) :
                           ~ Fails(log, c.seq + 1, c.entry_hash, c.seq + 1, i)
<1> DEFINE c == latest_checkpoint(cps)
<1>1. CASE cps = {}
  BY <1>1 DEF verify_since_checkpoint
<1>2. CASE cps # {}
  <2> HIDE DEF c
  <2>1. verify_since_checkpoint(log, cps) =
            IF _anchored(log, c) THEN Resume(log, c)
                                 ELSE BrokenAt(_count_to(log, c.seq), c.seq)
    BY <1>2 DEF verify_since_checkpoint, c
  <2>2. _anchored(log, c) /\ Resume(log, c).ok
    BY <2>1 DEF BrokenAt
  <2>3. Broken(log, c.seq + 1, c.entry_hash, c.seq + 1) = {}
    BY <2>2 DEF Resume, _walk, BrokenAt
  <2> QED
    BY <1>2, <2>2, <2>3 DEF Broken, c
<1> QED
  BY <1>1, <1>2

\* The newest row of a log the daily check accepts, if it lies above the checkpoint.
LEMMA NewHeadRecomputes ==
    ASSUME NEW log, Table(log), NEW cps \in SUBSET ChainCheckpoint, IsFiniteSet(cps),
           verify_since_checkpoint(log, cps).ok, HeadIsNewer(log, cps)
    PROVE  last_entry(log).entry_hash
              = compute_entry_hash(last_entry(log).prev_hash, last_entry(log).payload)
<1> DEFINE n == Len(log)
           c == latest_checkpoint(cps)
<1>1. /\ log \in Seq(EvidenceEntry) /\ n \in Nat /\ DOMAIN log = 1..n
      /\ n \in 1..n
      /\ last_entry(log) = log[n] /\ log[n].seq \in Nat
  BY Rows DEF Table, HeadIsNewer, last_entry
<1>2. CASE cps = {}
  <2>1. Linear(log)
    BY <1>2, DailyAccepts, VerifyExact
  <2> QED
    BY <1>1, <2>1, LinearRecomputes
<1>3. CASE cps # {}
  <2>1. c \in cps /\ c.seq \in Nat
    BY <1>3, LatestOf DEF ChainCheckpoint
  <2>2. /\ c.seq < log[n].seq
        /\ \A i \in Walked(log, c.seq + 1) :
              ~ Fails(log, c.seq + 1, c.entry_hash, c.seq + 1, i)
    BY <1>1, <1>3, <2>1, DailyAccepts DEF HeadIsNewer
  <2> HIDE DEF c
  <2>3. n \in Walked(log, c.seq + 1)
    BY <1>1, <2>1, <2>2 DEF Walked
  <2> QED
    BY <1>1, <2>2, <2>3 DEF Fails
<1> QED
  BY <1>2, <1>3

\* A row above the checkpoint that the daily check accepts does not fail in the
\* full walk either.
LEMMA NewRowsSound ==
    ASSUME NEW log, Table(log), NEW c \in ChainCheckpoint, _anchored(log, c),
           \A i \in Walked(log, c.seq + 1) :
               ~ Fails(log, c.seq + 1, c.entry_hash, c.seq + 1, i),
           NEW b \in 1..Len(log), log[b].seq > c.seq
    PROVE  ~ Fails(log, 0, GENESIS, FirstSeq(log), b)
<1>1. /\ log \in Seq(EvidenceEntry) /\ Len(log) \in Nat /\ DOMAIN log = 1..Len(log)
      /\ \A i \in 1..Len(log) : log[i].seq \in Nat
      /\ c.seq \in Nat
  BY Rows DEF Table, ChainCheckpoint
<1>2. \A i, j \in 1..Len(log) : i < j => log[i].seq < log[j].seq
  BY <1>1 DEF Table
<1>3. PICK k \in 1..Len(log) : log[k].seq = c.seq /\ log[k].entry_hash = c.entry_hash
  BY AnchorHolds
<1>4. k < b /\ b # 1 /\ b - 1 \in 1..Len(log) /\ k <= b - 1
  <2>1. k < b
    <3>1. b < k => log[b].seq < log[k].seq
      BY <1>2
    <3> QED
      BY <1>1, <1>3, <3>1
  <2> QED
    BY <1>1, <2>1
<1>5. ~ Fails(log, c.seq + 1, c.entry_hash, c.seq + 1, b)
  BY <1>1 DEF Walked
<1>6. log[b].entry_hash = compute_entry_hash(log[b].prev_hash, log[b].payload)
  BY <1>5 DEF Fails
<1>7. log[b].seq = log[b - 1].seq + 1 /\ log[b].prev_hash = log[b - 1].entry_hash
  <2>1. CASE b - 1 \in Walked(log, c.seq + 1)
    BY <1>5, <2>1 DEF Fails
  <2>2. CASE b - 1 \notin Walked(log, c.seq + 1)
    <3>1. log[b - 1].seq <= c.seq
      BY <1>1, <1>4, <2>2 DEF Walked
    <3>2. b - 1 = k
      <4>1. k < b - 1 => log[k].seq < log[b - 1].seq
        BY <1>2, <1>4
      <4> QED
        BY <1>1, <1>3, <1>4, <3>1, <4>1
    <3> QED
      BY <1>3, <1>5, <2>2, <3>2 DEF Fails
  <2> QED
    BY <2>1, <2>2
<1> QED
  BY <1>1, <1>4, <1>6, <1>7, FullWalk

-----------------------------------------------------------------------------
(* Timestamps. *)

\* A row is its four columns.
LEMMA EntryEqual ==
    ASSUME NEW x \in EvidenceEntry, NEW y \in EvidenceEntry,
           x.seq = y.seq, x.prev_hash = y.prev_hash, x.payload = y.payload,
           x.entry_hash = y.entry_hash
    PROVE  x = y
BY DEF EvidenceEntry

\* Two chains that agree on one hash agree on every row up to it.
LEMMA HashCommits ==
    ASSUME NEW a \in Seq(EvidenceEntry), Linear(a), NEW b \in Seq(EvidenceEntry), Linear(b),
           NEW n \in 1..Len(a), n <= Len(b), a[n].entry_hash = b[n].entry_hash
    PROVE  \A i \in 1..n : a[i] = b[i]
<1>1. /\ Len(a) \in Nat /\ DOMAIN a = 1..Len(a) /\ n \in 0..Len(a)
      /\ Len(b) \in Nat /\ DOMAIN b = 1..Len(b) /\ n \in 0..Len(b) /\ n \in 1..Len(b)
  BY Rows
<1>2. ContentsTo(a, n) = ContentsTo(b, n)
  BY <1>1 DEF Linear
<1>3. \A i \in 1..n : a[i].payload = b[i].payload
  BY <1>1, <1>2, Contents
<1>4. \A i \in 0..n : ContentsTo(a, i) = ContentsTo(b, i)
  BY <1>1, <1>3 DEF ContentsTo
<1>5. ASSUME NEW i \in 1..n PROVE a[i] = b[i]
  <2>1. i \in 1..Len(a) /\ i \in 1..Len(b) /\ i \in 0..n
    BY <1>1
  <2>2. a[i].seq = b[i].seq /\ a[i].payload = b[i].payload
    BY <1>1, <1>3, <2>1 DEF Linear
  <2>3. a[i].entry_hash = b[i].entry_hash
    BY <1>1, <1>4, <2>1 DEF Linear
  <2>4. a[i].prev_hash = b[i].prev_hash
    <3>1. CASE i = 1
      BY <1>1, <2>1, <3>1 DEF Linear
    <3>2. CASE i # 1
      <4>1. i - 1 \in 0..n /\ i - 1 \in 1..Len(a) /\ i - 1 \in 1..Len(b)
        BY <1>1, <2>1, <3>2
      <4>2. a[i - 1].entry_hash = b[i - 1].entry_hash
        BY <1>1, <1>4, <4>1 DEF Linear
      <4> QED
        BY <1>1, <2>1, <3>2, <4>2 DEF Linear
    <3> QED
      BY <3>1, <3>2
  <2>5. a[i] \in EvidenceEntry /\ b[i] \in EvidenceEntry
    BY <2>1, Rows
  <2> QED
    BY <2>2, <2>3, <2>4, <2>5, EntryEqual
<1> QED
  BY <1>5

\* The head of a log that is not empty.
LEMMA HeadRow ==
    ASSUME NEW log \in Seq(EvidenceEntry), log # << >>
    PROVE  Len(log) \in 1..Len(log) /\ last_entry(log) = log[Len(log)]
BY Rows DEF last_entry

\* The token over the head of one chain matches another exactly if that begins
\* with the first.
THEOREM StampDecides ==
    ASSUME NEW log \in Seq(EvidenceEntry), Linear(log),
           NEW old \in Seq(EvidenceEntry), Linear(old), old # << >>
    PROVE  BadStamp(log, StampOfHead(old)) <=> ~ IsPrefix(old, log)
<1> DEFINE n == Len(old)
           m == Len(log)
<1>1. /\ n \in Nat /\ DOMAIN old = 1..n /\ n \in 1..n
      /\ m \in Nat /\ DOMAIN log = 1..m
      /\ last_entry(old) = old[n]
  BY Rows, HeadRow
<1>2. old[n].seq = n /\ \A i \in 1..m : log[i].seq = i
  BY <1>1 DEF Linear
<1>3. BadStamp(log, StampOfHead(old)) <=>
          \A i \in 1..m : i = n => log[i].entry_hash # old[n].entry_hash
  BY <1>1, <1>2 DEF BadStamp, StampOfHead, Material
<1>4. IsPrefix(old, log) => n <= m /\ \A i \in 1..n : log[i] = old[i]
  <2> SUFFICES ASSUME IsPrefix(old, log) PROVE n <= m /\ \A i \in 1..n : log[i] = old[i]
    OBVIOUS
  <2>1. n <= m /\ SubSeq(old, 1, n) = SubSeq(log, 1, n)
    BY DEF IsPrefix
  <2>2. \A i \in 1..n : old[i] \in EvidenceEntry /\ log[i] \in EvidenceEntry
    BY <1>1, <2>1, Rows
  <2>3. 1 \in Int /\ n \in Int
    BY <1>1
  <2>4. \A i \in 1..(n - 1 + 1) : SubSeq(old, 1, n)[i] = old[1 + i - 1]
    BY <2>2, <2>3, SubSeqProperties
  <2>5. \A i \in 1..(n - 1 + 1) : SubSeq(log, 1, n)[i] = log[1 + i - 1]
    BY <2>2, <2>3, SubSeqProperties
  <2> QED
    BY <1>1, <2>1, <2>4, <2>5
<1>5. ASSUME n <= m, \A i \in 1..n : log[i] = old[i]
      PROVE  IsPrefix(old, log)
  <2>1. \A i \in 1..n : old[i] \in EvidenceEntry /\ log[i] \in EvidenceEntry
    BY <1>1, <1>5, Rows
  <2>2. 1 \in Int /\ n \in Int
    BY <1>1
  <2>3. /\ SubSeq(old, 1, n) \in Seq(EvidenceEntry)
        /\ Len(SubSeq(old, 1, n)) = IF 1 <= n THEN n - 1 + 1 ELSE 0
        /\ \A i \in 1..(n - 1 + 1) : SubSeq(old, 1, n)[i] = old[1 + i - 1]
    BY <2>1, <2>2, SubSeqProperties
  <2>4. /\ SubSeq(log, 1, n) \in Seq(EvidenceEntry)
        /\ Len(SubSeq(log, 1, n)) = IF 1 <= n THEN n - 1 + 1 ELSE 0
        /\ \A i \in 1..(n - 1 + 1) : SubSeq(log, 1, n)[i] = log[1 + i - 1]
    BY <2>1, <2>2, SubSeqProperties
  <2>5. Len(SubSeq(old, 1, n)) = n /\ Len(SubSeq(log, 1, n)) = n
    BY <1>1, <2>3, <2>4
  <2>6. \A i \in 1..n : SubSeq(old, 1, n)[i] = SubSeq(log, 1, n)[i]
    BY <1>1, <1>5, <2>3, <2>4
  <2>7. SubSeq(old, 1, n) = SubSeq(log, 1, n)
    BY <2>3, <2>4, <2>5, <2>6, SeqEqual
  <2> QED
    BY <1>5, <2>7 DEF IsPrefix
<1> HIDE DEF n, m
<1>6. ASSUME ~ BadStamp(log, StampOfHead(old)) PROVE IsPrefix(old, log)
  <2>1. \E k \in 1..m : k = n /\ log[k].entry_hash = old[n].entry_hash
    BY <1>3, <1>6
  <2>2. n <= m /\ log[n].entry_hash = old[n].entry_hash
    BY <1>1, <2>1
  <2>3. \A i \in 1..n : old[i] = log[i]
    BY <1>1, <2>2, HashCommits DEF n, m
  <2> QED
    BY <1>5, <2>2, <2>3
<1>7. ASSUME IsPrefix(old, log) PROVE ~ BadStamp(log, StampOfHead(old))
  <2>1. n \in 1..m /\ log[n] = old[n]
    BY <1>1, <1>4, <1>7
  <2> QED
    BY <1>3, <2>1
<1> QED
  BY <1>6, <1>7

-----------------------------------------------------------------------------
(* What the program and the damage leave a table. *)

LEMMA TableAppend ==
    ASSUME NEW log, Table(log), NEW p \in Payload
    PROVE  /\ Table(Append(log, NewEntry(log, HeadHash(log), p)))
           /\ NewEntry(log, HeadHash(log), p) \in EvidenceEntry
<1> DEFINE n == Len(log)
           e == NewEntry(log, HeadHash(log), p)
           new == Append(log, e)
<1>1. /\ log \in Seq(EvidenceEntry) /\ n \in Nat /\ DOMAIN log = 1..n
      /\ log = << >> <=> n = 0
  BY Rows DEF Table
<1>2. /\ HeadHash(log) \in Seq(Payload) /\ NextSeq(log) \in Nat \ {0}
      /\ NextSeq(log) = Len(HeadHash(log)) + 1
      /\ n # 0 => log[n].seq < NextSeq(log)
  <2>1. CASE n = 0
    BY <1>1, <2>1, EmptySeq DEF HeadHash, NextSeq, GENESIS
  <2>2. CASE n # 0
    <3>1. n \in 1..n /\ last_entry(log) = log[n]
      BY <1>1, <2>2, HeadRow
    <3>2. /\ log[n].seq \in Nat \ {0} /\ log[n].entry_hash \in Seq(Payload)
          /\ log[n].seq = Len(log[n].entry_hash)
      BY <1>1, <3>1, Rows DEF Table
    <3>3. HeadHash(log) = log[n].entry_hash /\ NextSeq(log) = log[n].seq + 1
      BY <1>1, <2>2, <3>1 DEF HeadHash, NextSeq
    <3> QED
      BY <3>2, <3>3
  <2> QED
    BY <2>1, <2>2
<1>3. /\ compute_entry_hash(HeadHash(log), p) \in Seq(Payload)
      /\ Len(compute_entry_hash(HeadHash(log), p)) = Len(HeadHash(log)) + 1
  BY <1>2, AppendProperties DEF compute_entry_hash
<1>4. /\ e \in EvidenceEntry /\ e.seq = NextSeq(log)
      /\ e.prev_hash = HeadHash(log) /\ e.entry_hash = compute_entry_hash(HeadHash(log), p)
  BY <1>2, <1>3 DEF NewEntry, EvidenceEntry, Hash
<1> HIDE DEF e
<1>5. /\ new \in Seq(EvidenceEntry) /\ Len(new) = n + 1
      /\ \A i \in 1..n : new[i] = log[i]
      /\ new[n + 1] = e
  BY <1>1, <1>4, AppendProperties
<1> HIDE DEF new
<1>6. DOMAIN new = 1..(n + 1)
  BY <1>5, LenProperties
<1>7. ASSUME NEW i \in 1..(n + 1)
      PROVE  new[i].seq = Len(new[i].prev_hash) + 1 /\ new[i].seq = Len(new[i].entry_hash)
  <2>1. CASE i = n + 1
    BY <1>2, <1>3, <1>4, <1>5, <2>1
  <2>2. CASE i \in 1..n
    BY <1>1, <1>5, <2>2 DEF Table
  <2> QED
    BY <1>1, <2>1, <2>2
<1>8. ASSUME NEW i \in 1..(n + 1), NEW j \in 1..(n + 1), i < j
      PROVE  new[i].seq < new[j].seq
  <2>1. i \in 1..n /\ new[i] = log[i]
    BY <1>1, <1>5, <1>8
  <2>2. CASE j \in 1..n
    BY <1>1, <1>5, <1>8, <2>1, <2>2 DEF Table
  <2>3. CASE j = n + 1
    <3>1. n \in 1..n /\ log[i].seq \in Nat /\ log[n].seq \in Nat
      BY <1>1, <2>1, Rows
    <3>2. i < n => log[i].seq < log[n].seq
      BY <1>1, <2>1, <3>1 DEF Table
    <3>3. log[n].seq < NextSeq(log)
      BY <1>1, <1>2, <3>1
    <3>4. log[i].seq < NextSeq(log)
      BY <1>1, <1>2, <2>1, <3>1, <3>2, <3>3
    <3> QED
      BY <1>4, <1>5, <2>1, <2>3, <3>4
  <2> QED
    BY <1>1, <2>2, <2>3
<1>9. Table(new)
  BY <1>5, <1>6, <1>7, <1>8 DEF Table
<1> QED
  BY <1>4, <1>9 DEF new, e

LEMMA TableAlter ==
    ASSUME NEW log, Table(log), NEW i \in DOMAIN log, NEW p \in Payload
    PROVE  Table([log EXCEPT ![i].payload = p])
<1> DEFINE new == [log EXCEPT ![i].payload = p]
           row == [log[i] EXCEPT !.payload = p]
<1>1. /\ log \in Seq(EvidenceEntry) /\ Len(log) \in Nat /\ DOMAIN log = 1..Len(log)
      /\ \A j \in 1..Len(log) : log[j] \in EvidenceEntry
  BY Rows DEF Table
<1>2. /\ row \in EvidenceEntry /\ row.seq = log[i].seq
      /\ row.prev_hash = log[i].prev_hash /\ row.entry_hash = log[i].entry_hash
  BY <1>1 DEF EvidenceEntry
<1>3. new = [log EXCEPT ![i] = row]
  OBVIOUS
<1> HIDE DEF row, new
<1>4. new \in Seq(EvidenceEntry) /\ DOMAIN new = DOMAIN log
  BY <1>1, <1>2, <1>3, ExceptSeq
<1>5. \A j \in DOMAIN log : /\ new[j].seq = log[j].seq
                            /\ new[j].prev_hash = log[j].prev_hash
                            /\ new[j].entry_hash = log[j].entry_hash
  <2> SUFFICES ASSUME NEW j \in DOMAIN log
               PROVE  /\ new[j].seq = log[j].seq
                      /\ new[j].prev_hash = log[j].prev_hash
                      /\ new[j].entry_hash = log[j].entry_hash
    OBVIOUS
  <2>1. new[j] = IF j = i THEN row ELSE log[j]
    BY <1>1, <1>3
  <2> QED
    BY <1>2, <2>1
<1>6. Table(new)
  BY <1>4, <1>5 DEF Table
<1> QED
  BY <1>6 DEF new

\* Some rows of a table, in their order, are a table.
LEMMA TablePick ==
    ASSUME NEW log, Table(log), NEW new \in Seq(EvidenceEntry), NEW from,
           \A i \in 1..Len(new) : from[i] \in 1..Len(log) /\ new[i] = log[from[i]],
           \A i, j \in 1..Len(new) : i < j => from[i] < from[j]
    PROVE  Table(new)
<1>1. DOMAIN new = 1..Len(new) /\ DOMAIN log = 1..Len(log)
  BY Rows DEF Table
<1> QED
  BY <1>1 DEF Table

LEMMA TableLose ==
    ASSUME NEW log, Table(log), NEW i \in DOMAIN log
    PROVE  Table(SubSeq(log, 1, i - 1) \o SubSeq(log, i + 1, Len(log)))
<1> DEFINE n == Len(log)
           a == SubSeq(log, 1, i - 1)
           b == SubSeq(log, i + 1, n)
           new == a \o b
<1>1. /\ log \in Seq(EvidenceEntry) /\ n \in Nat /\ DOMAIN log = 1..n /\ i \in 1..n
      /\ \A j \in 1..n : log[j] \in EvidenceEntry
  BY Rows DEF Table
<1>2. a \in Seq(EvidenceEntry) /\ Len(a) = i - 1 /\ \A j \in 1..(i - 1) : a[j] = log[j]
  BY <1>1, PrefixTable DEF Table
<1>3. b \in Seq(EvidenceEntry) /\ Len(b) = n - i /\ \A j \in 1..(n - i) : b[j] = log[i + j]
  <2>1. \A j \in (i + 1)..n : log[j] \in EvidenceEntry
    BY <1>1
  <2>2. i + 1 \in Int /\ n \in Int
    BY <1>1
  <2>3. /\ b \in Seq(EvidenceEntry)
        /\ Len(b) = IF i + 1 <= n THEN n - (i + 1) + 1 ELSE 0
        /\ \A j \in 1..(n - (i + 1) + 1) : b[j] = log[i + 1 + j - 1]
    BY <2>1, <2>2, SubSeqProperties
  <2> HIDE DEF b
  <2>4. Len(b) = n - i
    BY <1>1, <2>3
  <2>5. \A j \in 1..(n - i) : b[j] = log[i + j]
    <3> SUFFICES ASSUME NEW j \in 1..(n - i) PROVE b[j] = log[i + j]
      OBVIOUS
    <3>1. j \in 1..(n - (i + 1) + 1) /\ i + 1 + j - 1 = i + j
      BY <1>1
    <3> QED
      BY <2>3, <3>1
  <2> QED
    BY <2>3, <2>4, <2>5
<1> HIDE DEF a, b
<1>4. /\ new \in Seq(EvidenceEntry) /\ Len(new) = Len(a) + Len(b)
      /\ \A j \in 1..(Len(a) + Len(b)) : new[j] = IF j <= Len(a) THEN a[j] ELSE b[j - Len(a)]
  BY <1>2, <1>3, ConcatProperties
<1> HIDE DEF new
<1> DEFINE from == [j \in 1..(n - 1) |-> IF j < i THEN j ELSE j + 1]
<1>5. Len(new) = n - 1
  BY <1>1, <1>2, <1>3, <1>4
<1>6. ASSUME NEW j \in 1..(n - 1) PROVE from[j] \in 1..n /\ new[j] = log[from[j]]
  <2>1. CASE j < i
    BY <1>1, <1>2, <1>3, <1>4, <2>1
  <2>2. CASE ~ j < i
    <3>1. new[j] = b[j - (i - 1)] /\ j - (i - 1) \in 1..(n - i)
      BY <1>1, <1>2, <1>3, <1>4, <2>2
    <3>2. b[j - (i - 1)] = log[i + (j - (i - 1))]
      BY <1>3, <3>1
    <3>3. i + (j - (i - 1)) = j + 1
      BY <1>1
    <3> QED
      BY <1>1, <2>2, <3>1, <3>2, <3>3
  <2> QED
    BY <2>1, <2>2
<1>7. \A j, k \in 1..(n - 1) : j < k => from[j] < from[k]
  BY <1>1
<1> HIDE DEF from
<1>8. Table(new)
  <2>1. /\ \A j \in 1..Len(new) : from[j] \in 1..Len(log) /\ new[j] = log[from[j]]
        /\ \A j, k \in 1..Len(new) : j < k => from[j] < from[k]
    BY <1>5, <1>6, <1>7
  <2>2. new \in Seq(EvidenceEntry)
    BY <1>4
  <2> HIDE DEF n
  <2> QED
    BY <2>1, <2>2, TablePick
<1> QED
  BY <1>8 DEF new, a, b

LEMMA TableRewrite ==
    ASSUME NEW n \in Nat, NEW contents \in [1..n -> Payload]
    PROVE  Table(ChainOf(contents))
<1> DEFINE new == ChainOf(contents)
<1>1. contents \in Seq(Payload) /\ Len(contents) = n
  <2>1. contents \in Seq(Payload)
    BY SeqDef
  <2> QED
    BY <2>1, LenProperties
<1>2. ASSUME NEW i \in 0..n
      PROVE  SubSeq(contents, 1, i) \in Seq(Payload) /\ Len(SubSeq(contents, 1, i)) = i
  <2>1. 1 \in Int /\ i \in Int /\ \A j \in 1..i : contents[j] \in Payload
    OBVIOUS
  <2>2. /\ SubSeq(contents, 1, i) \in Seq(Payload)
        /\ Len(SubSeq(contents, 1, i)) = IF 1 <= i THEN i - 1 + 1 ELSE 0
    BY <2>1, SubSeqProperties
  <2> QED
    BY <2>2
<1>3. DOMAIN new = 1..n
  BY DEF ChainOf
<1>4. ASSUME NEW i \in 1..n
      PROVE  /\ new[i] \in EvidenceEntry
             /\ new[i].seq = i
             /\ new[i].seq = Len(new[i].prev_hash) + 1
             /\ new[i].seq = Len(new[i].entry_hash)
  <2>1. i \in 0..n /\ i - 1 \in 0..n
    OBVIOUS
  <2>2. new[i] = [seq |-> i, prev_hash |-> SubSeq(contents, 1, i - 1),
                  payload |-> contents[i], entry_hash |-> SubSeq(contents, 1, i)]
    BY DEF ChainOf
  <2>3. /\ SubSeq(contents, 1, i) \in Seq(Payload) /\ Len(SubSeq(contents, 1, i)) = i
        /\ SubSeq(contents, 1, i - 1) \in Seq(Payload) /\ Len(SubSeq(contents, 1, i - 1)) = i - 1
        /\ contents[i] \in Payload
    BY <1>2, <2>1
  <2> QED
    BY <2>2, <2>3 DEF EvidenceEntry, Hash
<1> HIDE DEF new
<1>5. new \in Seq(EvidenceEntry)
  <2>1. new \in [1..n -> EvidenceEntry]
    <3>1. new = [i \in 1..n |-> new[i]]
      BY <1>3 DEF new, ChainOf
    <3> QED
      BY <1>4, <3>1
  <2> QED
    BY <2>1, SeqDef
<1>6. Table(new)
  BY <1>3, <1>4, <1>5 DEF Table
<1> QED
  BY <1>6 DEF new

-----------------------------------------------------------------------------
(***************************************************************************)
(* The protocol.  The damage never touches a timestamp artifact, and of    *)
(* the checkpoints it only loses some: the newest one ever written, if it  *)
(* is still there, is the latest, and it was written over a head that the  *)
(* daily check had recomputed.                                             *)
(***************************************************************************)

Recomputes(row) == row.entry_hash = compute_entry_hash(row.prev_hash, row.payload)

CheckpointInv ==
    /\ checkpoints \subseteq ChainCheckpoint
    /\ IsFiniteSet(checkpoints)
    /\ attested \in Seq(EvidenceEntry)
    /\ attested = << >> => checkpoints = {}
    /\ attested # << >> =>
          /\ Recomputes(last_entry(attested))
          /\ \A c \in checkpoints :
                /\ c.seq <= last_entry(attested).seq
                /\ c.seq = last_entry(attested).seq => c = CheckpointOf(attested)

StampInv ==
    \A s \in stamped : /\ s.log \in Seq(EvidenceEntry)
                       /\ s.log # << >>
                       /\ s.stamp = StampOfHead(s.log)

DamageInv ==
    /\ Table(rows)
    /\ CheckpointInv
    /\ StampInv
    /\ damage \in 0..MaxDamage

LEMMA InitDamage == Init => DamageInv
<1> SUFFICES ASSUME Init PROVE DamageInv
  OBVIOUS
<1>1. Table(rows)
  <2>1. rows \in Seq(EvidenceEntry) /\ DOMAIN rows = {}
    BY EmptySeq DEF Init
  <2> QED
    BY <2>1 DEF Table
<1>2. CheckpointInv
  BY FS_EmptySet, EmptySeq DEF Init, CheckpointInv
<1>3. StampInv
  BY DEF Init, StampInv
<1>4. damage \in 0..MaxDamage
  BY MaxDamageAssumption DEF Init
<1> QED
  BY <1>1, <1>2, <1>3, <1>4 DEF DamageInv

\* The head of a log is its checkpoint.
LEMMA CheckpointTyped ==
    ASSUME NEW log \in Seq(EvidenceEntry), log # << >>
    PROVE  /\ last_entry(log) \in EvidenceEntry
           /\ last_entry(log).seq \in Nat \ {0}
           /\ CheckpointOf(log) \in ChainCheckpoint
           /\ CheckpointOf(log).seq = last_entry(log).seq
           /\ CheckpointOf(log).entry_hash = last_entry(log).entry_hash
<1>1. last_entry(log) \in EvidenceEntry
  BY HeadRow, Rows
<1> QED
  BY <1>1 DEF CheckpointOf, ChainCheckpoint, EvidenceEntry

LEMMA AppendDamage ==
    ASSUME DamageInv, append
    PROVE  DamageInv'
<1>1. PICK p \in Payload : rows' = Append(rows, NewEntry(rows, HeadHash(rows), p))
  BY DEF append
<1>2. checkpoints' = checkpoints /\ attested' = attested /\ stamped' = stamped /\ damage' = damage
  BY DEF append
<1>3. Table(rows')
  BY <1>1, TableAppend DEF DamageInv
<1> QED
  BY <1>2, <1>3 DEF DamageInv, CheckpointInv, StampInv, Table

LEMMA StampDamage ==
    ASSUME DamageInv, timestamp_chain_head
    PROVE  DamageInv'
<1>1. PICK p \in Payload : rows' = Append(rows, NewEntry(rows, HeadHash(rows), p))
  BY DEF timestamp_chain_head
<1>2. /\ checkpoints' = checkpoints /\ attested' = attested /\ damage' = damage
      /\ stamped' = stamped \cup {[stamp |-> StampOfHead(rows), log |-> rows]}
      /\ Len(rows) \in 1..(MaxEntries - 1)
  BY DEF timestamp_chain_head
<1>3. Table(rows')
  BY <1>1, TableAppend DEF DamageInv
<1>4. rows \in Seq(EvidenceEntry) /\ rows # << >>
  <2>1. rows \in Seq(EvidenceEntry)
    BY DEF DamageInv, Table
  <2> QED
    BY <1>2, <2>1, Rows
<1>5. StampInv'
  <2> SUFFICES ASSUME NEW s \in stamped'
               PROVE  /\ s.log \in Seq(EvidenceEntry)
                      /\ s.log # << >>
                      /\ s.stamp = StampOfHead(s.log)
    BY DEF StampInv
  <2>1. CASE s \in stamped
    BY <2>1 DEF DamageInv, StampInv
  <2>2. CASE s = [stamp |-> StampOfHead(rows), log |-> rows]
    BY <1>4, <2>2
  <2> QED
    BY <1>2, <2>1, <2>2
<1> QED
  BY <1>2, <1>3, <1>5 DEF DamageInv, CheckpointInv, Table

LEMMA DigestDamage ==
    ASSUME DamageInv, Digest
    PROVE  DamageInv'
<1>1. /\ verify_since_checkpoint(rows, checkpoints).ok
      /\ HeadIsNewer(rows, checkpoints)
      /\ checkpoints' = checkpoints \cup {CheckpointOf(rows)}
      /\ attested' = rows
  BY DEF Digest, write_checkpoint
<1>2. rows' = rows /\ stamped' = stamped /\ damage' = damage
  BY DEF Digest
<1>3. Table(rows) /\ rows \in Seq(EvidenceEntry) /\ rows # << >>
  BY <1>1 DEF DamageInv, Table, HeadIsNewer
<1>4. checkpoints \in SUBSET ChainCheckpoint /\ IsFiniteSet(checkpoints)
  BY DEF DamageInv, CheckpointInv
<1>5. Recomputes(last_entry(rows))
  BY <1>1, <1>3, <1>4, NewHeadRecomputes DEF Recomputes
<1>6. /\ CheckpointOf(rows) \in ChainCheckpoint
      /\ CheckpointOf(rows).seq = last_entry(rows).seq
      /\ last_entry(rows).seq \in Nat
  BY <1>3, CheckpointTyped
<1>7. checkpoints' \subseteq ChainCheckpoint /\ IsFiniteSet(checkpoints')
  BY <1>1, <1>4, <1>6, FS_AddElement
<1>8. ASSUME NEW c \in checkpoints'
      PROVE  /\ c.seq <= last_entry(rows).seq
             /\ c.seq = last_entry(rows).seq => c = CheckpointOf(rows)
  <2>1. CASE c \in checkpoints
    <3>1. c.seq < last_entry(rows).seq /\ c.seq \in Nat
      BY <1>1, <1>4, <2>1 DEF HeadIsNewer, ChainCheckpoint
    <3> QED
      BY <1>6, <3>1
  <2>2. CASE c = CheckpointOf(rows)
    BY <1>6, <2>2
  <2> QED
    BY <1>1, <2>1, <2>2
<1>9. CheckpointInv'
  BY <1>1, <1>3, <1>5, <1>7, <1>8 DEF CheckpointInv
<1> QED
  BY <1>2, <1>9 DEF DamageInv, StampInv, Table

LEMMA DamageDamage ==
    ASSUME DamageInv, Damage
    PROVE  DamageInv'
<1>1. attested' = attested /\ stamped' = stamped
  BY DEF Damage
<1>2. damage' \in 0..MaxDamage
  BY MaxDamageAssumption DEF Damage, DamageInv
<1>3. Table(rows) /\ rows \in Seq(EvidenceEntry) /\ Len(rows) \in Nat
  BY Rows DEF DamageInv, Table
<1>4. Table(rows')
  <2>1. CASE Alter
    <3>1. PICK i \in DOMAIN rows, p \in Payload : rows' = [rows EXCEPT ![i].payload = p]
      BY <2>1 DEF Alter
    <3> QED
      BY <1>3, <3>1, TableAlter
  <2>2. CASE Lose
    BY <1>3, <2>2, TableLose DEF Lose
  <2>3. CASE CutTail
    <3>1. PICK n \in 0..(Len(rows) - 2) : rows' = SubSeq(rows, 1, n)
      BY <2>3 DEF CutTail
    <3>2. n \in 0..Len(rows)
      BY <1>3
    <3> QED
      BY <1>3, <3>1, <3>2, PrefixTable
  <2>4. CASE Rewrite
    <3>1. PICK n \in 1..Len(rows) : \E contents \in [1..n -> Payload] : rows' = ChainOf(contents)
      BY <2>4 DEF Rewrite
    <3>2. n \in Nat
      BY <1>3
    <3> QED
      BY <3>1, <3>2, TableRewrite
  <2>5. CASE LoseCheckpoint
    BY <1>3, <2>5 DEF LoseCheckpoint, Table
  <2> QED
    BY <2>1, <2>2, <2>3, <2>4, <2>5 DEF Damage
<1>5. checkpoints' \subseteq checkpoints
  BY DEF Damage, Alter, Lose, CutTail, Rewrite, LoseCheckpoint
<1>6. IsFiniteSet(checkpoints')
  BY <1>5, FS_Subset DEF DamageInv, CheckpointInv
<1>7. CheckpointInv'
  BY <1>1, <1>5, <1>6 DEF DamageInv, CheckpointInv
<1> QED
  BY <1>1, <1>2, <1>4, <1>7 DEF DamageInv, StampInv

\* The inductive invariant of a log that the program writes and others damage.
THEOREM DamageInvariant == Spec => []DamageInv
<1>1. ASSUME DamageInv, [Next]_vars PROVE DamageInv'
  <2>1. CASE UNCHANGED vars
    BY <1>1, <2>1 DEF vars, DamageInv, CheckpointInv, StampInv, Table
  <2> QED
    BY <1>1, <2>1, AppendDamage, StampDamage, DigestDamage, DamageDamage DEF Next
<1> QED
  BY <1>1, InitDamage, PTL DEF Spec

-----------------------------------------------------------------------------
(* What follows from it. *)

\* The tables always hold rows of their types, in the order of seq, however they
\* were damaged.
THEOREM TypeCorrect == Spec => []TypeOK
<1>1. DamageInv => TypeOK
  <2> SUFFICES ASSUME DamageInv PROVE TypeOK
    OBVIOUS
  <2>1. ASSUME NEW s \in stamped
        PROVE  s.stamp \in [stamped_seq : Nat \ {0}, digest : (Nat \ {0}) \X Hash]
    <3>1. /\ s.log \in Seq(EvidenceEntry) /\ s.log # << >>
          /\ s.stamp = StampOfHead(s.log)
      BY DEF DamageInv, StampInv
    <3>2. last_entry(s.log) \in EvidenceEntry
      BY <3>1, CheckpointTyped
    <3>3. last_entry(s.log).seq \in Nat \ {0} /\ last_entry(s.log).entry_hash \in Hash
      BY <3>2 DEF EvidenceEntry
    <3> QED
      BY <3>1, <3>3 DEF StampOfHead, Material
  <2> QED
    BY <2>1 DEF TypeOK, DamageInv, Table, CheckpointInv, StampInv
<1> QED
  BY <1>1, DamageInvariant, PTL

\* However the log was damaged and appended to since, `verify` accepts it exactly
\* if it is one unbroken chain from GENESIS, and names the first break otherwise.
THEOREM FullVerifyIsExact == Spec => []FullVerifyExact
<1>1. DamageInv => FullVerifyExact
  <2> SUFFICES ASSUME DamageInv PROVE FullVerifyExact
    OBVIOUS
  <2>1. Table(rows)
    BY DEF DamageInv
  <2> QED
    BY <2>1, VerifyExact DEF FullVerifyExact, Prefix
<1> QED
  BY <1>1, DamageInvariant, PTL

\* In a log `verify` accepts, a timestamp taken over a sound log still matches
\* exactly as long as the log begins with all the entries it was taken over.
THEOREM StampsAreExact == Spec => []StampsExact
<1>1. DamageInv => StampsExact
  <2> SUFFICES ASSUME DamageInv, verify(rows).ok, NEW s \in stamped, Linear(s.log)
               PROVE  s.stamp \in _check_timestamps(rows, Stamps) <=> ~ IsPrefix(s.log, rows)
    BY DEF StampsExact
  <2>1. Table(rows) /\ rows \in Seq(EvidenceEntry)
    BY DEF DamageInv, Table
  <2>2. Linear(rows)
    BY <2>1, VerifyExact
  <2>3. /\ s.log \in Seq(EvidenceEntry) /\ s.log # << >>
        /\ s.stamp = StampOfHead(s.log)
    BY DEF DamageInv, StampInv
  <2>4. BadStamp(rows, s.stamp) <=> ~ IsPrefix(s.log, rows)
    BY <2>1, <2>2, <2>3, StampDecides
  <2> QED
    BY <2>4 DEF _check_timestamps, Stamps
<1> QED
  BY <1>1, DamageInvariant, PTL

\* While the newest checkpoint is in the table, the daily check accepts only a log
\* that still holds the head it marked, without a hole below it.
THEOREM MarkedHeadIsKept == Spec => []MarkedHeadKept
<1>1. DamageInv => MarkedHeadKept
  <2> SUFFICES ASSUME DamageInv, LatestIsThere, verify_since_checkpoint(rows, checkpoints).ok
               PROVE  \E i \in DOMAIN rows :
                         /\ rows[i] = last_entry(attested)
                         /\ \A j \in 1..i : rows[j].seq = rows[i].seq - (i - j)
    BY DEF MarkedHeadKept
  <2> DEFINE head == last_entry(attested)
             mark == CheckpointOf(attested)
             c == latest_checkpoint(checkpoints)
  <2>1. /\ Table(rows) /\ rows \in Seq(EvidenceEntry)
        /\ DOMAIN rows = 1..Len(rows)
    BY Rows DEF DamageInv, Table
  <2>2. /\ checkpoints \in SUBSET ChainCheckpoint /\ IsFiniteSet(checkpoints)
        /\ attested \in Seq(EvidenceEntry) /\ attested # << >>
        /\ mark \in checkpoints /\ checkpoints # {}
        /\ Recomputes(head)
        /\ \A d \in checkpoints : /\ d.seq <= head.seq
                                  /\ d.seq = head.seq => d = mark
    BY DEF DamageInv, CheckpointInv, LatestIsThere
  <2>3. /\ head \in EvidenceEntry /\ head.seq \in Nat
        /\ mark \in ChainCheckpoint /\ mark.seq = head.seq /\ mark.entry_hash = head.entry_hash
    BY <2>2, CheckpointTyped
  <2>4. c = mark
    <3>1. c \in checkpoints /\ \A d \in checkpoints : d.seq <= c.seq
      BY <2>2, LatestOf
    <3>2. c.seq \in Nat /\ c.seq <= head.seq /\ head.seq <= c.seq
      BY <2>2, <2>3, <3>1 DEF ChainCheckpoint
    <3> QED
      BY <2>2, <2>3, <3>1, <3>2
  <2>5. _anchored(rows, mark)
    BY <2>2, <2>4, DailyAccepts
  <2> HIDE DEF head, mark, c
  <2>6. PICK k \in 1..Len(rows) :
            /\ rows[k].seq = mark.seq
            /\ rows[k].entry_hash = mark.entry_hash
            /\ rows[k].entry_hash = compute_entry_hash(rows[k].prev_hash, rows[k].payload)
            /\ \A j \in 1..k : rows[j].seq = mark.seq - (k - j)
    BY <2>1, <2>3, <2>5, AnchorHolds
  <2>7. rows[k] \in EvidenceEntry
    BY <2>1, Rows
  <2>8. rows[k].prev_hash = head.prev_hash /\ rows[k].payload = head.payload
    <3>1. Append(rows[k].prev_hash, rows[k].payload) = Append(head.prev_hash, head.payload)
      BY <2>2, <2>3, <2>6 DEF Recomputes, compute_entry_hash
    <3> DEFINE a == rows[k].prev_hash
               x == rows[k].payload
               b == head.prev_hash
               y == head.payload
    <3>2. a \in Seq(Payload) /\ x \in Payload /\ b \in Seq(Payload) /\ y \in Payload
      BY <2>3, <2>7 DEF EvidenceEntry, Hash
    <3>3. Append(a, x) = Append(b, y)
      BY <3>1
    <3> HIDE DEF a, x, b, y
    <3>4. a = b /\ x = y
      BY <3>2, <3>3, AppendInjective
    <3> QED
      BY <3>4 DEF a, x, b, y
  <2>9. rows[k] = head
    BY <2>3, <2>6, <2>7, <2>8, EntryEqual
  <2> QED
    BY <2>1, <2>6, <2>9 DEF head
<1> QED
  BY <1>1, DamageInvariant, PTL

\* Of a log `verify` refuses, the daily check accepts only one whose first break is
\* at or below the latest checkpoint.
THEOREM OnlyOldDamageIsMissed == Spec => []OnlyOldDamageMissed
<1>1. DamageInv => OnlyOldDamageMissed
  <2> SUFFICES ASSUME DamageInv, verify_since_checkpoint(rows, checkpoints).ok, ~ verify(rows).ok
               PROVE  /\ checkpoints # {}
                      /\ verify(rows).first_bad_seq <= latest_checkpoint(checkpoints).seq
    BY DEF OnlyOldDamageMissed
  <2> DEFINE c == latest_checkpoint(checkpoints)
  <2>1. /\ Table(rows) /\ rows \in Seq(EvidenceEntry) /\ Len(rows) \in Nat
        /\ DOMAIN rows = 1..Len(rows)
    BY Rows DEF DamageInv, Table
  <2>2. /\ checkpoints # {} /\ _anchored(rows, c)
        /\ \A i \in Walked(rows, c.seq + 1) :
              ~ Fails(rows, c.seq + 1, c.entry_hash, c.seq + 1, i)
    BY DailyAccepts
  <2>3. c \in ChainCheckpoint /\ c.seq \in Nat
    <3>1. checkpoints \in SUBSET ChainCheckpoint /\ IsFiniteSet(checkpoints)
      BY DEF DamageInv, CheckpointInv
    <3>2. c \in checkpoints
      BY <2>2, <3>1, LatestOf
    <3> QED
      BY <3>1, <3>2 DEF ChainCheckpoint
  <2>4. PICK b \in 1..Len(rows) : /\ rows[b].seq = verify(rows).first_bad_seq
                                  /\ Linear(SubSeq(rows, 1, b - 1))
                                  /\ ~ Linear(SubSeq(rows, 1, b))
    BY <2>1, VerifyExact
  <2> HIDE DEF c
  <2>5. Fails(rows, 0, GENESIS, FirstSeq(rows), b)
    <3> DEFINE old == SubSeq(rows, 1, b - 1)
               new == SubSeq(rows, 1, b)
    <3>1. /\ b \in 0..Len(rows) /\ b - 1 \in 0..Len(rows)
      BY <2>1
    <3>2. Table(old) /\ Len(old) = b - 1 /\ Table(new) /\ Len(new) = b
      BY <2>1, <3>1, PrefixTable
    <3>3. PICK i \in 1..b : Fails(new, 0, GENESIS, FirstSeq(new), i)
      BY <2>4, <3>2, LinkedIsLinear
    <3>4. Fails(rows, 0, GENESIS, FirstSeq(rows), i)
      BY <2>1, <3>3, PrefixFails
    <3>5. CASE i \in 1..(b - 1)
      <4>1. b - 1 \in 1..Len(rows)
        BY <2>1, <3>5
      <4>2. Fails(old, 0, GENESIS, FirstSeq(old), i)
        BY <2>1, <3>4, <3>5, <4>1, PrefixFails
      <4> QED
        BY <2>4, <3>2, <3>5, <4>2, LinkedIsLinear
    <3>6. CASE i = b
      BY <3>4, <3>6
    <3> QED
      BY <2>1, <3>5, <3>6
  <2>6. ~ rows[b].seq > c.seq
    BY <2>1, <2>2, <2>3, <2>5, NewRowsSound
  <2>7. rows[b].seq \in Nat
    BY <2>1, Rows
  <2>8. rows[b].seq <= c.seq
    BY <2>3, <2>6, <2>7
  <2> QED
    BY <2>2, <2>4, <2>8 DEF c
<1> QED
  BY <1>1, DamageInvariant, PTL
=============================================================================
