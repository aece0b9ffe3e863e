------------------------ MODULE ExportPackageProofs -------------------------
(***************************************************************************)
(* The store and the evidence package for every number of writers, blobs   *)
(* and directories.  That rows have files is not inductive: a row comes    *)
(* out of a transaction and a file out of a put.  StoreInv follows both    *)
(* from where they begin: only the holder of the write lock is inside a    *)
(* put, what it is putting has no file yet, and what it has recorded has.  *)
(*                                                                         *)
(* The package needs one step more, PackInv: from the moment the           *)
(* directories are listed every blob the copied database names is in a     *)
(* directory still to be listed, or listed, or packed.                     *)
(*                                                                         *)
(* Seen from outside this is a ContentStore.  That each package has all    *)
(* that the one before it had takes LaterIsMore: what the last package     *)
(* names is committed, and an export on its way has read all of it.        *)
(***************************************************************************)
EXTENDS ExportPackage, TLAPS

Types ==
    /\ main \in [Blobs -> {"absent", "whole"}]
    /\ part \in [Blobs -> Contents]
    /\ rows \subseteq Blobs
    /\ open \subseteq Writers
    /\ tx \in [Writers -> SUBSET Blobs]
    /\ putting \in [Writers -> Blobs \cup {NoBlob}]

OneWriter == \A v, w \in open : v = w

PutsAreNew ==
    \A w \in Writers : putting[w] # NoBlob =>
        w \in open /\ main[putting[w]] = "absent" /\ part[putting[w]] # "absent"

RecordedIsThere == \A w \in Writers : \A b \in tx[w] : w \in open /\ main[b] = "whole"

CheckIsClean == checking \subseteq rows /\ missing = {}

StoreInv == /\ Types /\ OneWriter /\ PutsAreNew
            /\ RecordedIsThere /\ RowsHaveFiles /\ CheckIsClean

PackTypes ==
    /\ phase \in Phases
    /\ shards \subseteq Shards
    /\ queue \subseteq Blobs \X {"sha256", "part"}
    /\ files \subseteq File
    /\ out # NoPackage => out \in Package

ReadInOrder ==
    /\ csv \subseteq rows /\ dump \subseteq rows
    /\ phase \in {"dumped", "packing", "published"} => csv \subseteq dump

\* The blob's file is still to come, or is in the package.
Accounted(b) ==
    \/ shard[b] \in shards
    \/ << b, "sha256" >> \in queue
    \/ [blob |-> b, name |-> "sha256", content |-> "whole"] \in files

PackInv == /\ PackTypes /\ ReadInOrder /\ PackageComplete
           /\ phase = "packing" => \A b \in dump : Accounted(b)

Inv == StoreInv /\ PackInv

-----------------------------------------------------------------------------
(***************************************************************************)
(* The writers.                                                            *)
(***************************************************************************)

\* Nothing is stored, recorded or exported at first.
LEMMA InitInv == Init => Inv
<1> SUFFICES ASSUME Init PROVE Inv
  OBVIOUS
<1>1. StoreInv
  BY DEF Init, StoreInv, Types, OneWriter, PutsAreNew, RecordedIsThere,
         RowsHaveFiles, CheckIsClean, Contents
<1>2. PackInv
  BY DEF Init, PackInv, PackTypes, ReadInOrder, PackageComplete, Phases
<1> QED
  BY <1>1, <1>2 DEF Inv

\* A transaction begins when no other is open.
LEMMA BeginInv ==
    ASSUME StoreInv, NEW w \in Writers, Begin(w)
    PROVE  StoreInv'
  BY DEF StoreInv, Types, OneWriter, PutsAreNew, RecordedIsThere,
         RowsHaveFiles, CheckIsClean, Begin, store, package, check

\* A file under its own hash appears whole, and does not change after that.
OnlyNewFiles == \A b \in Blobs : main'[b] # main[b] => main[b] = "absent" /\ main'[b] = "whole"

\* The steps of a put that write no file under a hash.
LEMMA PutPartInv ==
    ASSUME StoreInv, NEW w \in Writers, PutPresent(w) \/ PutBegin(w) \/ PutWrite(w)
    PROVE  StoreInv'
<1>1. CASE PutPresent(w)
  BY <1>1 DEF StoreInv, Types, OneWriter, PutsAreNew, RecordedIsThere, RowsHaveFiles,
     CheckIsClean, PutPresent, AlreadyPresent, Record, store, package, check
<1>2. CASE PutBegin(w)
  BY <1>2, NoBlobAssumption DEF StoreInv, Types, OneWriter, PutsAreNew, RecordedIsThere,
     RowsHaveFiles, CheckIsClean, PutBegin, AlreadyPresent, ToPart, Contents, package, check
<1>3. CASE PutWrite(w)
  BY <1>3 DEF StoreInv, Types, OneWriter, PutsAreNew, RecordedIsThere, RowsHaveFiles,
     CheckIsClean, PutWrite, Contents, writing, package, check
<1> QED
  BY <1>1, <1>2, <1>3

\* The rename: no other writer is inside a put, so the blob had no file.
LEMMA PutReplaceInv ==
    ASSUME StoreInv, NEW w \in Writers, PutReplace(w)
    PROVE  StoreInv' /\ OnlyNewFiles
<1> DEFINE b == putting[w]
<1>1. /\ b \in Blobs /\ part[b] = "whole" /\ main[b] = "absent" /\ w \in open
  BY DEF StoreInv, Types, PutsAreNew, PutReplace
<1>2. /\ main' = [main EXCEPT ![b] = "whole"]
      /\ part' = [part EXCEPT ![b] = "absent"]
      /\ tx' = [tx EXCEPT ![w] = @ \cup {b}]
      /\ putting' = [putting EXCEPT ![w] = NoBlob]
      /\ UNCHANGED << rows, open, checking, missing >>
  BY <1>1 DEF PutReplace, Record, check
<1>3. \A v \in Writers : v # w => putting[v] = NoBlob
  BY <1>1 DEF StoreInv, OneWriter, PutsAreNew
<1> HIDE DEF b
<1>4. Types' /\ OneWriter'
  BY <1>1, <1>2 DEF StoreInv, Types, OneWriter, Contents
<1>5. PutsAreNew'
  BY <1>2, <1>3 DEF StoreInv, Types, PutsAreNew
<1>6. RecordedIsThere' /\ RowsHaveFiles' /\ CheckIsClean'
  BY <1>1, <1>2 DEF StoreInv, Types, RecordedIsThere, RowsHaveFiles, CheckIsClean
<1>7. OnlyNewFiles
  BY <1>1, <1>2 DEF StoreInv, Types, OnlyNewFiles
<1> QED
  BY <1>4, <1>5, <1>6, <1>7 DEF StoreInv

\* The end of a transaction: what it recorded has files; what it drops leaves
\* only files behind.
LEMMA EndInv ==
    ASSUME StoreInv, NEW w \in Writers, Commit(w) \/ Abort(w)
    PROVE  StoreInv'
<1>1. CASE Commit(w)
  BY <1>1 DEF StoreInv, Types, OneWriter, PutsAreNew, RecordedIsThere, RowsHaveFiles,
     CheckIsClean, Commit, DropRows, store, package, check
<1>2. CASE Abort(w)
  BY <1>2 DEF StoreInv, Types, OneWriter, PutsAreNew, RecordedIsThere, RowsHaveFiles,
     CheckIsClean, Abort, DropRows, store, package, check
<1> QED
  BY <1>1, <1>2

\* `verify` looks at files of committed rows only.
LEMMA VerifyInv ==
    ASSUME StoreInv, Verify
    PROVE  StoreInv'
  BY DEF StoreInv, Types, OneWriter, PutsAreNew, RecordedIsThere, RowsHaveFiles,
     CheckIsClean, Verify, _artifact_hashes, VerifyBlob, store, writing, package

\* The export reads.
LEMMA ExportKeepsStore ==
    ASSUME StoreInv, Export
    PROVE  StoreInv' /\ UNCHANGED << store, rows >>
<1>1. UNCHANGED << store, rows, writing, check >>
  BY DEF Export, _write_log_csv, _dump_sqlite, ListShards, ListShard, _add_stream,
     Publish, RecordExport, FailExport, EndExport
<1> QED
  BY <1>1 DEF StoreInv, Types, OneWriter, PutsAreNew, RecordedIsThere, RowsHaveFiles,
     CheckIsClean, store, writing, check

-----------------------------------------------------------------------------
(***************************************************************************)
(* The export.                                                             *)
(***************************************************************************)

\* Committed rows are only ever added to.
LEMMA RowsGrow ==
    ASSUME StoreInv, NEW w \in Writers, Writer(w)
    PROVE  rows \subseteq rows' /\ UNCHANGED package
  BY DEF Writer, Begin, put, PutPresent, PutBegin, PutWrite, PutReplace, Commit, Abort

\* While nothing of the package changes and rows only grow, it stays in order.
LEMMA PackStays ==
    ASSUME PackInv, UNCHANGED package, rows \subseteq rows'
    PROVE  PackInv'
  BY DEF PackInv, PackTypes, ReadInOrder, PackageComplete, Accounted, package

\* Each step of the export.
LEMMA ExportInv ==
    ASSUME StoreInv, PackInv, Export
    PROVE  PackInv'
<1> USE DEF PackInv, PackTypes, ReadInOrder
<1>1. CASE _write_log_csv
  BY <1>1 DEF _write_log_csv, PackageComplete, Phases
<1>2. CASE _dump_sqlite
  BY <1>2 DEF _dump_sqlite, PackageComplete, Phases
<1>3. CASE ListShards
  <2>1. \A b \in dump : shard[b] \in shards'
    BY <1>3 DEF ListShards, Started, StoreInv, RowsHaveFiles, Types
  <2>2. shards' \subseteq Shards
    BY <1>3, ShardAssumption DEF ListShards
  <2> QED
    BY <1>3, <2>1, <2>2 DEF ListShards, PackageComplete, Accounted, Phases
<1>4. CASE ListShard
  <2> PICK s \in shards :
        /\ shards' = shards \ {s}
        /\ queue' = {<< b, "sha256" >> : b \in {c \in Blobs : shard[c] = s /\ main[c] # "absent"}}
               \cup {<< b, "part" >> : b \in {c \in Blobs : shard[c] = s /\ part[c] # "absent"}}
    BY <1>4 DEF ListShard
  <2>1. queue' \subseteq Blobs \X {"sha256", "part"}
    OBVIOUS
  <2>2. ASSUME NEW b \in dump PROVE Accounted(b)'
    <3>1. main[b] = "whole" /\ b \in Blobs
      BY DEF StoreInv, RowsHaveFiles, Types
    <3>2. CASE shard[b] = s
      <4>1. << b, "sha256" >> \in queue'
        BY <3>1, <3>2
      <4> QED
        BY <4>1 DEF Accounted
    <3>3. CASE shard[b] # s
      BY <1>4, <3>3 DEF ListShard, Accounted
    <3> QED
      BY <3>2, <3>3
  <2> QED
    BY <1>4, <2>1, <2>2 DEF ListShard, PackageComplete
<1>5. CASE _add_stream
  <2> PICK f \in queue :
        /\ ContentOf(f) # "absent"
        /\ files' = files \cup {[blob |-> f[1], name |-> f[2], content |-> ContentOf(f)]}
        /\ queue' = queue \ {f}
    BY <1>5 DEF _add_stream
  <2>1. f[1] \in Blobs /\ f[2] \in {"sha256", "part"} /\ f = << f[1], f[2] >>
    OBVIOUS
  <2>2. ContentOf(f) \in Contents
    BY <2>1 DEF ContentOf, StoreInv, Types, Contents
  <2>3. files' \subseteq File
    BY <2>1, <2>2 DEF File
  <2>4. ASSUME NEW b \in dump PROVE Accounted(b)'
    <3>1. main[b] = "whole"
      BY DEF StoreInv, RowsHaveFiles
    <3>2. CASE f = << b, "sha256" >>
      BY <3>1, <3>2 DEF Accounted, ContentOf
    <3>3. CASE f # << b, "sha256" >>
      BY <1>5, <3>3 DEF _add_stream, Accounted
    <3> QED
      BY <3>2, <3>3
  <2> QED
    BY <1>5, <2>3, <2>4 DEF _add_stream, PackageComplete
<1>6. CASE Publish
  <2>1. \A b \in dump : [blob |-> b, name |-> "sha256", content |-> "whole"] \in files
    BY <1>6 DEF Publish, Accounted
  <2>2. csv \subseteq Blobs /\ dump \subseteq Blobs /\ csv \subseteq dump
    BY <1>6 DEF Publish, StoreInv, Types
  <2>3. out' = [csv |-> csv, dump |-> dump, files |-> files]
    BY <1>6 DEF Publish, Dumped
  <2>4. PackageComplete' /\ out' \in Package
    BY <2>1, <2>2, <2>3 DEF PackageComplete, Package
  <2> QED
    BY <1>6, <2>4 DEF Publish, Phases
<1>7. CASE RecordExport \/ FailExport
  BY <1>7 DEF RecordExport, FailExport, EndExport, PackageComplete, Phases
<1> QED
  BY <1>1, <1>2, <1>3, <1>4, <1>5, <1>6, <1>7 DEF Export

-----------------------------------------------------------------------------
(***************************************************************************)
(* The theorems.                                                           *)
(***************************************************************************)

\* Every step of writers, export and verify keeps the inductive invariant, and
\* changes a file under its hash only by making it appear, whole.
LEMMA NextInv ==
    ASSUME Inv, [Next]_vars
    PROVE  Inv' /\ (store' # store => OnlyNewFiles)
<1>1. ASSUME NEW w \in Writers, Writer(w) PROVE Inv' /\ (store' # store => OnlyNewFiles)
  <2>1. StoreInv' /\ OnlyNewFiles
    <3>1. CASE Begin(w)
      BY <3>1, BeginInv DEF Inv, Begin, store, OnlyNewFiles
    <3>2. CASE PutPresent(w) \/ PutBegin(w) \/ PutWrite(w)
      <4>1. main' = main
        BY <3>2 DEF PutPresent, PutBegin, PutWrite, ToPart, store
      <4> QED
        BY <3>2, <4>1, PutPartInv DEF Inv, OnlyNewFiles
    <3>3. CASE PutReplace(w)
      BY <3>3, PutReplaceInv DEF Inv
    <3>4. CASE Commit(w) \/ Abort(w)
      BY <3>4, EndInv DEF Inv, Commit, Abort, store, OnlyNewFiles
    <3> QED
      BY <1>1, <3>1, <3>2, <3>3, <3>4 DEF Writer, put
  <2>2. PackInv'
    BY <1>1, RowsGrow, PackStays DEF Inv
  <2> QED
    BY <2>1, <2>2 DEF Inv
<1>2. CASE Export
  BY <1>2, ExportKeepsStore, ExportInv DEF Inv
<1>3. CASE Verify
  <2>1. UNCHANGED << store, rows, package >>
    BY <1>3 DEF Verify, _artifact_hashes, VerifyBlob
  <2> QED
    BY <1>3, <2>1, VerifyInv, PackStays DEF Inv
<1>4. CASE UNCHANGED vars
  BY <1>4, PackStays DEF Inv, vars, StoreInv, Types, OneWriter, PutsAreNew, RecordedIsThere,
     RowsHaveFiles, CheckIsClean, store, writing, check
<1> QED
  BY <1>1, <1>2, <1>3, <1>4 DEF Next

\* The inductive invariant of the store and the package.
THEOREM StoreAndPackage == Spec => []Inv
<1>1. Inv /\ [Next]_vars => Inv'
  BY NextInv
<1> QED
  BY InitInv, <1>1, PTL DEF Spec

\* Type correctness for any number of writers, blobs and directories.
THEOREM TypeCorrect == Spec => []TypeOK
<1>1. Inv => TypeOK
  BY DEF Inv, StoreInv, Types, RecordedIsThere, CheckIsClean, PackInv, PackTypes, ReadInOrder,
     TypeOK, Contents
<1> QED
  BY StoreAndPackage, <1>1, PTL

\* Every committed artifact row has its whole file, whatever was killed.
THEOREM CommittedRowsHaveFiles == Spec => []RowsHaveFiles
<1>1. Inv => RowsHaveFiles
  BY DEF Inv, StoreInv
<1> QED
  BY StoreAndPackage, <1>1, PTL

\* A file under its hash appears whole and never changes.
THEOREM FilesAreForever == Spec => FilesNeverMutated
<1>1. Inv /\ [Next]_vars =>
        [\A b \in Blobs : main'[b] # main[b] => main[b] = "absent" /\ main'[b] = "whole"]_store
  BY NextInv DEF OnlyNewFiles
<1> QED
  BY StoreAndPackage, <1>1, PTL DEF Spec, FilesNeverMutated

\* Every published package has all its database names, and its database all its
\* log names, however many writers ran while it was made.
THEOREM PackagesAreComplete == Spec => []PackageComplete
<1>1. Inv => PackageComplete
  BY DEF Inv, PackInv
<1> QED
  BY StoreAndPackage, <1>1, PTL

\* `verify` reports no artifact missing while only the program writes.
THEOREM VerifyReportsNothing == Spec => []NothingReportedMissing
<1>1. Inv => NothingReportedMissing
  BY DEF Inv, StoreInv, CheckIsClean, NothingReportedMissing
<1> QED
  BY StoreAndPackage, <1>1, PTL

-----------------------------------------------------------------------------
(***************************************************************************)
(* The refinement of ContentStore.                                         *)
(***************************************************************************)

\* An export on its way names whatever the last package named.
LaterIsMore ==
    out # NoPackage =>
        /\ out.dump \subseteq rows
        /\ phase \in {"logged", "dumped", "packing"} => out.dump \subseteq csv

\* What was packed as a whole file is one still.
PackedIsKept == \A b \in WholeFiles(files) : main[b] = "whole"

DeliveryInv == LaterIsMore /\ PackedIsKept

\* Writers only add rows and files, and leave the export alone.
LEMMA DeliveryStays ==
    ASSUME DeliveryInv, UNCHANGED package, rows \subseteq rows',
           \A b \in WholeFiles(files) : main[b] = "whole" => main'[b] = "whole"
    PROVE  DeliveryInv'
  BY DEF DeliveryInv, LaterIsMore, PackedIsKept, WholeFiles, package

\* Each step of the export: the log is read after the last package was
\* delivered, and a file is packed as it is found.
LEMMA ExportDelivers ==
    ASSUME StoreInv, PackInv, DeliveryInv, Export
    PROVE  DeliveryInv'
<1>1. UNCHANGED << main, rows >>
  BY ExportKeepsStore DEF store
<1>2. LaterIsMore'
  <2>1. CASE Publish
    BY <1>1, <2>1 DEF Publish, Dumped, LaterIsMore, PackInv, ReadInOrder
  <2>2. CASE ~ Publish
    BY <1>1, <2>2 DEF DeliveryInv, LaterIsMore, Export, _write_log_csv, _dump_sqlite, ListShards,
       ListShard, _add_stream, RecordExport, FailExport, EndExport
  <2> QED
    BY <2>1, <2>2
<1>3. PackedIsKept'
  <2>1. CASE _add_stream
    <3> PICK f \in queue :
          files' = files \cup {[blob |-> f[1], name |-> f[2], content |-> ContentOf(f)]}
      BY <2>1 DEF _add_stream
    <3> QED
      BY <1>1 DEF DeliveryInv, PackedIsKept, WholeFiles, ContentOf
  <2>2. CASE ~ _add_stream
    <3>1. files' = files \/ files' = {}
      BY <2>2 DEF Export, _write_log_csv, _dump_sqlite, ListShards, ListShard, Publish,
         RecordExport, FailExport, EndExport
    <3> QED
      BY <1>1, <3>1 DEF DeliveryInv, PackedIsKept, WholeFiles
  <2> QED
    BY <2>1, <2>2
<1> QED
  BY <1>2, <1>3 DEF DeliveryInv

\* Delivering the package is a Ship.
LEMMA PublishShips ==
    ASSUME StoreInv, PackInv, DeliveryInv, DeliveryInv', PackInv', Publish
    PROVE  AbstractStore!Ship
<1>1. /\ out' = [csv |-> csv, dump |-> dump, files |-> files]
      /\ UNCHANGED << main, rows, files >>
      /\ phase = "packing"
  BY DEF Publish, Dumped, store
<1>2. /\ csv \subseteq rows /\ dump \subseteq rows /\ csv \subseteq dump
      /\ rows \subseteq Blobs /\ files \subseteq File
  BY <1>1 DEF PackInv, PackTypes, ReadInOrder, StoreInv, Types
<1>3. out' \in Package
  BY <1>1, <1>2 DEF Package
<1>4. Shipped' = [log |-> csv, database |-> dump, blobs |-> WholeFiles(files)]
  BY <1>1, <1>3, NoPackageAssumption DEF Shipped, WholeFiles
<1>5. WholeFiles(files) \subseteq AbstractStore!Kept
  BY <1>2 DEF DeliveryInv, PackedIsKept, WholeFiles, AbstractStore!Kept, File
<1>6. dump \subseteq WholeFiles(files)
  <2>1. \A b \in out'.dump : [blob |-> b, name |-> "sha256", content |-> "whole"] \in files'
    <3>1. PackageComplete'
      BY DEF PackInv
    <3>2. out' # NoPackage /\ out'.files = files /\ files' = files
      BY <1>1, <1>3, NoPackageAssumption
    <3> QED
      BY <3>1, <3>2 DEF PackageComplete
  <2>2. ASSUME NEW b \in dump PROVE b \in WholeFiles(files)
    <3> DEFINE f == [blob |-> b, name |-> "sha256", content |-> "whole"]
    <3>1. f \in files /\ f.name = "sha256" /\ f.content = "whole" /\ f.blob = b
      BY <1>1, <2>1
    <3> QED
      BY <3>1 DEF WholeFiles
  <2> QED
    BY <2>2
<1>7. Shipped # NoPackage => Shipped.database \subseteq csv
  BY <1>1 DEF DeliveryInv, LaterIsMore, Shipped
<1>8. /\ Shipped' \in [log : SUBSET rows, database : SUBSET rows, blobs : SUBSET AbstractStore!Kept]
      /\ Shipped'.log = csv /\ Shipped'.database = dump /\ Shipped'.blobs = WholeFiles(files)
  BY <1>2, <1>4, <1>5
<1> QED
  BY <1>1, <1>2, <1>6, <1>7, <1>8 DEF AbstractStore!Ship

\* A writer's step: the rename is a Put, the commit a Record, the rest is not
\* seen.
LEMMA WriterIsStore ==
    ASSUME StoreInv, StoreInv', NEW w \in Writers, Writer(w)
    PROVE  [AbstractStore!Next]_<< main, rows, Shipped >>
<1>1. UNCHANGED Shipped
  BY RowsGrow DEF Shipped, package
<1>2. CASE PutReplace(w)
  <2>1. /\ putting[w] \in Blobs /\ main[putting[w]] = "absent" /\ part[putting[w]] = "whole"
    BY <1>2 DEF StoreInv, Types, PutsAreNew, PutReplace
  <2>2. AbstractStore!Put(putting[w])
    BY <1>1, <1>2, <2>1 DEF PutReplace, AbstractStore!Put
  <2> QED
    BY <2>1, <2>2 DEF AbstractStore!Next
<1>3. CASE Commit(w)
  <2>1. main' = main /\ rows \subseteq rows'
    BY <1>3 DEF Commit, store
  <2>2. rows' \subseteq AbstractStore!Kept
    BY <2>1 DEF StoreInv, Types, RowsHaveFiles, AbstractStore!Kept
  <2> QED
    BY <1>1, <2>1, <2>2 DEF AbstractStore!Record, AbstractStore!Next
<1>4. CASE Begin(w) \/ PutPresent(w) \/ PutBegin(w) \/ PutWrite(w) \/ Abort(w)
  <2>1. UNCHANGED << main, rows >>
    BY <1>4 DEF Begin, PutPresent, PutBegin, ToPart, PutWrite, Abort, store
  <2> QED
    BY <1>1, <2>1
<1> QED
  BY <1>2, <1>3, <1>4 DEF Writer, put

\* Writers, exports and `verify` together are a ContentStore: each content once
\* kept is kept for ever and whole, what is recorded is kept, and every package
\* agrees with itself and has all that the one before it had.
THEOREM EvidenceIsAContentStore == Spec => ImplementsContentStore
<1>1. Init => AbstractStore!Init /\ DeliveryInv
  BY DEF Init, AbstractStore!Init, Shipped, DeliveryInv, LaterIsMore, PackedIsKept, WholeFiles
<1>2. ASSUME Inv, Inv', DeliveryInv, [Next]_vars
      PROVE  DeliveryInv' /\ [AbstractStore!Next]_<< main, rows, Shipped >>
  <2>1. ASSUME NEW w \in Writers, Writer(w)
        PROVE  DeliveryInv' /\ [AbstractStore!Next]_<< main, rows, Shipped >>
    <3>1. \A b \in WholeFiles(files) : main[b] = "whole" => main'[b] = "whole"
      <4>1. WholeFiles(files) \subseteq Blobs
        BY <1>2 DEF Inv, PackInv, PackTypes, WholeFiles, File
      <4>2. OnlyNewFiles \/ store' = store
        BY <1>2, NextInv
      <4> QED
        BY <4>1, <4>2 DEF OnlyNewFiles, store
    <3> QED
      BY <1>2, <2>1, <3>1, RowsGrow, DeliveryStays, WriterIsStore DEF Inv
  <2>2. CASE Publish
    BY <1>2, <2>2, ExportDelivers, PublishShips DEF Inv, Export, AbstractStore!Next
  <2>3. CASE Export /\ ~ Publish
    <3>1. UNCHANGED << store, rows, out >>
      BY <2>3 DEF Export, _write_log_csv, _dump_sqlite, ListShards, ListShard, _add_stream,
         RecordExport, FailExport, EndExport
    <3> QED
      BY <1>2, <2>3, <3>1, ExportDelivers DEF Inv, store, Shipped
  <2>4. CASE Verify \/ UNCHANGED vars
    <3>1. UNCHANGED << store, rows, package >>
      BY <2>4 DEF Verify, _artifact_hashes, VerifyBlob, vars
    <3> QED
      BY <1>2, <3>1, DeliveryStays DEF store, package, Shipped
  <2> QED
    BY <1>2, <2>1, <2>2, <2>3, <2>4 DEF Next, Export
<1> QED
  BY StoreAndPackage, <1>1, <1>2, PTL
  DEF Spec, ImplementsContentStore, AbstractStore!Spec, AbstractStore!vars
=============================================================================
