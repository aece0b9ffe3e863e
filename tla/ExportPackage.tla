---------------------------- MODULE ExportPackage ----------------------------
(***************************************************************************)
(* The artifact store and what reads it: core/store.py under the writers   *)
(* of ingest/capture_pipeline.py, the evidence package of export.py, and   *)
(* the `verify` command.                                                   *)
(*                                                                         *)
(* A writer puts blobs into the store inside the transaction that records  *)
(* them: each goes into a .part file that is renamed when it is whole.     *)
(* Files do not roll back.  An export reads the log, the database and the  *)
(* store one after the other, with no lock, while writers go on.           *)
(***************************************************************************)
EXTENDS FiniteSets, FiniteSetsExt

CONSTANTS Writers,
          Blobs,         \* contents that are ever stored, named by their hash
          Shards, shard, \* the directory of each blob
          NoBlob,        \* the writer is not inside a put
          NoPackage      \* nothing was exported yet

ASSUME ShardAssumption     == shard \in [Blobs -> Shards]
ASSUME NoBlobAssumption    == NoBlob \notin Blobs

\* "torn" is a file that is written in part.
Contents == {"absent", "torn", "whole"}
File == [blob : Blobs, name : {"sha256", "part"}, content : Contents]
Package == [csv : SUBSET Blobs, dump : SUBSET Blobs, files : SUBSET File]

ASSUME NoPackageAssumption == NoPackage \notin Package

VARIABLES
    main,     \* store/<aa>/<sha256>, for each blob
    part,     \* store/<aa>/<sha256>.part, for each blob
    rows,     \* the blobs artifacts rows and their log entries name, committed
    open,     \* writers inside a transaction, with the write lock
    tx,       \* the rows each of them has added
    putting,  \* the blob each writer is writing
    phase,    \* where the export stands
    csv,      \* the rows in its evidence_log.csv
    dump,     \* the rows in its copy of the database
    shards,   \* directories it has still to list
    queue,    \* listed files it has still to add
    files,    \* files in the package so far
    out,      \* the package at its destination
    checking, \* hashes a `verify` has read and not yet looked at
    missing   \* hashes it has found missing or corrupted

store   == << main, part >>
writing == << open, tx, putting >>
package == << phase, csv, dump, shards, queue, files, out >>
check   == << checking, missing >>
vars    == << store, rows, writing, package, check >>

Phases   == {"idle", "logged", "dumped", "packing", "published"}

Init ==
    /\ main = [b \in Blobs |-> "absent"]
    /\ part = [b \in Blobs |-> "absent"]
    /\ rows = {}
    /\ open = {}
    /\ tx = [w \in Writers |-> {}]
    /\ putting = [w \in Writers |-> NoBlob]
    /\ phase = "idle"
    /\ csv = {} /\ dump = {} /\ shards = {} /\ queue = {} /\ files = {}
    /\ out = NoPackage
    /\ checking = {}
    /\ missing = {}

-----------------------------------------------------------------------------
(***************************************************************************)
(* Writers.                                                                *)
(***************************************************************************)

\* session_scope takes the write lock before it does anything.
Begin(w) ==
    /\ open = {}
    /\ open' = {w}
    /\ UNCHANGED << store, rows, tx, putting, package, check >>

Started(b)        == main[b] # "absent" \/ part[b] # "absent"
AlreadyPresent(b) == main[b] # "absent"

Record(w, b) == tx' = [tx EXCEPT ![w] = @ \cup {b}]

\* An existing file is left untouched.
PutPresent(w) ==
    /\ w \in open
    /\ putting[w] = NoBlob
    /\ \E b \in Blobs : AlreadyPresent(b) /\ Record(w, b)
    /\ UNCHANGED << store, rows, open, putting, package, check >>

InPlace(b) == main' = [main EXCEPT ![b] = "torn"] /\ UNCHANGED part
ToPart(b)  == part' = [part EXCEPT ![b] = "torn"] /\ UNCHANGED main

\* The .part file is opened, over the one a killed writer may have left ...
PutBegin(w) ==
    /\ w \in open
    /\ putting[w] = NoBlob
    /\ \E b \in Blobs :
          /\ ~ AlreadyPresent(b)
          /\ ToPart(b)
          /\ putting' = [putting EXCEPT ![w] = b]
    /\ UNCHANGED << rows, open, tx, package, check >>

\* ... its data is written ...
PutWrite(w) ==
    /\ putting[w] # NoBlob
    /\ part[putting[w]] = "torn"
    /\ part' = [part EXCEPT ![putting[w]] = "whole"]
    /\ UNCHANGED << main, rows, writing, package, check >>

\* ... and it is renamed.
PutReplace(w) ==
    LET b == putting[w]
    IN  /\ b # NoBlob
        /\ part[b] = "whole"
        /\ main' = [main EXCEPT ![b] = part[b]]
        /\ part' = [part EXCEPT ![b] = "absent"]
        /\ Record(w, b)
        /\ putting' = [putting EXCEPT ![w] = NoBlob]
        /\ UNCHANGED << rows, open, package, check >>

KeepRows(w) == UNCHANGED tx
DropRows(w) == tx' = [tx EXCEPT ![w] = {}]

Commit(w) ==
    /\ w \in open
    /\ putting[w] = NoBlob
    /\ rows' = rows \cup tx[w]
    /\ open' = {}
    /\ DropRows(w)
    /\ UNCHANGED << store, putting, package, check >>

\* An exception or the end of the process: the rows roll back, the files stay.
Abort(w) ==
    /\ w \in open
    /\ open' = {}
    /\ DropRows(w)
    /\ putting' = [putting EXCEPT ![w] = NoBlob]
    /\ UNCHANGED << store, rows, package, check >>

-----------------------------------------------------------------------------
(***************************************************************************)
(* The export, into one destination, one at a time.                        *)
(***************************************************************************)

\* One read session: the walk of the chain and the CSV see the same log.
_write_log_csv ==
    /\ phase = "idle"
    /\ csv' = rows
    /\ phase' = "logged"
    /\ UNCHANGED << store, rows, writing, dump, shards, queue, files, out, check >>

_dump_sqlite ==
    /\ phase = "logged"
    /\ dump' = rows
    /\ phase' = "dumped"
    /\ UNCHANGED << store, rows, writing, csv, shards, queue, files, out, check >>

\* iter_blobs lists the directories once ...
ListShards ==
    /\ phase = "dumped"
    /\ shards' = {shard[b] : b \in {c \in Blobs : Started(c)}}
    /\ phase' = "packing"
    /\ UNCHANGED << store, rows, writing, csv, dump, queue, files, out, check >>

\* ... and each directory when it comes to it, .part files and all.
ListShard ==
    /\ phase = "packing"
    /\ queue = {}
    /\ \E s \in shards :
          /\ shards' = shards \ {s}
          /\ queue' = {<< b, "sha256" >> : b \in {c \in Blobs : shard[c] = s /\ main[c] # "absent"}}
                 \cup {<< b, "part" >> : b \in {c \in Blobs : shard[c] = s /\ part[c] # "absent"}}
    /\ UNCHANGED << store, rows, writing, phase, csv, dump, files, out, check >>

ContentOf(f) == IF f[2] = "sha256" THEN main[f[1]] ELSE part[f[1]]

_add_stream ==
    /\ phase = "packing"
    /\ \E f \in queue :
          /\ ContentOf(f) # "absent"
          /\ files' = files \cup {[blob |-> f[1], name |-> f[2], content |-> ContentOf(f)]}
          /\ queue' = queue \ {f}
    /\ UNCHANGED << store, rows, writing, phase, csv, dump, shards, out, check >>

DumpedNow == rows
Dumped    == dump

\* Manifest and timestamp are written and the package moved into place.
Publish ==
    /\ phase = "packing"
    /\ shards = {} /\ queue = {}
    /\ out' = [csv |-> csv, dump |-> Dumped, files |-> files]
    /\ phase' = "published"
    /\ UNCHANGED << store, rows, writing, csv, dump, shards, queue, files, check >>

EndExport ==
    /\ phase' = "idle"
    /\ csv' = {} /\ dump' = {} /\ shards' = {} /\ queue' = {} /\ files' = {}
    /\ UNCHANGED << store, rows, writing, out, check >>

\* The export.created entry, in a transaction that needs the lock.
RecordExport == phase = "published" /\ open = {} /\ EndExport

\* A listed .part is gone when it is opened, or anything else raises or the
\* process is killed: what is at the destination stays.
FailExport == phase # "idle" /\ EndExport

-----------------------------------------------------------------------------
(***************************************************************************)
(* `verify` looks at the file of every hash it has read.                   *)
(***************************************************************************)

_artifact_hashes ==
    /\ checking = {}
    /\ rows # {}
    /\ checking' = rows
    /\ missing' = {}
    /\ UNCHANGED << store, rows, writing, package >>

VerifyBlob ==
    /\ \E b \in checking :
          /\ checking' = checking \ {b}
          /\ missing' = IF main[b] = "whole" THEN missing ELSE missing \cup {b}
    /\ UNCHANGED << store, rows, writing, package >>

put(w) == PutPresent(w) \/ PutBegin(w) \/ PutWrite(w) \/ PutReplace(w)

\* store_artifacts with three blobs, attach_file and timestamp_chain_head with one.
Writer(w) == Begin(w) \/ put(w) \/ Commit(w) \/ Abort(w)

Export == \/ _write_log_csv \/ _dump_sqlite
          \/ ListShards \/ ListShard \/ _add_stream
          \/ Publish \/ RecordExport \/ FailExport

Verify == _artifact_hashes \/ VerifyBlob

Next == (\E w \in Writers : Writer(w)) \/ Export \/ Verify

Spec == Init /\ [][Next]_vars

-----------------------------------------------------------------------------
(***************************************************************************)
(* Properties.                                                             *)
(***************************************************************************)

\* Every variable has its type; only an open transaction has rows of its own.
TypeOK ==
    /\ main \in [Blobs -> Contents]
    /\ part \in [Blobs -> Contents]
    /\ rows \subseteq Blobs
    /\ open \subseteq Writers
    /\ tx \in [Writers -> SUBSET Blobs]
    /\ \A w \in Writers \ open : tx[w] = {}
    /\ putting \in [Writers -> Blobs \cup {NoBlob}]
    /\ phase \in Phases
    /\ csv \subseteq Blobs /\ dump \subseteq Blobs
    /\ shards \subseteq Shards
    /\ queue \subseteq Blobs \X {"sha256", "part"}
    /\ files \subseteq File
    /\ out # NoPackage => out \in Package
    /\ checking \subseteq Blobs /\ missing \subseteq Blobs

\* "Files are never mutated": a file under its own hash is whole from the moment
\* it appears, whatever is killed while it is written, and stays.
FilesNeverMutated ==
    [][ \A b \in Blobs : main'[b] # main[b] => main[b] = "absent" /\ main'[b] = "whole" ]_store

\* A committed row always has its file, with writers that die and others that
\* find what they have left.
RowsHaveFiles == \A b \in rows : main[b] = "whole"

\* A package is complete though its three parts were read at three moments: what
\* its log names its database has, and what its database names is there, whole.
PackageComplete ==
    out # NoPackage =>
        /\ out.csv \subseteq out.dump
        /\ \A b \in out.dump :
              [blob |-> b, name |-> "sha256", content |-> "whole"] \in out.files

\* The blobs of a package: its whole files under their own hashes.
WholeFiles(fs) == {f.blob : f \in {g \in fs : g.name = "sha256" /\ g.content = "whole"}}

Shipped == IF out = NoPackage
           THEN NoPackage
           ELSE [log |-> out.csv, database |-> out.dump, blobs |-> WholeFiles(out.files)]

AbstractStore == INSTANCE ContentStore WITH
    Nothing  <- NoPackage,
    kept     <- main,
    recorded <- rows,
    shipped  <- Shipped

\* Seen from outside, writers that die inside a put or a transaction, and exports
\* that read at three moments among them, only ever keep whole contents, record
\* what is kept, and deliver packages that agree with themselves and of which
\* each has all that the one before it had.
ImplementsContentStore == AbstractStore!Spec

\* `verify` beside any number of writers reports no artifact missing.
NothingReportedMissing == missing = {}
=============================================================================
