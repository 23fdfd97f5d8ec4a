------------------------------ MODULE Catalog ------------------------------
(***************************************************************************)
(* Start-up of the program: Shell::run brings the catalogue of shards (the *)
(* table databases of master.db, construction/MasterDB) in line with the   *)
(* files in db/ and creates shards until there are enough; main then opens *)
(* every shard of the catalogue (DataStorage::initialize).  The process    *)
(* may end at any step, and a call of SQLite may fail at any step: the     *)
(* code logs that and goes on.  Between two runs the user may add and      *)
(* delete shard files and remove master.db, as the shell itself proposes.  *)
(*                                                                         *)
(* A shard file is named by its stem, and a shard's uuid is a stem too:    *)
(* the program creates the shard u as the file u.db.                       *)
(***************************************************************************)
EXTENDS Naturals, Sequences, FiniteSets

CONSTANTS Names,       \* stems and uuids
          Count,       \* numDatabases, the argument of -c
          NoImports,   \* SUBSET BOOLEAN: whether --no-import may be given
          MaxCrashes,  \* bound on the number of ends of the process
          MaxChanges,  \* bound on the changes the user makes to the files
          MaxFailures, \* bound on the failed calls of one start
          None

ASSUME CatalogAssumption ==
  /\ None \notin Names
  /\ Count \in Nat /\ MaxCrashes \in Nat /\ MaxChanges \in Nat /\ MaxFailures \in Nat
  /\ NoImports \subseteq BOOLEAN

VARIABLES
  \* the disk
  files,      \* SUBSET Names: the shard files in db/
  metadata,   \* [Names -> Names \cup {None}]: uuid in the file's table metadata
  databases,  \* the rows of the table databases of master.db, by id
  \* the process
  phase,
  noImport,
  mappedPaths,  \* file_path of all rows when the scan began
  entries,      \* directory entries the scan has still to look at
  missing,      \* rows whose file is not there, still to be recreated
  count,        \* size of mapExisting, then the number of the last shard
  current,      \* uuid of the shard that is being written, or None
  m_data_dbs,   \* shards opened
  \* history
  failed,       \* Calls \X Names: calls that failed in this start
  blind,        \* paths of this catalogue that some scan has not read
  overlooked,   \* number of files and rows that some start has not taken in
  crashes,
  changes     \* by the user, to the files or by --no-import

disk == <<files, metadata, databases>>
process == <<phase, noImport, mappedPaths, entries, missing, count, current, m_data_dbs,
             failed>>
past == <<blind, overlooked, changes>>
vars == <<disk, process, past, crashes>>

DatabaseInfo == [uuid : Names, filePos : Names, status : {"active", "unmapped"}]
Phases == {"down", "scan", "load", "recreate", "recreateMeta", "create", "createMeta",
           "register", "initialize", "serving"}
Calls == {"snapshot", "metadata", "import", "load", "recreate", "create", "register", "open"}

Rows == {databases[i] : i \in DOMAIN databases}
Uuids == {row.uuid : row \in Rows}
Paths == {row.filePos : row \in Rows}

\* What the scan takes for the uuid of a file.
UuidOf(n) == IF metadata[n] # None THEN metadata[n] ELSE n

Init ==
  /\ files = {}
  /\ metadata = [n \in Names |-> None]
  /\ databases = <<>>
  /\ phase = "down" /\ noImport = FALSE
  /\ mappedPaths = {} /\ entries = {} /\ missing = {}
  /\ count = 0 /\ current = None
  /\ m_data_dbs = {}
  /\ failed = {} /\ blind = {} /\ overlooked = 0
  /\ crashes = 0 /\ changes = 0

\* The code's answer to an error of SQLite: a line in the log.
Fail(call, names) ==
  /\ failed' = failed \cup {<<call, n>> : n \in names}
  /\ Cardinality(failed') <= MaxFailures

-----------------------------------------------------------------------------
(* scanAndImportUnmapped *)

\* The query for the paths may fail at the start or stop at any row.
Start(flag, read) ==
  /\ phase = "down"
  /\ read \subseteq Paths /\ (flag => read = Paths)
  /\ noImport' = flag
  /\ phase' = IF flag THEN "load" ELSE "scan"
  /\ mappedPaths' = read
  /\ entries' = files
  /\ Fail("snapshot", Paths \ read)
  /\ blind' = blind \cup (Paths \ read)
  /\ changes' = IF flag THEN changes + 1 ELSE changes
  /\ UNCHANGED <<disk, missing, count, current, m_data_dbs, overlooked, crashes>>

\* Faulty: the table without UNIQUE.
InsertAlways(row) == databases' = Append(databases, row)

\* INSERT [OR IGNORE] of a row; the column uuid is UNIQUE.
Insert(row) ==
  databases' = IF row.uuid \in Uuids THEN databases ELSE Append(databases, row)

\* Goes on with the next file of the directory.
NextEntry(n) ==
  /\ phase = "scan" /\ n \in entries
  /\ entries' = entries \ {n}
  /\ UNCHANGED <<files, metadata, phase, noImport, mappedPaths, missing, count, current,
                 m_data_dbs, blind, crashes, changes>>

\* Faulty: imports files with metadata only.
ImportWithMetadata(n) ==
  /\ NextEntry(n)
  /\ IF n \in mappedPaths \/ metadata[n] = None THEN UNCHANGED databases
     ELSE Insert([uuid |-> UuidOf(n), filePos |-> n, status |-> "unmapped"])
  /\ UNCHANGED <<failed, overlooked>>

\* One file of the directory.
Import(n) ==
  /\ NextEntry(n)
  /\ IF n \in mappedPaths THEN UNCHANGED databases
     ELSE Insert([uuid |-> UuidOf(n), filePos |-> n, status |-> "unmapped"])
  /\ UNCHANGED <<failed, overlooked>>

\* The metadata cannot be read: the stem is taken for the uuid.
ImportByName(n) ==
  /\ NextEntry(n)
  /\ n \notin mappedPaths
  /\ Insert([uuid |-> n, filePos |-> n, status |-> "unmapped"])
  /\ Fail("metadata", {n})
  /\ UNCHANGED overlooked

\* The INSERT fails.
ImportFails(n) ==
  /\ NextEntry(n)
  /\ n \notin mappedPaths
  /\ Fail("import", {n})
  /\ overlooked' = overlooked + 1
  /\ UNCHANGED databases

ScanDone ==
  /\ phase = "scan" /\ entries = {}
  /\ phase' = "load"
  /\ UNCHANGED <<disk, noImport, mappedPaths, entries, missing, count, current,
                 m_data_dbs, failed, past, crashes>>

-----------------------------------------------------------------------------
(* loadExisting, getMissing, recreateMissing *)

\* The rows by id, up to the one at which the query fails.
RowsRead(k) == {databases[i] : i \in 1 .. k}

\* Faulty: counts the shards the program made itself.
LoadActive(k) ==
  /\ phase = "load"
  /\ k \in 0 .. Len(databases)
  /\ count' = Cardinality({row \in RowsRead(k) : row.status = "active"})
  /\ missing' = {row \in RowsRead(k) : row.filePos \notin files}
  /\ Fail("load", {databases[i].uuid : i \in k + 1 .. Len(databases)})
  /\ overlooked' = overlooked + (Len(databases) - k)
  /\ phase' = "recreate"
  /\ UNCHANGED <<disk, noImport, mappedPaths, entries, current, m_data_dbs, blind, crashes,
                 changes>>

Load(k) ==
  /\ phase = "load"
  /\ k \in 0 .. Len(databases)
  /\ count' = k
  /\ missing' = {row \in RowsRead(k) : row.filePos \notin files}
  /\ Fail("load", {databases[i].uuid : i \in k + 1 .. Len(databases)})
  /\ overlooked' = overlooked + (Len(databases) - k)
  /\ phase' = "recreate"
  /\ UNCHANGED <<disk, noImport, mappedPaths, entries, current, m_data_dbs, blind, crashes,
                 changes>>

\* The missing rows are in the order of their ids.
NextMissing(row) ==
  /\ phase = "recreate" /\ row \in missing
  /\ \E i \in DOMAIN databases :
       row = databases[i] /\ \A j \in 1 .. i - 1 : databases[j] \notin missing

\* Faulty: recreates one file and returns.
RecreateFirst(row) ==
  /\ NextMissing(row)
  /\ missing' = {}
  /\ files' = files \cup {row.uuid}
  /\ current' = row.uuid
  /\ phase' = "recreateMeta"
  /\ UNCHANGED <<metadata, databases, noImport, mappedPaths, entries, count, m_data_dbs,
                 failed, past, crashes>>

\* sqlite3_open creates an empty file, or opens the one that is there.  The
\* path is made from the uuid; it need not be filePos.
Recreate(row) ==
  /\ NextMissing(row)
  /\ missing' = missing \ {row}
  /\ files' = files \cup {row.uuid}
  /\ current' = row.uuid
  /\ phase' = "recreateMeta"
  /\ UNCHANGED <<metadata, databases, noImport, mappedPaths, entries, count, m_data_dbs,
                 failed, past, crashes>>

\* The file cannot be opened: the next one.
RecreateFails(row) ==
  /\ NextMissing(row)
  /\ missing' = missing \ {row}
  /\ Fail("recreate", {row.uuid})
  /\ UNCHANGED <<disk, phase, noImport, mappedPaths, entries, count, current, m_data_dbs,
                 past, crashes>>

\* INSERT OR REPLACE: the row with this uuid comes after any other row.  It may
\* fail; the file has no metadata of its own then.
RecreateMeta ==
  /\ phase = "recreateMeta"
  /\ metadata' \in {metadata, [metadata EXCEPT ![current] = IF @ = None THEN current ELSE @]}
  /\ current' = None
  /\ phase' = "recreate"
  /\ UNCHANGED <<files, databases, noImport, mappedPaths, entries, missing, count,
                 m_data_dbs, failed, past, crashes>>

RecreateDone ==
  /\ phase = "recreate" /\ missing = {}
  /\ phase' = "create"
  /\ UNCHANGED <<disk, noImport, mappedPaths, entries, missing, count, current,
                 m_data_dbs, failed, past, crashes>>

-----------------------------------------------------------------------------
(* createNewDatabase, until there are Count shards *)

\* generateUUID: a random uuid that occurs nowhere yet.
Fresh ==
  {u \in Names \ (files \cup Uuids \cup Paths \cup {metadata[n] : n \in Names}) :
     \A call \in Calls : <<call, u>> \notin failed}

Create(u) ==
  /\ phase = "create" /\ count < Count
  /\ u \in Fresh
  /\ count' = count + 1
  /\ files' = files \cup {u}
  /\ current' = u
  /\ phase' = "createMeta"
  /\ UNCHANGED <<metadata, databases, noImport, mappedPaths, entries, missing, m_data_dbs,
                 failed, past, crashes>>

\* The file cannot be opened: Shell::run counts the shard all the same.
CreateFails(u) ==
  /\ phase = "create" /\ count < Count
  /\ u \in Fresh
  /\ count' = count + 1
  /\ Fail("create", {u})
  /\ UNCHANGED <<disk, phase, noImport, mappedPaths, entries, missing, current, m_data_dbs,
                 past, crashes>>

\* The INSERT may fail.
CreateMeta ==
  /\ phase = "createMeta"
  /\ metadata' \in {metadata, [metadata EXCEPT ![current] = current]}
  /\ phase' = "register"
  /\ UNCHANGED <<files, databases, noImport, mappedPaths, entries, missing, count, current,
                 m_data_dbs, failed, past, crashes>>

\* registerDatabase
Register ==
  /\ phase = "register"
  /\ Insert([uuid |-> current, filePos |-> current, status |-> "active"])
  /\ current' = None
  /\ phase' = "create"
  /\ UNCHANGED <<files, metadata, noImport, mappedPaths, entries, missing, count,
                 m_data_dbs, failed, past, crashes>>

\* createNewDatabase does not look at the result of registerDatabase.
RegisterFails ==
  /\ phase = "register"
  /\ Fail("register", {current})
  /\ current' = None
  /\ phase' = "create"
  /\ UNCHANGED <<disk, noImport, mappedPaths, entries, missing, count, m_data_dbs, past,
                 crashes>>

\* Faulty: i < numDatabases for the number of the last shard.
CreateDoneEarly ==
  /\ phase = "create" /\ count + 1 >= Count
  /\ phase' = "initialize"
  /\ UNCHANGED <<disk, noImport, mappedPaths, entries, missing, count, current,
                 m_data_dbs, failed, past, crashes>>

CreateDone ==
  /\ phase = "create" /\ count >= Count
  /\ phase' = "initialize"
  /\ UNCHANGED <<disk, noImport, mappedPaths, entries, missing, count, current,
                 m_data_dbs, failed, past, crashes>>

-----------------------------------------------------------------------------
(* DataStorage::initialize, over the catalogue as main loads it again *)

Tried(p) == p \in m_data_dbs \/ <<"open", p>> \in failed

NextToOpen(row) ==
  /\ phase = "initialize"
  /\ ~ Tried(row.filePos)
  /\ \E i \in DOMAIN databases :
       row = databases[i] /\ \A j \in 1 .. i - 1 : Tried(databases[j].filePos)

\* sqlite3_open, which creates the file if it is not there.
Open(row) ==
  /\ NextToOpen(row)
  /\ files' = files \cup {row.filePos}
  /\ m_data_dbs' = m_data_dbs \cup {row.filePos}
  /\ UNCHANGED <<metadata, databases, phase, noImport, mappedPaths, entries, missing, count,
                 current, failed, past, crashes>>

\* The file cannot be opened, or its row not be loaded: no such shard.
OpenFails(row) ==
  /\ NextToOpen(row)
  /\ Fail("open", {row.filePos})
  /\ UNCHANGED <<disk, phase, noImport, mappedPaths, entries, missing, count, current,
                 m_data_dbs, past, crashes>>

Serve ==
  /\ phase = "initialize"
  /\ \A p \in Paths : Tried(p)
  /\ phase' = "serving"
  /\ UNCHANGED <<disk, noImport, mappedPaths, entries, missing, count, current, m_data_dbs,
                 failed, past, crashes>>

-----------------------------------------------------------------------------
(* The environment *)

\* The process ends, in whatever way.
Crash ==
  /\ phase # "down" /\ crashes < MaxCrashes
  /\ crashes' = crashes + 1
  /\ phase' = "down"
  /\ mappedPaths' = {} /\ entries' = {} /\ missing' = {}
  /\ count' = 0 /\ current' = None /\ m_data_dbs' = {}
  /\ failed' = {}
  /\ UNCHANGED <<disk, noImport, past>>

UserMayChange ==
  /\ phase = "down" /\ changes < MaxChanges
  /\ changes' = changes + 1
  /\ UNCHANGED overlooked

\* Copies a file into db/, under any name, with or without metadata.
AddFile(n, uuid) ==
  /\ UserMayChange
  /\ n \notin files
  /\ files' = files \cup {n}
  /\ metadata' = [metadata EXCEPT ![n] = uuid]
  /\ UNCHANGED <<databases, process, blind, crashes>>

DeleteFiles(gone) ==
  /\ UserMayChange
  /\ gone \subseteq files /\ gone # {}
  /\ files' = files \ gone
  /\ metadata' = [n \in Names |-> IF n \in gone THEN None ELSE metadata[n]]
  /\ UNCHANGED <<databases, process, blind, crashes>>

RemoveMaster ==
  /\ UserMayChange
  /\ databases # <<>>
  /\ databases' = <<>> /\ blind' = {}
  /\ UNCHANGED <<files, metadata, process, crashes>>

-----------------------------------------------------------------------------

Run ==
  \/ \E n \in Names : Import(n) \/ Create(n)
  \/ \E k \in 0 .. Len(databases) : Load(k)
  \/ ScanDone \/ RecreateMeta \/ RecreateDone \/ CreateMeta \/ Register
  \/ CreateDone \/ Serve
  \/ \E row \in Rows : Recreate(row) \/ Open(row)

Failure ==
  \/ \E n \in Names : ImportByName(n) \/ ImportFails(n) \/ CreateFails(n)
  \/ \E row \in Rows : RecreateFails(row) \/ OpenFails(row)
  \/ RegisterFails

User ==
  \/ \E n \in Names, uuid \in Names \cup {None} : AddFile(n, uuid)
  \/ \E gone \in SUBSET files : DeleteFiles(gone)
  \/ RemoveMaster

Next ==
  \/ Run \/ Failure
  \/ \E flag \in NoImports, read \in SUBSET Paths : Start(flag, read)
  \/ User \/ Crash

Spec == Init /\ [][Next]_vars

-----------------------------------------------------------------------------
(* Properties *)

TypeOK ==
  /\ files \subseteq Names
  /\ metadata \in [Names -> Names \cup {None}]
  /\ databases \in Seq(DatabaseInfo)
  /\ phase \in Phases /\ noImport \in BOOLEAN
  /\ mappedPaths \subseteq Names /\ entries \subseteq Names
  /\ missing \subseteq DatabaseInfo
  /\ count \in Nat
  /\ current \in Names \cup {None}
  /\ m_data_dbs \subseteq Names
  /\ failed \subseteq Calls \X Names
  /\ blind \subseteq Names
  /\ overlooked \in Nat

\* No two rows of the catalogue name one uuid or one file, so DataStorage never
\* opens a file twice.  UNIQUE speaks of uuids only: that paths differ rests on
\* the scan's snapshot, as far as the scan could read it, and on the names of
\* new shards.
UniqueRows ==
  \A i, j \in DOMAIN databases :
     i # j => /\ databases[i].uuid # databases[j].uuid
              /\ databases[i].filePos # databases[j].filePos
                 \/ databases[i].filePos \in blind

Failed(calls, n) == \E call \in calls : <<call, n>> \in failed

\* No shard file is lost: once a run with import serves, each file is in the
\* catalogue, or another file is there under its uuid, unless its own import or
\* registration failed in this very start.  So a shard whose creation was cut
\* short or whose registration failed comes back, and so do the shards of a
\* removed master.db.
FilesAdopted ==
  phase = "serving" /\ ~ noImport =>
     \A n \in files : \/ n \in Paths \/ UuidOf(n) \in Uuids
                     \/ Failed({"metadata", "import", "register"}, n)

\* Shards this start has counted and not made.
Lost == {n \in Names : Failed({"create", "register"}, n)}

\* flow.md:23: shards are created and registered until there are -c of them.
\* What fails is counted as made: a start may serve with fewer, but only by the
\* shards that it failed to make itself; what an earlier one lost it makes up.
EnoughShards == phase = "serving" => Len(databases) + Cardinality(Lost) >= Count

\* Left alone, the program makes one shard too many for each file or row that a
\* start could not take in, and no other: a start adopts what an interrupted or
\* half-failed one left before it counts.
NoSurplus == changes = 0 => Len(databases) <= Count + overlooked

\* flow.md:25: mapped files that are missing are recreated.  That holds of the
\* program's own shards; an imported file has its path for a uuid of its own.
\* One that fails does not keep the others from coming back.
OwnShardsPresent ==
  phase \in {"create", "createMeta", "register", "initialize", "serving"} =>
     \A row \in Rows : row.filePos = row.uuid =>
        row.filePos \in files \/ Failed({"load", "recreate"}, row.uuid)
=============================================================================
