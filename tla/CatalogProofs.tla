--------------------------- MODULE CatalogProofs ---------------------------
(***************************************************************************)
(* Theorems about Catalog, for any set of names and number of shards, of   *)
(* crashes, changes and failed calls: types, that no two rows name one     *)
(* uuid or one file, that no file is lost, that there are enough shards    *)
(* and none too many, and that the program's own shards are there, but for *)
(* what the failed calls of the start in progress account for.             *)
(***************************************************************************)
EXTENDS Catalog, FiniteSetTheorems, TLAPS

-----------------------------------------------------------------------------
(* Type correctness *)

LEMMA RowsType ==
  ASSUME databases \in Seq(DatabaseInfo)
  PROVE  /\ Rows \subseteq DatabaseInfo
         /\ Uuids \subseteq Names
         /\ Paths \subseteq Names
         /\ Len(databases) \in Nat
<1>1. Len(databases) \in Nat /\ DOMAIN databases = 1 .. Len(databases)
  OBVIOUS
<1>2. Rows \subseteq DatabaseInfo
  BY <1>1 DEF Rows
<1>3. \A row \in DatabaseInfo : row.uuid \in Names /\ row.filePos \in Names
  BY DEF DatabaseInfo
<1> QED
  BY <1>1, <1>2, <1>3 DEF Uuids, Paths

\* Whatever row is inserted, the column uuid stays unique, and the rows that
\* were there remain.
LEMMA InsertType ==
  ASSUME databases \in Seq(DatabaseInfo), NEW row \in DatabaseInfo, Insert(row)
  PROVE  databases' \in Seq(DatabaseInfo)
  BY DEF Insert

LEMMA UuidOfType ==
  ASSUME metadata \in [Names -> Names \cup {None}], NEW n \in Names
  PROVE  UuidOf(n) \in Names
  BY DEF UuidOf

\* A failed call is noted, and what was noted stays.
LEMMA FailType ==
  ASSUME failed \subseteq Calls \X Names, NEW call \in Calls, NEW names \in SUBSET Names,
         Fail(call, names)
  PROVE  /\ failed' \subseteq Calls \X Names
         /\ failed \subseteq failed'
         /\ \A n \in names : <<call, n>> \in failed'
BY DEF Fail

\* The rows after an insertion are the rows before it and at most the new one,
\* and they stay unique if the new one brings a new path, or one that a scan has
\* not read.
LEMMA InsertUnique ==
  ASSUME databases \in Seq(DatabaseInfo), NEW row \in DatabaseInfo, Insert(row),
         UniqueRows, row.filePos \notin Paths \/ row.filePos \in blind, UNCHANGED blind
  PROVE  /\ UniqueRows'
         /\ Paths' \subseteq Paths \cup {row.filePos}
<1>1. CASE row.uuid \in Uuids
  BY <1>1 DEF Insert, UniqueRows, Paths, Rows
<1>2. CASE row.uuid \notin Uuids
  <2>1. /\ databases' = Append(databases, row)
        /\ DOMAIN databases' = 1 .. Len(databases) + 1
        /\ DOMAIN databases = 1 .. Len(databases)
        /\ Len(databases) \in Nat
    BY <1>2 DEF Insert
  <2>2. \A i \in DOMAIN databases : databases'[i] = databases[i]
    BY <2>1
  <2>3. databases'[Len(databases) + 1] = row
    BY <2>1
  <2>4. \A i \in DOMAIN databases :
           /\ databases[i].uuid # row.uuid
           /\ databases[i].filePos # row.filePos \/ row.filePos \in blind
    BY <1>2 DEF Uuids, Paths, Rows
  <2>5. \A i \in DOMAIN databases' : i \in DOMAIN databases \/ i = Len(databases) + 1
    BY <2>1
  <2>6. UniqueRows'
    BY <2>1, <2>2, <2>3, <2>4, <2>5 DEF UniqueRows
  <2>7. Paths' \subseteq Paths \cup {row.filePos}
    BY <2>2, <2>3, <2>5 DEF Paths, Rows
  <2> QED
    BY <2>6, <2>7
<1> QED
  BY <1>1, <1>2

-----------------------------------------------------------------------------
(* The inductive invariant *)

\* While the scan runs, a file that it has still to look at is in the
\* catalogue only if the snapshot has it or should have it: the rows that came
\* after the snapshot are of files already looked at.
ScanSnapshot ==
  phase = "scan" => \A p \in Paths : p \in entries => p \in mappedPaths \/ p \in blind

\* The shard being created is not in the catalogue yet.
CurrentIsNew ==
  phase \in {"createMeta", "register"} =>
     current \in Names /\ current \notin Uuids \cup Paths

CatalogInv == TypeOK /\ UniqueRows /\ ScanSnapshot /\ CurrentIsNew

LEMMA InitInv == Init => CatalogInv
<1> SUFFICES ASSUME Init PROVE CatalogInv
  OBVIOUS
<1>1. TypeOK
  <2> databases \in Seq(DatabaseInfo)
    BY DEF Init
  <2> QED
    BY DEF Init, TypeOK, Phases
<1>2. UniqueRows
  BY DEF Init, UniqueRows
<1> QED
  BY <1>1, <1>2 DEF Init, CatalogInv, ScanSnapshot, CurrentIsNew

\* A step that leaves the catalogue alone and neither starts a scan nor a
\* shard keeps all but the types.
LEMMA QuietStep ==
  ASSUME CatalogInv, TypeOK', UNCHANGED <<databases, blind>>,
         phase' = "scan" => phase = "scan" /\ UNCHANGED mappedPaths /\ entries' \subseteq entries,
         phase' \in {"createMeta", "register"} =>
            phase \in {"createMeta", "register"} /\ UNCHANGED current
  PROVE  CatalogInv'
BY DEF CatalogInv, UniqueRows, ScanSnapshot, CurrentIsNew, Rows, Uuids, Paths

LEMMA StepInv == CatalogInv /\ [Next]_vars => CatalogInv'
<1> SUFFICES ASSUME CatalogInv, [Next]_vars PROVE CatalogInv'
  OBVIOUS
<1> USE CatalogAssumption DEF past
<1>a. /\ Rows \subseteq DatabaseInfo /\ Uuids \subseteq Names /\ Paths \subseteq Names
      /\ Len(databases) \in Nat /\ failed \subseteq Calls \X Names
  BY RowsType DEF CatalogInv, TypeOK
<1>1. ASSUME NEW flag \in NoImports, NEW read \in SUBSET Paths, Start(flag, read)
      PROVE  CatalogInv'
  <2>1. failed' \subseteq Calls \X Names
    BY <1>a, <1>1, FailType DEF Start, Calls
  <2>2. TypeOK'
    BY <1>a, <1>1, <2>1 DEF Start, CatalogInv, TypeOK, Phases, disk
  <2> QED
    BY <1>1, <2>2 DEF Start, disk, CatalogInv, UniqueRows, ScanSnapshot, CurrentIsNew,
                      Rows, Paths
\* A file is looked at, and a row for it inserted under some uuid.
<1>i. ASSUME NEW n \in Names, NEW row \in DatabaseInfo, row.filePos = n, n \notin mappedPaths,
             NextEntry(n), Insert(row), failed' \subseteq Calls \X Names, UNCHANGED overlooked
      PROVE  CatalogInv'
  <2>1. n \notin Paths \/ n \in blind
    BY <1>i DEF NextEntry, CatalogInv, ScanSnapshot
  <2>2. UniqueRows' /\ Paths' \subseteq Paths \cup {n}
    BY <1>i, <2>1, InsertUnique DEF NextEntry, CatalogInv, TypeOK
  <2>3. databases' \in Seq(DatabaseInfo)
    BY <1>i, InsertType DEF CatalogInv, TypeOK
  <2>4. TypeOK'
    BY <1>i, <2>3 DEF NextEntry, CatalogInv, TypeOK
  <2>5. ScanSnapshot'
    BY <1>i, <2>2 DEF NextEntry, CatalogInv, ScanSnapshot
  <2>6. CurrentIsNew'
    BY <1>i DEF NextEntry, CurrentIsNew
  <2> QED
    BY <2>2, <2>4, <2>5, <2>6 DEF CatalogInv
<1>2. ASSUME NEW n \in Names, Import(n) PROVE CatalogInv'
  <2> DEFINE row == [uuid |-> UuidOf(n), filePos |-> n, status |-> "unmapped"]
  <2>1. row \in DatabaseInfo /\ row.filePos = n
    BY UuidOfType DEF CatalogInv, TypeOK, DatabaseInfo
  <2>2. CASE n \in mappedPaths
    <3>1. TypeOK'
      BY <1>2, <2>2 DEF Import, NextEntry, CatalogInv, TypeOK
    <3> QED
      BY <1>2, <2>2, <3>1, QuietStep DEF Import, NextEntry
  <2>3. CASE n \notin mappedPaths
    <3>1. Insert(row) /\ NextEntry(n) /\ UNCHANGED <<failed, overlooked>>
      BY <1>2, <2>3 DEF Import
    <3> HIDE DEF row
    <3> QED
      BY <1>a, <1>i, <2>1, <2>3, <3>1
  <2> QED
    BY <2>2, <2>3
<1>19. ASSUME NEW n \in Names, ImportByName(n) PROVE CatalogInv'
  <2> DEFINE row == [uuid |-> n, filePos |-> n, status |-> "unmapped"]
  <2>1. row \in DatabaseInfo /\ row.filePos = n
    BY DEF DatabaseInfo
  <2>2. /\ Insert(row) /\ NextEntry(n) /\ n \notin mappedPaths /\ UNCHANGED overlooked
        /\ Fail("metadata", {n})
    BY <1>19 DEF ImportByName
  <2>3. failed' \subseteq Calls \X Names
    BY <1>a, <2>2, FailType DEF Calls
  <2> HIDE DEF row
  <2> QED
    BY <1>i, <2>1, <2>2, <2>3
<1>20. ASSUME NEW n \in Names, ImportFails(n) PROVE CatalogInv'
  <2>1. failed' \subseteq Calls \X Names
    BY <1>a, <1>20, FailType DEF ImportFails, Calls
  <2>2. TypeOK'
    BY <1>20, <2>1 DEF ImportFails, NextEntry, CatalogInv, TypeOK
  <2> QED
    BY <1>20, <2>2, QuietStep DEF ImportFails, NextEntry
<1>21. ASSUME NEW n \in Names, CreateFails(n) PROVE CatalogInv'
  <2>1. failed' \subseteq Calls \X Names
    BY <1>a, <1>21, FailType DEF CreateFails, Calls
  <2>2. TypeOK'
    BY <1>21, <2>1 DEF CreateFails, CatalogInv, TypeOK, disk
  <2> QED
    BY <1>21, <2>2, QuietStep DEF CreateFails, disk
<1>22. ASSUME NEW row \in Rows, RecreateFails(row) PROVE CatalogInv'
  <2>1. row.uuid \in Names
    BY <1>a DEF DatabaseInfo
  <2>2. failed' \subseteq Calls \X Names
    BY <1>a, <1>22, <2>1, FailType DEF RecreateFails, Calls
  <2>3. TypeOK'
    BY <1>22, <2>2 DEF RecreateFails, CatalogInv, TypeOK, disk
  <2> QED
    BY <1>22, <2>3, QuietStep DEF RecreateFails, NextMissing, disk
<1>23. ASSUME NEW row \in Rows, OpenFails(row) PROVE CatalogInv'
  <2>1. row.filePos \in Names
    BY <1>a DEF DatabaseInfo
  <2>2. failed' \subseteq Calls \X Names
    BY <1>a, <1>23, <2>1, FailType DEF OpenFails, Calls
  <2>3. TypeOK'
    BY <1>23, <2>2 DEF OpenFails, CatalogInv, TypeOK, disk
  <2> QED
    BY <1>23, <2>3, QuietStep DEF OpenFails, NextToOpen, disk
<1>24. CASE RegisterFails
  <2>1. phase = "register" /\ current \in Names /\ Fail("register", {current})
    BY <1>24 DEF RegisterFails, CatalogInv, CurrentIsNew
  <2>2. failed' \subseteq Calls \X Names
    BY <1>a, <2>1, FailType DEF Calls
  <2>3. TypeOK'
    BY <1>24, <2>2 DEF RegisterFails, CatalogInv, TypeOK, Phases, disk
  <2> QED
    BY <1>24, <2>3, QuietStep DEF RegisterFails, disk
<1>3. ASSUME NEW n \in Names, Create(n) PROVE CatalogInv'
  <2>1. TypeOK'
    BY <1>3 DEF Create, CatalogInv, TypeOK, Phases
  <2>2. n \notin Uuids \cup Paths
    BY <1>3 DEF Create, Fresh
  <2> QED
    BY <1>3, <2>1, <2>2 DEF Create, CatalogInv, UniqueRows, ScanSnapshot, CurrentIsNew,
                            Rows, Uuids, Paths
<1>4. CASE ScanDone
  BY <1>4, QuietStep DEF ScanDone, CatalogInv, TypeOK, Phases, disk
<1>5. ASSUME NEW k \in 0 .. Len(databases), Load(k) PROVE CatalogInv'
  <2>1. \A i \in DOMAIN databases : databases[i] \in Rows
    BY DEF Rows
  <2>2. /\ 1 .. k \subseteq DOMAIN databases /\ k + 1 .. Len(databases) \subseteq DOMAIN databases
        /\ k \in Nat /\ Len(databases) - k \in Nat
    BY <1>a DEF CatalogInv, TypeOK
  <2>3. {databases[i].uuid : i \in k + 1 .. Len(databases)} \subseteq Names
    BY <1>a, <2>1, <2>2 DEF DatabaseInfo
  <2>4. failed' \subseteq Calls \X Names
    BY <1>a, <1>5, <2>3, FailType DEF Load, Calls
  <2>5. missing' \subseteq DatabaseInfo
    BY <1>a, <1>5, <2>1, <2>2 DEF Load, RowsRead
  <2>6. overlooked' \in Nat
    BY <1>5, <2>2 DEF Load, CatalogInv, TypeOK
  <2>7. TypeOK'
    BY <1>5, <2>2, <2>4, <2>5, <2>6 DEF Load, CatalogInv, TypeOK, Phases, disk
  <2> QED
    BY <1>5, <2>7, QuietStep DEF Load, disk
<1>6. CASE RecreateMeta
  <2>1. metadata' \in [Names -> Names \cup {None}]
    BY <1>6 DEF RecreateMeta, CatalogInv, TypeOK
  <2>2. TypeOK'
    BY <1>6, <2>1 DEF RecreateMeta, CatalogInv, TypeOK, Phases
  <2> QED
    BY <1>6, <2>2, QuietStep DEF RecreateMeta
<1>7. CASE RecreateDone
  BY <1>7, QuietStep DEF RecreateDone, CatalogInv, TypeOK, Phases, disk
<1>8. CASE CreateMeta
  <2>1. TypeOK'
    BY <1>8 DEF CreateMeta, CatalogInv, TypeOK, Phases
  <2> QED
    BY <1>8, <2>1, QuietStep DEF CreateMeta
<1>9. CASE CreateDone
  BY <1>9, QuietStep DEF CreateDone, CatalogInv, TypeOK, Phases, disk
<1>10. CASE Serve
  BY <1>10, QuietStep DEF Serve, CatalogInv, TypeOK, Phases, disk
<1>11. ASSUME NEW row \in Rows, Recreate(row) PROVE CatalogInv'
  <2>1. row.uuid \in Names
    BY <1>a DEF DatabaseInfo
  <2>2. TypeOK'
    BY <1>11, <2>1 DEF Recreate, CatalogInv, TypeOK, Phases
  <2> QED
    BY <1>11, <2>2, QuietStep DEF Recreate
<1>12. ASSUME NEW row \in Rows, Open(row) PROVE CatalogInv'
  <2>1. row.filePos \in Names
    BY <1>a DEF DatabaseInfo
  <2>2. TypeOK'
    BY <1>12, <2>1 DEF Open, CatalogInv, TypeOK
  <2> QED
    BY <1>12, <2>2, QuietStep DEF Open, NextToOpen
<1>13. CASE Crash
  BY <1>13, QuietStep DEF Crash, CatalogInv, TypeOK, Phases, disk
<1>14. ASSUME NEW n \in Names, NEW u \in Names \cup {None}, AddFile(n, u) PROVE CatalogInv'
  <2>1. TypeOK'
    BY <1>14 DEF AddFile, UserMayChange, CatalogInv, TypeOK, process
  <2> QED
    BY <1>14, <2>1, QuietStep DEF AddFile, UserMayChange, process
<1>15. ASSUME NEW gone \in SUBSET files, DeleteFiles(gone) PROVE CatalogInv'
  <2>1. TypeOK'
    BY <1>15 DEF DeleteFiles, UserMayChange, CatalogInv, TypeOK, process
  <2> QED
    BY <1>15, <2>1, QuietStep DEF DeleteFiles, UserMayChange, process
<1>16. CASE RemoveMaster
  <2>1. databases' = << >> /\ databases' \in Seq(DatabaseInfo)
    BY <1>16 DEF RemoveMaster
  <2>2. TypeOK'
    BY <1>16, <2>1 DEF RemoveMaster, UserMayChange, CatalogInv, TypeOK, process
  <2>3. UniqueRows'
    BY <2>1 DEF UniqueRows
  <2>4. phase' = "down"
    BY <1>16 DEF RemoveMaster, UserMayChange, process
  <2> QED
    BY <2>2, <2>3, <2>4 DEF CatalogInv, ScanSnapshot, CurrentIsNew
<1>17. CASE Register
  <2> DEFINE row == [uuid |-> current, filePos |-> current, status |-> "active"]
  <2>1. row \in DatabaseInfo /\ row.filePos \notin Paths
    BY <1>17 DEF Register, CatalogInv, CurrentIsNew, DatabaseInfo
  <2>2. Insert(row)
    BY <1>17 DEF Register
  <2> HIDE DEF row
  <2>3. UniqueRows'
    <3>1. UNCHANGED blind
      BY <1>17 DEF Register
    <3> QED
      BY <2>1, <2>2, <3>1, InsertUnique DEF CatalogInv, TypeOK
  <2>4. databases' \in Seq(DatabaseInfo)
    BY <2>1, <2>2, InsertType DEF CatalogInv, TypeOK
  <2>5. TypeOK'
    BY <1>17, <2>4 DEF Register, CatalogInv, TypeOK, Phases
  <2> QED
    BY <1>17, <2>3, <2>5 DEF Register, CatalogInv, ScanSnapshot, CurrentIsNew
<1>18. CASE UNCHANGED vars
  <2>1. TypeOK'
    BY <1>18 DEF vars, disk, process, CatalogInv, TypeOK
  <2> QED
    BY <1>18, <2>1, QuietStep DEF vars, disk, process
<1> QED
  BY <1>1, <1>2, <1>3, <1>4, <1>5, <1>6, <1>7, <1>8, <1>9, <1>10, <1>11, <1>12, <1>13,
     <1>14, <1>15, <1>16, <1>17, <1>18, <1>19, <1>20, <1>21, <1>22, <1>23, <1>24
  DEF Next, Run, Failure, User

LEMMA InvHolds == Spec => []CatalogInv
BY InitInv, StepInv, PTL DEF Spec

-----------------------------------------------------------------------------

\* The state has values of the intended kinds; a row always has a uuid.
THEOREM TypeCorrect == Spec => []TypeOK
<1>1. CatalogInv => TypeOK
  BY DEF CatalogInv
<1> QED
  BY InvHolds, <1>1, PTL

\* No two rows of the catalogue name one uuid or one file, whatever the user
\* does to db/ and wherever starts are cut short.
THEOREM RowsUnique == Spec => []UniqueRows
<1>1. CatalogInv => UniqueRows
  BY DEF CatalogInv
<1> QED
  BY InvHolds, <1>1, PTL

-----------------------------------------------------------------------------
(* Nothing is lost and nothing is missing *)

Adopted(n) ==
  n \in Paths \/ UuidOf(n) \in Uuids \/ Failed({"metadata", "import", "register"}, n)

\* Once the scan has looked at a file the catalogue knows it, but for the
\* shard that is being created.
AdoptedSoFar ==
  ~ noImport =>
     /\ phase = "scan" => \A n \in files \ entries : Adopted(n)
     /\ phase \in {"createMeta", "register"} => \A n \in files \ {current} : Adopted(n)
     /\ phase \in {"load", "recreate", "recreateMeta", "create", "initialize", "serving"} =>
           \A n \in files : Adopted(n)

\* A file that is not there has no metadata, the one being created only its own.
Metadata ==
  /\ \A n \in Names : n \notin files => metadata[n] = None
  /\ phase = "scan" => mappedPaths \subseteq Paths
  /\ phase \in {"recreateMeta", "createMeta", "register"} => current \in files
  /\ phase \in {"createMeta", "register"} => metadata[current] \in {None, current}

\* The counter of the loop that creates shards never runs ahead of the rows
\* and the lost shards by more than the shard in the making.
CountCovered ==
  /\ IsFiniteSet(Lost)
  /\ phase \in {"recreate", "recreateMeta", "create"} =>
        count <= Len(databases) + Cardinality(Lost)
  /\ phase \in {"createMeta", "register"} =>
        count <= Len(databases) + Cardinality(Lost) + 1 /\ current \notin Lost
  /\ phase \in {"initialize", "serving"} => Count <= Len(databases) + Cardinality(Lost)

AdoptInv == AdoptedSoFar /\ Metadata /\ CountCovered

\* An insertion keeps the rows there are; afterwards the uuid is known, and
\* there is one row more if it was not.
LEMMA InsertGrows ==
  ASSUME databases \in Seq(DatabaseInfo), NEW row \in DatabaseInfo, Insert(row)
  PROVE  /\ Paths \subseteq Paths' /\ Uuids \subseteq Uuids'
         /\ row.uuid \in Uuids'
         /\ Len(databases) \in Nat /\ Len(databases) <= Len(databases')
         /\ row.uuid \notin Uuids => /\ row.filePos \in Paths'
                                     /\ Len(databases') = Len(databases) + 1
<1>1. CASE row.uuid \in Uuids
  BY <1>1 DEF Insert, Uuids, Paths, Rows
<1>2. CASE row.uuid \notin Uuids
  <2>1. /\ databases' = Append(databases, row)
        /\ DOMAIN databases' = 1 .. Len(databases) + 1
        /\ DOMAIN databases = 1 .. Len(databases)
        /\ Len(databases) \in Nat
        /\ Len(databases') = Len(databases) + 1
    BY <1>2 DEF Insert
  <2>2. \A i \in DOMAIN databases : databases'[i] = databases[i] /\ i \in DOMAIN databases'
    BY <2>1
  <2>3. databases'[Len(databases) + 1] = row /\ Len(databases) + 1 \in DOMAIN databases'
    BY <2>1
  <2>4. Rows \subseteq Rows' /\ row \in Rows'
    BY <2>2, <2>3 DEF Rows
  <2>5. /\ Paths \subseteq Paths' /\ Uuids \subseteq Uuids'
        /\ row.uuid \in Uuids' /\ row.filePos \in Paths'
    BY <2>4 DEF Paths, Uuids
  <2> QED
    BY <2>1, <2>5
<1> QED
  BY <1>1, <1>2

LEMMA InitAdopt == Init => AdoptInv
<1> SUFFICES ASSUME Init PROVE AdoptInv
  OBVIOUS
<1>1. Lost = {}
  BY DEF Init, Lost, Failed
<1> QED
  BY <1>1, FS_EmptySet DEF Init, AdoptInv, AdoptedSoFar, Metadata, CountCovered

\* A step on the process alone that leaves the disk as it is and forgets no
\* failure.
LEMMA DiskStays ==
  ASSUME UNCHANGED disk, failed \subseteq failed'
  PROVE  /\ Rows' = Rows /\ Paths' = Paths /\ Uuids' = Uuids
         /\ \A n : UuidOf(n)' = UuidOf(n) /\ (Adopted(n) => Adopted(n)')
BY DEF disk, Rows, Paths, Uuids, UuidOf, Adopted, Failed

\* The failures that lose a shard are those of creation and registration.
LEMMA LostStays ==
  ASSUME NEW call \in Calls \ {"create", "register"}, NEW names, Fail(call, names)
  PROVE  Lost' = Lost
BY DEF Fail, Lost, Failed

LEMMA LostSame == UNCHANGED failed => Lost' = Lost
BY DEF Lost, Failed

LEMMA LostOne ==
  ASSUME NEW call \in {"create", "register"}, NEW n \in Names, Fail(call, {n}),
         IsFiniteSet(Lost), n \notin Lost
  PROVE  /\ IsFiniteSet(Lost') /\ Lost' = Lost \cup {n}
         /\ Cardinality(Lost') = Cardinality(Lost) + 1
<1>1. Lost' = Lost \cup {n}
  BY DEF Fail, Lost, Failed
<1> QED
  BY <1>1, FS_AddElement

LEMMA StepAdopt == CatalogInv /\ AdoptInv /\ [Next]_vars => AdoptInv'
<1> SUFFICES ASSUME CatalogInv, AdoptInv, [Next]_vars PROVE AdoptInv'
  OBVIOUS
<1> USE CatalogAssumption DEF past
<1>a. /\ Rows \subseteq DatabaseInfo /\ Uuids \subseteq Names /\ Paths \subseteq Names
      /\ Len(databases) \in Nat /\ count \in Nat /\ failed \subseteq Calls \X Names
  BY RowsType DEF CatalogInv, TypeOK
<1>b. IsFiniteSet(Lost) /\ Cardinality(Lost) \in Nat
  BY FS_CardinalityType DEF AdoptInv, CountCovered
\* A failure that leaves the disk, the phase and the counter as they are.
<1>f. ASSUME NEW call \in Calls \ {"create", "register"}, NEW names \in SUBSET Names,
             Fail(call, names), UNCHANGED <<disk, noImport, phase, mappedPaths, count, current>>,
             phase # "scan"
      PROVE  AdoptInv'
  <2>1. Lost' = Lost /\ failed \subseteq failed'
    BY <1>f, LostStays DEF Fail
  <2>2. AdoptedSoFar'
    BY <1>f, <2>1, DiskStays DEF disk, AdoptInv, AdoptedSoFar
  <2> QED
    BY <1>f, <2>1, <2>2 DEF disk, AdoptInv, Metadata, CountCovered
<1>1. ASSUME NEW flag \in NoImports, NEW read \in SUBSET Paths, Start(flag, read)
      PROVE  AdoptInv'
  <2>1. Lost' = Lost /\ failed \subseteq failed'
    BY <1>1, LostStays DEF Start, Calls, Fail
  <2>2. AdoptedSoFar'
    BY <1>1 DEF Start, disk, AdoptedSoFar
  <2>3. Metadata'
    BY <1>1, <2>1, DiskStays DEF Start, disk, AdoptInv, Metadata
  <2> QED
    BY <1>1, <1>b, <2>1, <2>2, <2>3 DEF Start, AdoptInv, CountCovered
\* A file is looked at and adopted, or its adoption fails.
<1>i. ASSUME NEW n \in Names, NextEntry(n), Paths \subseteq Paths', Uuids \subseteq Uuids',
             failed \subseteq failed', Adopted(n)', Lost' = Lost
      PROVE  AdoptInv'
  <2>1. /\ phase = "scan" /\ phase' = "scan" /\ n \in entries
        /\ entries' = entries \ {n}
        /\ UNCHANGED <<files, metadata, noImport, mappedPaths>>
    BY <1>i DEF NextEntry
  <2>2. \A m : Adopted(m) => Adopted(m)'
    BY <1>i, <2>1 DEF Adopted, UuidOf, Failed
  <2>3. AdoptedSoFar'
    BY <1>i, <2>1, <2>2 DEF AdoptInv, AdoptedSoFar
  <2>4. Metadata'
    BY <1>i, <2>1 DEF AdoptInv, Metadata
  <2> QED
    BY <1>i, <2>1, <2>3, <2>4 DEF AdoptInv, CountCovered
<1>2. ASSUME NEW n \in Names, Import(n) PROVE AdoptInv'
  <2>1. NextEntry(n) /\ UNCHANGED failed
    BY <1>2 DEF Import
  <2>2. Lost' = Lost /\ failed \subseteq failed'
    BY <2>1, LostSame
  <2>3. CASE n \in mappedPaths
    <3>1. UNCHANGED databases
      BY <1>2, <2>3 DEF Import
    <3>2. Paths' = Paths /\ Uuids' = Uuids
      BY <3>1 DEF Paths, Uuids, Rows
    <3>3. n \in Paths
      BY <2>1, <2>3 DEF NextEntry, AdoptInv, Metadata
    <3>4. Adopted(n)'
      BY <3>2, <3>3 DEF Adopted
    <3> QED
      BY <1>i, <2>1, <2>2, <3>2, <3>4
  <2>4. CASE n \notin mappedPaths
    <3> DEFINE row == [uuid |-> UuidOf(n), filePos |-> n, status |-> "unmapped"]
    <3>1. row \in DatabaseInfo /\ row.uuid = UuidOf(n)
      BY UuidOfType DEF CatalogInv, TypeOK, DatabaseInfo
    <3>2. Insert(row)
      BY <1>2, <2>4 DEF Import
    <3> HIDE DEF row
    <3>3. Paths \subseteq Paths' /\ Uuids \subseteq Uuids' /\ UuidOf(n) \in Uuids'
      BY <3>1, <3>2, InsertGrows DEF CatalogInv, TypeOK
    <3>4. Adopted(n)'
      BY <2>1, <3>3 DEF Adopted, NextEntry, UuidOf
    <3> QED
      BY <1>i, <2>1, <2>2, <3>3, <3>4
  <2> QED
    BY <2>3, <2>4
<1>19. ASSUME NEW n \in Names, ImportByName(n) PROVE AdoptInv'
  <2> DEFINE row == [uuid |-> n, filePos |-> n, status |-> "unmapped"]
  <2>1. NextEntry(n) /\ Fail("metadata", {n}) /\ Insert(row)
    BY <1>19 DEF ImportByName
  <2>2. row \in DatabaseInfo
    BY DEF DatabaseInfo
  <2> HIDE DEF row
  <2>3. Paths \subseteq Paths' /\ Uuids \subseteq Uuids'
    BY <2>1, <2>2, InsertGrows DEF CatalogInv, TypeOK
  <2>4. Lost' = Lost /\ failed \subseteq failed' /\ <<"metadata", n>> \in failed'
    BY <2>1, LostStays DEF Fail, Calls
  <2>5. Adopted(n)'
    BY <2>4 DEF Adopted, Failed
  <2> QED
    BY <1>i, <2>1, <2>3, <2>4, <2>5
<1>20. ASSUME NEW n \in Names, ImportFails(n) PROVE AdoptInv'
  <2>1. NextEntry(n) /\ Fail("import", {n}) /\ UNCHANGED databases
    BY <1>20 DEF ImportFails
  <2>2. Paths' = Paths /\ Uuids' = Uuids
    BY <2>1 DEF Paths, Uuids, Rows
  <2>3. Lost' = Lost /\ failed \subseteq failed' /\ <<"import", n>> \in failed'
    BY <2>1, LostStays DEF Fail, Calls
  <2>4. Adopted(n)'
    BY <2>3 DEF Adopted, Failed
  <2> QED
    BY <1>i, <2>1, <2>2, <2>3, <2>4
<1>21. ASSUME NEW n \in Names, CreateFails(n) PROVE AdoptInv'
  <2>1. /\ phase = "create" /\ n \in Fresh /\ count' = count + 1 /\ Fail("create", {n})
        /\ UNCHANGED <<disk, phase, noImport>>
    BY <1>21 DEF CreateFails
  <2>2. n \notin Lost /\ failed \subseteq failed'
    BY <2>1 DEF Fresh, Lost, Failed, Calls, Fail
  <2>3. IsFiniteSet(Lost') /\ Cardinality(Lost') = Cardinality(Lost) + 1
    BY <1>b, <2>1, <2>2, LostOne
  <2>4. AdoptedSoFar'
    BY <2>1, <2>2, DiskStays DEF disk, AdoptInv, AdoptedSoFar
  <2>5. Metadata'
    BY <2>1 DEF disk, AdoptInv, Metadata
  <2>6. count' <= Len(databases) + Cardinality(Lost')
    BY <1>a, <1>b, <2>1, <2>3 DEF AdoptInv, CountCovered
  <2> QED
    BY <2>1, <2>3, <2>4, <2>5, <2>6 DEF disk, AdoptInv, CountCovered
<1>22. ASSUME NEW row \in Rows, RecreateFails(row) PROVE AdoptInv'
  <2>1. row.uuid \in Names
    BY <1>a DEF DatabaseInfo
  <2> QED
    BY <1>22, <1>f, <2>1 DEF RecreateFails, NextMissing, Calls
<1>23. ASSUME NEW row \in Rows, OpenFails(row) PROVE AdoptInv'
  <2>1. row.filePos \in Names
    BY <1>a DEF DatabaseInfo
  <2> QED
    BY <1>23, <1>f, <2>1 DEF OpenFails, NextToOpen, Calls
<1>24. CASE RegisterFails
  <2>1. /\ phase = "register" /\ phase' = "create" /\ Fail("register", {current})
        /\ UNCHANGED <<disk, noImport, count>> /\ current \in Names /\ current \notin Lost
    BY <1>24 DEF RegisterFails, CatalogInv, CurrentIsNew, AdoptInv, CountCovered
  <2>2. failed \subseteq failed' /\ <<"register", current>> \in failed'
    BY <2>1 DEF Fail
  <2>3. IsFiniteSet(Lost') /\ Cardinality(Lost') = Cardinality(Lost) + 1
    BY <1>b, <2>1, LostOne
  <2>4. \A n : n = current => Adopted(n)'
    BY <2>2 DEF Adopted, Failed
  <2>5. \A n : Adopted(n) => Adopted(n)'
    BY <2>1, <2>2, DiskStays
  <2>6. AdoptedSoFar'
    BY <2>1, <2>4, <2>5 DEF disk, AdoptInv, AdoptedSoFar
  <2>7. Metadata'
    BY <2>1 DEF disk, AdoptInv, Metadata
  <2>8. count' <= Len(databases) + Cardinality(Lost')
    BY <1>a, <1>b, <2>1, <2>3 DEF AdoptInv, CountCovered
  <2> QED
    BY <2>1, <2>3, <2>6, <2>7, <2>8 DEF disk, AdoptInv, CountCovered
<1>3. ASSUME NEW n \in Names, Create(n) PROVE AdoptInv'
  <2>1. /\ n \notin files /\ metadata[n] = None
        /\ phase = "create" /\ phase' = "createMeta" /\ files' = files \cup {n}
        /\ current' = n /\ count' = count + 1
        /\ UNCHANGED <<metadata, databases, noImport, failed>>
    BY <1>3 DEF Create, Fresh, AdoptInv, Metadata
  <2>5. n \notin Lost /\ Lost' = Lost
    BY <1>3, <2>1, LostSame DEF Create, Fresh, Lost, Failed, Calls
  <2>2. AdoptedSoFar'
    BY <2>1 DEF AdoptInv, AdoptedSoFar, Adopted, UuidOf, Paths, Uuids, Rows, Failed
  <2>3. Metadata'
    BY <2>1 DEF AdoptInv, Metadata
  <2>4. CountCovered'
    BY <1>a, <1>b, <2>1, <2>5 DEF AdoptInv, CountCovered
  <2> QED
    BY <2>2, <2>3, <2>4 DEF AdoptInv
<1>4. CASE ScanDone
  <2>1. AdoptedSoFar'
    BY <1>4, DiskStays DEF ScanDone, disk, AdoptInv, AdoptedSoFar
  <2> QED
    BY <1>4, <2>1, LostSame DEF ScanDone, disk, AdoptInv, Metadata, CountCovered
<1>5. ASSUME NEW k \in 0 .. Len(databases), Load(k) PROVE AdoptInv'
  <2>1. Lost' = Lost /\ failed \subseteq failed'
    BY <1>5, LostStays DEF Load, Calls, Fail
  <2>2. AdoptedSoFar'
    BY <1>5, <2>1, DiskStays DEF Load, disk, AdoptInv, AdoptedSoFar
  <2>3. CountCovered'
    BY <1>5, <1>a, <1>b, <2>1 DEF Load, disk, CountCovered
  <2> QED
    BY <1>5, <2>2, <2>3 DEF Load, disk, AdoptInv, Metadata
<1>6. CASE RecreateMeta
  <2>1. /\ phase = "recreateMeta" /\ phase' = "recreate"
        /\ UNCHANGED <<files, databases, noImport, count, failed>>
        /\ metadata' \in {metadata,
                          [metadata EXCEPT ![current] = IF @ = None THEN current ELSE @]}
    BY <1>6 DEF RecreateMeta
  <2>2. metadata \in [Names -> Names \cup {None}] /\ files \subseteq Names
    BY DEF CatalogInv, TypeOK
  <2>3. current \in files /\ current \in Names
    BY <2>1, <2>2 DEF AdoptInv, Metadata
  <2>5. \A n \in Names : UuidOf(n)' = UuidOf(n)
    BY <2>1, <2>2, <2>3 DEF UuidOf
  <2>6. AdoptedSoFar'
    BY <2>1, <2>2, <2>5 DEF AdoptInv, AdoptedSoFar, Adopted, Paths, Uuids, Rows, Failed
  <2>7. Metadata'
    BY <2>1, <2>2, <2>3 DEF AdoptInv, Metadata
  <2> QED
    BY <2>1, <2>6, <2>7, LostSame DEF AdoptInv, CountCovered
<1>7. CASE RecreateDone
  <2>1. AdoptedSoFar'
    BY <1>7, DiskStays DEF RecreateDone, disk, AdoptInv, AdoptedSoFar
  <2> QED
    BY <1>7, <2>1, LostSame DEF RecreateDone, disk, AdoptInv, Metadata, CountCovered
<1>8. CASE CreateMeta
  <2>1. /\ phase = "createMeta" /\ phase' = "register" /\ current \in files
        /\ UNCHANGED <<files, databases, noImport, count, current, failed>>
        /\ metadata' \in {metadata, [metadata EXCEPT ![current] = current]}
    BY <1>8 DEF CreateMeta, AdoptInv, Metadata
  <2>2. metadata \in [Names -> Names \cup {None}] /\ files \subseteq Names
    BY DEF CatalogInv, TypeOK
  <2>3. \A n \in Names \ {current} : UuidOf(n)' = UuidOf(n)
    BY <2>1, <2>2 DEF UuidOf
  <2>4. AdoptedSoFar'
    BY <2>1, <2>2, <2>3 DEF AdoptInv, AdoptedSoFar, Adopted, Paths, Uuids, Rows, Failed
  <2>5. Metadata'
    BY <2>1, <2>2 DEF AdoptInv, Metadata
  <2> QED
    BY <2>1, <2>4, <2>5, LostSame DEF AdoptInv, CountCovered
<1>9. CASE CreateDone
  <2>1. AdoptedSoFar'
    BY <1>9, DiskStays DEF CreateDone, disk, AdoptInv, AdoptedSoFar
  <2>2. CountCovered'
    BY <1>9, <1>a, <1>b, LostSame DEF CreateDone, disk, AdoptInv, CountCovered
  <2> QED
    BY <1>9, <2>1, <2>2 DEF CreateDone, disk, AdoptInv, Metadata
<1>10. CASE Serve
  <2>1. AdoptedSoFar'
    BY <1>10, DiskStays DEF Serve, disk, AdoptInv, AdoptedSoFar
  <2> QED
    BY <1>10, <2>1, LostSame DEF Serve, disk, AdoptInv, Metadata, CountCovered
<1>11. ASSUME NEW row \in Rows, Recreate(row) PROVE AdoptInv'
  <2>1. /\ phase = "recreate" /\ phase' = "recreateMeta"
        /\ files' = files \cup {row.uuid} /\ current' = row.uuid
        /\ UNCHANGED <<metadata, databases, noImport, count, failed>>
    BY <1>11 DEF Recreate, NextMissing
  <2>2. row.uuid \in Names /\ row.uuid \in Uuids
    BY <1>a DEF DatabaseInfo, Uuids
  <2>3. row.uuid \notin files => UuidOf(row.uuid) = row.uuid
    BY <2>2 DEF AdoptInv, Metadata, UuidOf
  <2>4. AdoptedSoFar'
    BY <2>1, <2>2, <2>3 DEF AdoptInv, AdoptedSoFar, Adopted, UuidOf, Paths, Uuids, Rows,
                            Failed
  <2>5. Metadata'
    BY <2>1, <2>2 DEF AdoptInv, Metadata
  <2> QED
    BY <2>1, <2>4, <2>5, LostSame DEF AdoptInv, CountCovered
<1>12. ASSUME NEW row \in Rows, Open(row) PROVE AdoptInv'
  <2>1. /\ phase = "initialize" /\ phase' = "initialize"
        /\ files' = files \cup {row.filePos}
        /\ UNCHANGED <<metadata, databases, noImport, count, failed>>
    BY <1>12 DEF Open, NextToOpen
  <2>2. row.filePos \in Paths
    BY DEF Paths
  <2>3. AdoptedSoFar'
    BY <2>1, <2>2 DEF AdoptInv, AdoptedSoFar, Adopted, UuidOf, Paths, Uuids, Rows, Failed
  <2>4. Metadata'
    BY <2>1 DEF AdoptInv, Metadata
  <2> QED
    BY <2>1, <2>3, <2>4, LostSame DEF AdoptInv, CountCovered
<1>13. CASE Crash
  <2>1. Lost' = {}
    BY <1>13 DEF Crash, Lost, Failed
  <2> QED
    BY <1>13, <2>1, FS_EmptySet DEF Crash, disk, AdoptInv, AdoptedSoFar, Metadata, CountCovered
<1>14. ASSUME NEW n \in Names, NEW u \in Names \cup {None}, AddFile(n, u) PROVE AdoptInv'
  <2>1. metadata \in [Names -> Names \cup {None}]
    BY DEF CatalogInv, TypeOK
  <2> QED
    BY <1>14, <2>1, LostSame DEF AddFile, UserMayChange, process, AdoptInv, AdoptedSoFar, Metadata,
                       CountCovered
<1>15. ASSUME NEW gone \in SUBSET files, DeleteFiles(gone) PROVE AdoptInv'
  <2>1. metadata \in [Names -> Names \cup {None}]
    BY DEF CatalogInv, TypeOK
  <2> QED
    BY <1>15, <2>1, LostSame DEF DeleteFiles, UserMayChange, process, AdoptInv, AdoptedSoFar, Metadata,
                       CountCovered
<1>16. CASE RemoveMaster
  BY <1>16, LostSame DEF RemoveMaster, UserMayChange, process, AdoptInv, AdoptedSoFar, Metadata,
               CountCovered
<1>17. CASE Register
  <2> DEFINE row == [uuid |-> current, filePos |-> current, status |-> "active"]
  <2>1. /\ phase = "register" /\ phase' = "create"
        /\ current \in Names /\ current \notin Uuids
        /\ UNCHANGED <<files, metadata, noImport, count, failed>>
    BY <1>17 DEF Register, CatalogInv, CurrentIsNew
  <2>2. row \in DatabaseInfo /\ row.uuid = current /\ row.filePos = current
    BY <2>1 DEF DatabaseInfo
  <2>3. Insert(row)
    BY <1>17 DEF Register
  <2> HIDE DEF row
  <2>4. /\ Paths \subseteq Paths' /\ Uuids \subseteq Uuids' /\ current \in Paths'
        /\ Len(databases') = Len(databases) + 1
    BY <2>1, <2>2, <2>3, InsertGrows DEF CatalogInv, TypeOK
  <2>5. AdoptedSoFar'
    BY <2>1, <2>4 DEF AdoptInv, AdoptedSoFar, Adopted, UuidOf, Failed
  <2>6. Metadata'
    BY <2>1 DEF AdoptInv, Metadata
  <2>7. CountCovered'
    BY <1>a, <1>b, <2>1, <2>4, LostSame DEF AdoptInv, CountCovered
  <2> QED
    BY <2>5, <2>6, <2>7 DEF AdoptInv
<1>18. CASE UNCHANGED vars
  BY <1>18, LostSame DEF vars, disk, process, AdoptInv, AdoptedSoFar, Adopted, UuidOf,
                         Metadata, CountCovered, Rows, Paths, Uuids, Failed
<1> QED
  BY <1>1, <1>2, <1>3, <1>4, <1>5, <1>6, <1>7, <1>8, <1>9, <1>10, <1>11, <1>12, <1>13,
     <1>14, <1>15, <1>16, <1>17, <1>18, <1>19, <1>20, <1>21, <1>22, <1>23, <1>24
  DEF Next, Run, Failure, User

LEMMA AdoptHolds == Spec => []AdoptInv
BY InitAdopt, InvHolds, StepAdopt, PTL DEF Spec

\* A run with import that serves has lost no shard file, whatever was cut
\* short, failed or was copied into db/ before, but for a file whose own import
\* or registration failed in this start.
THEOREM NoFileLost == Spec => []FilesAdopted
<1>1. AdoptInv => FilesAdopted
  BY DEF AdoptInv, AdoptedSoFar, FilesAdopted, Adopted
<1> QED
  BY AdoptHolds, <1>1, PTL

\* A run that serves has the number of shards that was asked for, or is short
\* of it by shards that this very start failed to create or to register.
THEOREM ShardsEnough == Spec => []EnoughShards
<1>1. CatalogInv /\ AdoptInv => EnoughShards
  <2>1. CatalogInv /\ AdoptInv => Len(databases) \in Nat /\ Cardinality(Lost) \in Nat
    BY RowsType, FS_CardinalityType DEF CatalogInv, TypeOK, AdoptInv, CountCovered
  <2> QED
    BY <2>1, CatalogAssumption DEF AdoptInv, CountCovered, EnoughShards
<1> QED
  BY InvHolds, AdoptHolds, <1>1, PTL

-----------------------------------------------------------------------------
(* The program's own shards are there *)

Settled == {"create", "createMeta", "register", "initialize", "serving"}

Absent(u) == Failed({"load", "recreate"}, u)

\* While files are recreated, a shard of the program has its file or waits
\* for it, unless a call for it has failed.
PresentInv ==
  /\ phase \in {"recreate", "recreateMeta"} =>
        \A row \in Rows : row.filePos = row.uuid =>
           row.filePos \in files \/ row \in missing \/ Absent(row.uuid)
  /\ OwnShardsPresent

\* The rows after an insertion are the rows before it and at most the new one.
LEMMA InsertRows ==
  ASSUME databases \in Seq(DatabaseInfo), NEW row \in DatabaseInfo, Insert(row)
  PROVE  Rows' \subseteq Rows \cup {row}
<1>1. CASE row.uuid \in Uuids
  BY <1>1 DEF Insert, Rows
<1>2. CASE row.uuid \notin Uuids
  <2>1. /\ databases' = Append(databases, row)
        /\ DOMAIN databases' = 1 .. Len(databases) + 1
        /\ DOMAIN databases = 1 .. Len(databases)
        /\ Len(databases) \in Nat
    BY <1>2 DEF Insert
  <2>2. \A i \in DOMAIN databases : databases'[i] = databases[i]
    BY <2>1
  <2>3. databases'[Len(databases) + 1] = row
    BY <2>1
  <2>4. \A i \in DOMAIN databases' : i \in DOMAIN databases \/ i = Len(databases) + 1
    BY <2>1
  <2> QED
    BY <2>2, <2>3, <2>4 DEF Rows
<1> QED
  BY <1>1, <1>2

\* A step that keeps rows, files and failures, and takes a row from the missing
\* only when its file is made or cannot be.
LEMMA PresentStays ==
  ASSUME PresentInv, UNCHANGED databases, files \subseteq files', failed \subseteq failed',
         phase' \in {"recreate", "recreateMeta"} =>
            /\ phase \in {"recreate", "recreateMeta"}
            /\ \A row \in missing : row \in missing' \/ row.uuid \in files' \/ Absent(row.uuid)',
         phase' \in Settled =>
            phase \in Settled \/ (phase = "recreate" /\ missing = {})
  PROVE  PresentInv'
<1>1. Rows' = Rows
  BY DEF Rows
<1>2. \A u : Absent(u) => Absent(u)'
  BY DEF Absent, Failed
<1>3. OwnShardsPresent'
  BY <1>1, <1>2 DEF PresentInv, OwnShardsPresent, Settled, Absent
<1> QED
  BY <1>1, <1>2, <1>3 DEF PresentInv

LEMMA StepPresent == CatalogInv /\ AdoptInv /\ PresentInv /\ [Next]_vars => PresentInv'
<1> SUFFICES ASSUME CatalogInv, AdoptInv, PresentInv, [Next]_vars PROVE PresentInv'
  OBVIOUS
<1>1. ASSUME NEW flag \in NoImports, NEW read \in SUBSET Paths, Start(flag, read)
      PROVE  PresentInv'
  BY <1>1 DEF Start, PresentInv, OwnShardsPresent
<1>2. ASSUME NEW n \in Names, Import(n) \/ ImportByName(n) \/ ImportFails(n)
      PROVE  PresentInv'
  BY <1>2 DEF Import, ImportByName, ImportFails, NextEntry, PresentInv, OwnShardsPresent
<1>3. ASSUME NEW n \in Names, Create(n) PROVE PresentInv'
  BY <1>3, PresentStays DEF Create, Settled
<1>4. CASE ScanDone
  BY <1>4 DEF ScanDone, PresentInv, OwnShardsPresent
<1>5. ASSUME NEW k \in 0 .. Len(databases), Load(k) PROVE PresentInv'
  <2>1. /\ UNCHANGED <<databases, files>> /\ phase' = "recreate"
        /\ missing' = {row \in RowsRead(k) : row.filePos \notin files}
        /\ Fail("load", {databases[i].uuid : i \in k + 1 .. Len(databases)})
    BY <1>5 DEF Load, disk
  <2>2. ASSUME NEW i \in DOMAIN databases PROVE i \in 1 .. k \/ i \in k + 1 .. Len(databases)
    BY DEF CatalogInv, TypeOK
  <2>3. ASSUME NEW row \in Rows PROVE row \in RowsRead(k) \/ <<"load", row.uuid>> \in failed'
    BY <2>1, <2>2 DEF Rows, RowsRead, Fail
  <2>4. Rows' = Rows
    BY <2>1 DEF Rows
  <2>5. \A row \in Rows : row.filePos = row.uuid =>
           row.filePos \in files \/ row \in missing' \/ <<"load", row.uuid>> \in failed'
    BY <2>1, <2>3
  <2> QED
    BY <2>1, <2>4, <2>5 DEF PresentInv, OwnShardsPresent, Absent, Failed
<1>17. ASSUME NEW n \in Names, CreateFails(n) PROVE PresentInv'
  BY <1>17, PresentStays DEF CreateFails, disk, Settled, Fail
<1>18. ASSUME NEW row \in Rows, RecreateFails(row) PROVE PresentInv'
  <2>1. /\ phase = "recreate" /\ phase' = "recreate" /\ UNCHANGED <<databases, files>>
        /\ missing' = missing \ {row} /\ failed \subseteq failed'
        /\ <<"recreate", row.uuid>> \in failed'
    BY <1>18 DEF RecreateFails, NextMissing, disk, Fail
  <2>2. \A r \in missing : r \in missing' \/ Absent(r.uuid)'
    BY <2>1 DEF Absent, Failed
  <2> QED
    BY <2>1, <2>2, PresentStays DEF Settled
<1>19. ASSUME NEW row \in Rows, OpenFails(row) PROVE PresentInv'
  BY <1>19, PresentStays DEF OpenFails, NextToOpen, disk, Settled, Fail
<1>20. CASE RegisterFails
  BY <1>20, PresentStays DEF RegisterFails, disk, Settled, Fail
<1>6. CASE RecreateMeta
  BY <1>6, PresentStays DEF RecreateMeta, Settled
<1>7. CASE RecreateDone
  BY <1>7, PresentStays DEF RecreateDone, disk, Settled
<1>8. CASE CreateMeta
  BY <1>8, PresentStays DEF CreateMeta, Settled
<1>9. CASE CreateDone
  BY <1>9, PresentStays DEF CreateDone, disk, Settled
<1>10. CASE Serve
  BY <1>10, PresentStays DEF Serve, disk, Settled
<1>11. ASSUME NEW row \in Rows, Recreate(row) PROVE PresentInv'
  BY <1>11, PresentStays DEF Recreate, NextMissing, Settled
<1>12. ASSUME NEW row \in Rows, Open(row) PROVE PresentInv'
  BY <1>12, PresentStays DEF Open, NextToOpen, Settled
<1>13. CASE Crash
  BY <1>13 DEF Crash, PresentInv, OwnShardsPresent
<1>14. CASE User
  BY <1>14 DEF User, DeleteFiles, AddFile, RemoveMaster, UserMayChange, process, PresentInv,
               OwnShardsPresent
<1>15. CASE Register
  <2> DEFINE row == [uuid |-> current, filePos |-> current, status |-> "active"]
  <2>1. /\ phase = "register" /\ phase' = "create" /\ UNCHANGED <<files, failed>>
        /\ current \in Names /\ current \in files
    BY <1>15 DEF Register, CatalogInv, CurrentIsNew, AdoptInv, Metadata
  <2>2. row \in DatabaseInfo /\ row.filePos = current
    BY <2>1 DEF DatabaseInfo
  <2>3. Insert(row)
    BY <1>15 DEF Register
  <2> HIDE DEF row
  <2>4. Rows' \subseteq Rows \cup {row}
    BY <2>2, <2>3, InsertRows DEF CatalogInv, TypeOK
  <2>5. \A u : Absent(u)' = Absent(u)
    BY <2>1 DEF Absent, Failed
  <2>6. \A r \in Rows' : r.filePos = r.uuid => r.filePos \in files' \/ Absent(r.uuid)'
    BY <2>1, <2>2, <2>4, <2>5 DEF PresentInv, OwnShardsPresent, Absent
  <2> QED
    BY <2>1, <2>6 DEF PresentInv, OwnShardsPresent, Absent
<1>16. CASE UNCHANGED vars
  BY <1>16, PresentStays DEF vars, disk, process, Settled
<1> QED
  BY <1>1, <1>2, <1>3, <1>4, <1>5, <1>6, <1>7, <1>8, <1>9, <1>10, <1>11, <1>12, <1>13,
     <1>14, <1>15, <1>16, <1>17, <1>18, <1>19, <1>20 DEF Next, Run, Failure

\* Once missing files are recreated, every shard the program made is there,
\* whichever files the user deleted while the program was down, but for one
\* that this start could not load or recreate itself.
THEOREM OwnShardsThere == Spec => []OwnShardsPresent
<1>1. Init => PresentInv
  BY DEF Init, PresentInv, OwnShardsPresent
<1>2. PresentInv => OwnShardsPresent
  BY DEF PresentInv
<1> QED
  BY InvHolds, AdoptHolds, StepPresent, <1>1, <1>2, PTL DEF Spec

-----------------------------------------------------------------------------
(* No surplus, as long as nobody interferes *)

\* Every file and every row bears the name of its shard.
OwnNames ==
  /\ ~ noImport
  /\ \A row \in Rows : row.filePos = row.uuid
  /\ \A n \in Names : metadata[n] \in {None, n}
  /\ phase = "scan" => entries \subseteq files

\* Files whose import failed in this start.
Skipped == {n \in Names : <<"import", n>> \in failed}

\* Files and rows together are never more than Count and what was overlooked:
\* when the rows are counted every file has a row or was skipped, and from then
\* on the counter covers both.
Bounded ==
  /\ IsFiniteSet(Paths) /\ Cardinality(Paths) = Len(databases)
  /\ IsFiniteSet(Skipped) /\ Cardinality(Skipped) <= overlooked
  /\ IsFiniteSet(files \cup Paths) /\ Cardinality(files \cup Paths) <= Count + overlooked
  /\ phase = "scan" => files \ entries \subseteq Paths \cup Skipped
  /\ phase = "load" => files \subseteq Paths \cup Skipped
  /\ phase \in {"recreate", "recreateMeta", "create", "createMeta", "register"} =>
        Cardinality(files \cup Paths) <= count + overlooked

SurplusInv == changes \in Nat /\ (changes = 0 => OwnNames /\ Bounded)

LEMMA OwnPaths == OwnNames => Paths = Uuids
BY DEF OwnNames, Paths, Uuids

\* A row under its own name adds one path and one row, or nothing.
LEMMA InsertOwn ==
  ASSUME databases \in Seq(DatabaseInfo), NEW row \in DatabaseInfo, Insert(row),
         row.filePos = row.uuid, \A r \in Rows : r.filePos = r.uuid,
         IsFiniteSet(Paths), Cardinality(Paths) = Len(databases)
  PROVE  /\ \A r \in Rows' : r.filePos = r.uuid
         /\ Paths' = Paths \cup {row.uuid}
         /\ IsFiniteSet(Paths') /\ Cardinality(Paths') = Len(databases')
<1>1. Paths = Uuids
  BY DEF Paths, Uuids
<1>2. Rows' \subseteq Rows \cup {row}
  BY InsertRows
<1>3. \A r \in Rows' : r.filePos = r.uuid
  BY <1>2
<1>4. Paths' = Paths \cup {row.uuid}
  <2>1. Paths' \subseteq Paths \cup {row.uuid}
    BY <1>2 DEF Paths
  <2>2. Paths \subseteq Paths' /\ row.uuid \in Uuids'
    BY InsertGrows
  <2>3. Uuids' = Paths'
    BY <1>3 DEF Paths, Uuids
  <2> QED
    BY <2>1, <2>2, <2>3
<1>5. /\ IsFiniteSet(Paths \cup {row.uuid})
      /\ Cardinality(Paths \cup {row.uuid}) =
            IF row.uuid \in Paths THEN Cardinality(Paths) ELSE Cardinality(Paths) + 1
  BY FS_AddElement
<1>6. CASE row.uuid \in Uuids
  BY <1>1, <1>3, <1>4, <1>5, <1>6 DEF Insert
<1>7. CASE row.uuid \notin Uuids
  <2>1. Len(databases') = Len(databases) + 1
    BY <1>7, InsertGrows
  <2> QED
    BY <1>1, <1>3, <1>4, <1>5, <1>7, <2>1
<1> QED
  BY <1>6, <1>7

\* A step that keeps the rows and makes no file but those of rows.
LEMMA SurplusStays ==
  ASSUME SurplusInv, changes = 0, UNCHANGED <<databases, changes, noImport, overlooked>>,
         files' \cup Paths = files \cup Paths,
         \A n \in Names : metadata'[n] \in {None, n},
         IsFiniteSet(Skipped'), Cardinality(Skipped') <= overlooked,
         phase' = "scan" => entries' \subseteq files' /\ files' \ entries' \subseteq Paths \cup Skipped',
         phase' = "load" => files' \subseteq Paths \cup Skipped',
         phase' \in {"recreate", "recreateMeta", "create", "createMeta", "register"} =>
            Cardinality(files \cup Paths) <= count' + overlooked
  PROVE  SurplusInv'
<1>1. Rows' = Rows /\ Paths' = Paths
  BY DEF Rows, Paths
<1>2. OwnNames'
  BY <1>1 DEF SurplusInv, OwnNames
<1>3. Bounded'
  BY <1>1 DEF SurplusInv, Bounded
<1> QED
  BY <1>2, <1>3 DEF SurplusInv

LEMMA SkippedStays ==
  ASSUME NEW call \in Calls \ {"import"}, NEW names, Fail(call, names)
  PROVE  Skipped' = Skipped
BY DEF Fail, Skipped

LEMMA SkippedSame == UNCHANGED failed => Skipped' = Skipped
BY DEF Skipped

LEMMA InitSurplus == Init => SurplusInv
<1> SUFFICES ASSUME Init PROVE SurplusInv
  OBVIOUS
<1>1. /\ databases = << >> /\ files = {} /\ changes = 0 /\ noImport = FALSE
      /\ phase = "down" /\ metadata = [n \in Names |-> None] /\ overlooked = 0
      /\ failed = {}
  BY DEF Init
<1>2. Rows = {} /\ Paths = {} /\ Len(databases) = 0 /\ Skipped = {}
  BY <1>1 DEF Rows, Paths, Skipped
<1>3. Bounded
  BY <1>1, <1>2, FS_EmptySet, CatalogAssumption DEF Bounded
<1>4. OwnNames
  BY <1>1, <1>2 DEF OwnNames
<1> QED
  BY <1>1, <1>3, <1>4 DEF SurplusInv

LEMMA StepSurplus == CatalogInv /\ AdoptInv /\ SurplusInv /\ [Next]_vars => SurplusInv'
<1> SUFFICES ASSUME CatalogInv, AdoptInv, SurplusInv, [Next]_vars PROVE SurplusInv'
  OBVIOUS
<1> USE CatalogAssumption DEF past
<1>a. /\ Rows \subseteq DatabaseInfo /\ Paths \subseteq Names /\ Len(databases) \in Nat
      /\ databases \in Seq(DatabaseInfo) /\ count \in Nat /\ files \subseteq Names
      /\ metadata \in [Names -> Names \cup {None}] /\ overlooked \in Nat
  BY RowsType DEF CatalogInv, TypeOK
<1>b. changes \in Nat
  BY DEF SurplusInv
<1>c. CASE changes # 0
  <2>1. changes' \in {changes, changes + 1}
    BY DEF Next, Run, Failure, User, vars, disk, process, Start, NextEntry, Import, ImportByName,
           ImportFails, ScanDone, Load, Recreate, RecreateFails, RecreateMeta, RecreateDone,
           Create, CreateFails, CreateMeta, Register, RegisterFails, CreateDone, Open, OpenFails,
           Serve, Crash, UserMayChange, AddFile, DeleteFiles, RemoveMaster
  <2> QED
    BY <1>b, <1>c, <2>1 DEF SurplusInv
<1>d. CASE changes = 0
  <2> USE <1>d
  <2>a. OwnNames /\ Bounded
    BY DEF SurplusInv
  <2>b. \A n \in Names : metadata[n] \in {None, n}
    BY <2>a DEF OwnNames
  <2>c. /\ IsFiniteSet(Skipped) /\ Cardinality(Skipped) <= overlooked
        /\ Cardinality(Skipped) \in Nat
        /\ IsFiniteSet(files \cup Paths) /\ Cardinality(files \cup Paths) \in Nat
        /\ Cardinality(files \cup Paths) <= Count + overlooked
    BY <2>a, FS_CardinalityType DEF Bounded
  <2>1. ASSUME NEW flag \in NoImports, NEW read \in SUBSET Paths, Start(flag, read)
        PROVE  SurplusInv'
    <3>1. CASE flag
      <4>1. changes' = changes + 1
        BY <2>1, <3>1 DEF Start
      <4> QED
        BY <4>1 DEF SurplusInv
    <3>2. CASE ~ flag
      <4>1. flag = FALSE /\ noImport = FALSE
        BY <3>2, <2>a DEF OwnNames, CatalogInv, TypeOK
      <4>2. /\ UNCHANGED <<files, metadata, databases, changes, overlooked>>
            /\ noImport' = noImport /\ entries' = files /\ phase' = "scan"
        BY <2>1, <4>1 DEF Start, disk
      <4>3. Skipped' = Skipped
        BY <2>1, SkippedStays DEF Start, Calls
      <4> QED
        BY <4>2, <4>3, <2>b, <2>c, SurplusStays
    <3> QED
      BY <3>1, <3>2
  \* A row under the file's own name.
  <2>i. ASSUME NEW n \in Names, NextEntry(n), UNCHANGED overlooked, Skipped' = Skipped,
               Insert([uuid |-> n, filePos |-> n, status |-> "unmapped"])
        PROVE  SurplusInv'
    <3> DEFINE row == [uuid |-> n, filePos |-> n, status |-> "unmapped"]
    <3>1. /\ phase = "scan" /\ phase' = "scan" /\ entries' = entries \ {n} /\ n \in files
          /\ entries \subseteq files /\ UNCHANGED <<files, metadata, noImport, changes>>
      BY <2>i, <2>a DEF NextEntry, OwnNames
    <3>2. row \in DatabaseInfo /\ row.uuid = n /\ row.filePos = n
      BY DEF DatabaseInfo
    <3>3. Insert(row)
      BY <2>i
    <3> HIDE DEF row
    <3>4. /\ \A r \in Rows' : r.filePos = r.uuid
          /\ Paths' = Paths \cup {n}
          /\ IsFiniteSet(Paths') /\ Cardinality(Paths') = Len(databases')
      BY <1>a, <2>a, <3>2, <3>3, InsertOwn DEF OwnNames, Bounded
    <3>5. files' \cup Paths' = files \cup Paths
      BY <3>1, <3>4
    <3>6. OwnNames'
      BY <3>1, <3>4, <2>a DEF OwnNames
    <3>7. files' \ entries' \subseteq Paths' \cup Skipped'
      BY <2>i, <3>1, <3>4, <2>a DEF Bounded
    <3>8. Bounded'
      BY <2>i, <3>1, <3>4, <3>5, <3>7, <2>c DEF Bounded
    <3> QED
      BY <1>b, <3>1, <3>6, <3>8 DEF SurplusInv
  <2>2. ASSUME NEW n \in Names, Import(n) PROVE SurplusInv'
    <3>1. NextEntry(n) /\ UNCHANGED <<failed, overlooked>>
      BY <2>2 DEF Import
    <3>2. Skipped' = Skipped
      BY <3>1, SkippedSame
    <3>3. CASE n \in mappedPaths
      <4>1. /\ phase = "scan" /\ phase' = "scan" /\ entries' = entries \ {n}
            /\ UNCHANGED <<databases, files, metadata, noImport, changes>> /\ n \in Paths
        BY <2>2, <3>1, <3>3 DEF Import, NextEntry, AdoptInv, Metadata
      <4>2. /\ entries' \subseteq files'
            /\ files' \ entries' \subseteq Paths \cup Skipped'
        BY <3>2, <4>1, <2>a DEF OwnNames, Bounded
      <4> QED
        BY <3>1, <3>2, <4>1, <4>2, <2>b, <2>c, SurplusStays
    <3>4. CASE n \notin mappedPaths
      <4>1. UuidOf(n) = n
        BY <2>b DEF UuidOf
      <4>2. Insert([uuid |-> n, filePos |-> n, status |-> "unmapped"])
        BY <2>2, <3>4, <4>1 DEF Import
      <4> QED
        BY <2>i, <3>1, <3>2, <4>2
    <3> QED
      BY <3>3, <3>4
  <2>17. ASSUME NEW n \in Names, ImportByName(n) PROVE SurplusInv'
    <3>1. /\ NextEntry(n) /\ UNCHANGED overlooked /\ Fail("metadata", {n})
          /\ Insert([uuid |-> n, filePos |-> n, status |-> "unmapped"])
      BY <2>17 DEF ImportByName
    <3>2. Skipped' = Skipped
      BY <3>1, SkippedStays DEF Calls
    <3> QED
      BY <2>i, <3>1, <3>2
  <2>18. ASSUME NEW n \in Names, ImportFails(n) PROVE SurplusInv'
    <3>1. /\ phase = "scan" /\ phase' = "scan" /\ entries' = entries \ {n}
          /\ UNCHANGED <<databases, files, metadata, noImport, changes>>
          /\ overlooked' = overlooked + 1 /\ Fail("import", {n})
      BY <2>18 DEF ImportFails, NextEntry
    <3>2. Skipped' = Skipped \cup {n}
      BY <3>1 DEF Fail, Skipped
    <3>3. IsFiniteSet(Skipped') /\ Cardinality(Skipped') <= Cardinality(Skipped) + 1
      <4>1. /\ IsFiniteSet(Skipped \cup {n})
            /\ Cardinality(Skipped \cup {n}) =
                 IF n \in Skipped THEN Cardinality(Skipped) ELSE Cardinality(Skipped) + 1
        BY <2>c, FS_AddElement
      <4>2. IsFiniteSet(Skipped')
        BY <3>2, <4>1, Zenon
      <4>3. Cardinality(Skipped') = Cardinality(Skipped \cup {n})
        BY <3>2, Zenon
      <4> QED
        BY <2>c, <4>1, <4>2, <4>3
    <3>4. Cardinality(Skipped') \in Nat
      BY <3>3, FS_CardinalityType
    <3>5. Cardinality(Skipped') <= overlooked'
      BY <1>a, <2>c, <3>1, <3>3, <3>4
    <3>6. Rows' = Rows /\ Paths' = Paths
      BY <3>1 DEF Rows, Paths
    <3>7. OwnNames'
      BY <3>1, <3>6, <2>a DEF OwnNames
    <3>8. files' \ entries' \subseteq Paths' \cup Skipped'
      BY <3>1, <3>2, <3>6, <2>a DEF Bounded
    <3>9. Cardinality(files' \cup Paths') <= Count + overlooked'
      BY <1>a, <2>c, <3>1, <3>6
    <3>10. Bounded'
      BY <3>1, <3>3, <3>5, <3>6, <3>8, <3>9, <2>a DEF Bounded
    <3> QED
      BY <1>b, <3>1, <3>7, <3>10 DEF SurplusInv
  <2>3. ASSUME NEW n \in Names, Create(n) PROVE SurplusInv'
    <3>1. /\ phase = "create" /\ phase' = "createMeta" /\ count < Count
          /\ files' = files \cup {n} /\ count' = count + 1 /\ n \notin files \cup Paths
          /\ UNCHANGED <<metadata, databases, noImport, changes, failed, overlooked>>
      BY <2>3 DEF Create, Fresh
    <3>2. Rows' = Rows /\ Paths' = Paths /\ Skipped' = Skipped
      BY <3>1, SkippedSame DEF Rows, Paths
    <3>3. files' \cup Paths' = (files \cup Paths) \cup {n}
      BY <3>1, <3>2
    <3>4. /\ IsFiniteSet(files' \cup Paths')
          /\ Cardinality(files' \cup Paths') = Cardinality(files \cup Paths) + 1
      BY <2>c, <3>1, <3>3, FS_AddElement
    <3>5. Cardinality(files \cup Paths) <= count + overlooked
      BY <2>a, <3>1 DEF Bounded
    <3>6. /\ Cardinality(files' \cup Paths') <= count' + overlooked'
          /\ Cardinality(files' \cup Paths') <= Count + overlooked'
      BY <1>a, <2>c, <3>1, <3>4, <3>5
    <3>7. Bounded'
      BY <3>1, <3>2, <3>4, <3>6, <2>a DEF Bounded
    <3>8. OwnNames'
      BY <3>1, <3>2, <2>a DEF OwnNames
    <3> QED
      BY <1>b, <3>1, <3>7, <3>8 DEF SurplusInv
  <2>19. ASSUME NEW n \in Names, CreateFails(n) PROVE SurplusInv'
    <3>1. /\ phase = "create" /\ phase' = "create" /\ count' = count + 1
          /\ UNCHANGED <<files, metadata, databases, noImport, changes, overlooked>>
      BY <2>19 DEF CreateFails, disk
    <3>2. Skipped' = Skipped
      BY <2>19, SkippedStays DEF CreateFails, Calls
    <3>3. Cardinality(files \cup Paths) <= count + overlooked
      BY <2>a, <3>1 DEF Bounded
    <3>4. Cardinality(files \cup Paths) <= count' + overlooked
      BY <1>a, <2>c, <3>1, <3>3
    <3> QED
      BY <3>1, <3>2, <3>4, <2>b, <2>c, SurplusStays
  <2>4. CASE ScanDone
    <3>1. /\ phase = "scan" /\ phase' = "load" /\ entries = {}
          /\ UNCHANGED <<files, metadata, databases, noImport, changes, overlooked, failed>>
      BY <2>4 DEF ScanDone, disk
    <3>2. Skipped' = Skipped /\ files' \subseteq Paths \cup Skipped'
      BY <3>1, <2>a, SkippedSame DEF Bounded
    <3> QED
      BY <3>1, <3>2, <2>b, <2>c, SurplusStays
  <2>5. ASSUME NEW k \in 0 .. Len(databases), Load(k) PROVE SurplusInv'
    <3>1. /\ phase = "load" /\ phase' = "recreate" /\ count' = k
          /\ overlooked' = overlooked + (Len(databases) - k)
          /\ UNCHANGED <<files, metadata, databases, noImport, changes>>
      BY <2>5 DEF Load, disk
    <3>2. Skipped' = Skipped
      BY <2>5, SkippedStays DEF Load, Calls
    <3>3. Rows' = Rows /\ Paths' = Paths
      BY <3>1 DEF Rows, Paths
    <3>4. files \cup Paths \subseteq Paths \cup Skipped
      BY <3>1, <2>a DEF Bounded
    <3>5. /\ IsFiniteSet(Paths) /\ Cardinality(Paths) = Len(databases)
      BY <2>a DEF Bounded
    <3>6. /\ IsFiniteSet(Paths \cup Skipped)
          /\ Cardinality(Paths \cup Skipped) <= Cardinality(Paths) + Cardinality(Skipped)
      <4>1. /\ IsFiniteSet(Paths \cup Skipped)
            /\ Cardinality(Paths \cup Skipped) =
                  Cardinality(Paths) + Cardinality(Skipped) - Cardinality(Paths \cap Skipped)
        BY <2>c, <3>5, FS_Union
      <4>2. Cardinality(Paths \cap Skipped) \in Nat
        <5>1. IsFiniteSet(Paths \cap Skipped)
          BY <3>5, FS_Intersection
        <5> QED
          BY <5>1, FS_CardinalityType
      <4> QED
        BY <1>a, <2>c, <3>5, <4>1, <4>2
    <3>7. /\ Cardinality(files \cup Paths) <= Cardinality(Paths \cup Skipped)
          /\ Cardinality(Paths \cup Skipped) \in Nat
      BY <3>4, <3>6, FS_Subset, FS_CardinalityType
    <3>8. k \in Nat /\ k <= Len(databases)
      BY <1>a
    <3>9. /\ Cardinality(files \cup Paths) <= count' + overlooked'
          /\ Cardinality(files \cup Paths) <= Count + overlooked'
          /\ Cardinality(Skipped) <= overlooked'
      BY <1>a, <2>c, <3>1, <3>5, <3>6, <3>7, <3>8
    <3>10. Bounded'
      BY <3>1, <3>2, <3>3, <3>5, <3>9, <2>c DEF Bounded
    <3>11. OwnNames'
      BY <3>1, <3>3, <2>a DEF OwnNames
    <3> QED
      BY <1>b, <3>1, <3>10, <3>11 DEF SurplusInv
  <2>6. CASE RecreateMeta
    <3>1. \A m \in Names : metadata'[m] \in {None, m}
      BY <2>6, <2>b, <1>a DEF RecreateMeta
    <3>2. Skipped' = Skipped
      BY <2>6, SkippedSame DEF RecreateMeta
    <3> QED
      BY <2>6, <2>a, <2>c, <3>1, <3>2, SurplusStays DEF RecreateMeta, Bounded
  <2>7. CASE RecreateDone
    <3>1. Skipped' = Skipped
      BY <2>7, SkippedSame DEF RecreateDone
    <3> QED
      BY <2>7, <2>a, <2>b, <2>c, <3>1, SurplusStays DEF RecreateDone, disk, Bounded
  <2>8. CASE CreateMeta
    <3>1. \A m \in Names : metadata'[m] \in {None, m}
      BY <2>8, <2>b, <1>a DEF CreateMeta
    <3>2. Skipped' = Skipped
      BY <2>8, SkippedSame DEF CreateMeta
    <3> QED
      BY <2>8, <2>a, <2>c, <3>1, <3>2, SurplusStays DEF CreateMeta, Bounded
  <2>9. CASE CreateDone
    <3>1. Skipped' = Skipped
      BY <2>9, SkippedSame DEF CreateDone
    <3> QED
      BY <2>9, <2>b, <2>c, <3>1, SurplusStays DEF CreateDone, disk
  <2>10. CASE Serve
    <3>1. Skipped' = Skipped
      BY <2>10, SkippedSame DEF Serve
    <3> QED
      BY <2>10, <2>b, <2>c, <3>1, SurplusStays DEF Serve, disk
  <2>11. ASSUME NEW row \in Rows, Recreate(row) PROVE SurplusInv'
    <3>1. row.uuid \in Paths
      BY <2>a, OwnPaths DEF Uuids
    <3>2. /\ files' \cup Paths = files \cup Paths /\ phase = "recreate"
          /\ phase' = "recreateMeta"
          /\ UNCHANGED <<metadata, databases, noImport, count, failed, overlooked, changes>>
      BY <2>11, <3>1 DEF Recreate, NextMissing
    <3>3. Skipped' = Skipped
      BY <3>2, SkippedSame
    <3> QED
      BY <2>a, <2>b, <2>c, <3>2, <3>3, SurplusStays DEF Bounded
  <2>20. ASSUME NEW row \in Rows, RecreateFails(row) PROVE SurplusInv'
    <3>1. /\ phase = "recreate" /\ phase' = "recreate"
          /\ UNCHANGED <<files, metadata, databases, noImport, count, overlooked, changes>>
      BY <2>20 DEF RecreateFails, NextMissing, disk
    <3>2. Skipped' = Skipped
      BY <2>20, SkippedStays DEF RecreateFails, Calls
    <3> QED
      BY <2>a, <2>b, <2>c, <3>1, <3>2, SurplusStays DEF Bounded
  <2>12. ASSUME NEW row \in Rows, Open(row) PROVE SurplusInv'
    <3>1. /\ files' \cup Paths = files \cup Paths /\ phase' = "initialize"
          /\ UNCHANGED <<metadata, databases, noImport, failed, overlooked, changes>>
      BY <2>12 DEF Open, NextToOpen, Paths
    <3>2. Skipped' = Skipped
      BY <3>1, SkippedSame
    <3> QED
      BY <2>b, <2>c, <3>1, <3>2, SurplusStays
  <2>21. ASSUME NEW row \in Rows, OpenFails(row) PROVE SurplusInv'
    <3>1. /\ phase' = "initialize"
          /\ UNCHANGED <<files, metadata, databases, noImport, overlooked, changes>>
      BY <2>21 DEF OpenFails, NextToOpen, disk
    <3>2. Skipped' = Skipped
      BY <2>21, SkippedStays DEF OpenFails, Calls
    <3> QED
      BY <2>b, <2>c, <3>1, <3>2, SurplusStays
  <2>13. CASE Crash
    <3>1. Skipped' = {}
      BY <2>13 DEF Crash, Skipped
    <3>2. IsFiniteSet({}) /\ Cardinality({}) = 0
      BY FS_EmptySet
    <3>3. IsFiniteSet(Skipped') /\ Cardinality(Skipped') <= overlooked
      BY <1>a, <3>1, <3>2
    <3> QED
      BY <2>13, <2>b, <3>3, SurplusStays DEF Crash, disk
  <2>14. CASE User
    <3>1. changes' = changes + 1
      BY <2>14 DEF User, UserMayChange, AddFile, DeleteFiles, RemoveMaster
    <3> QED
      BY <3>1 DEF SurplusInv
  <2>15. CASE Register
    <3> DEFINE row == [uuid |-> current, filePos |-> current, status |-> "active"]
    <3>1. /\ phase = "register" /\ phase' = "create"
          /\ current \in Names /\ current \in files
          /\ UNCHANGED <<files, metadata, noImport, count, changes, failed, overlooked>>
      BY <2>15 DEF Register, CatalogInv, CurrentIsNew, AdoptInv, Metadata
    <3>2. row \in DatabaseInfo /\ row.uuid = current /\ row.filePos = current
      BY <3>1 DEF DatabaseInfo
    <3>3. Insert(row)
      BY <2>15 DEF Register
    <3> HIDE DEF row
    <3>4. /\ \A r \in Rows' : r.filePos = r.uuid
          /\ Paths' = Paths \cup {current}
          /\ IsFiniteSet(Paths') /\ Cardinality(Paths') = Len(databases')
      BY <1>a, <2>a, <3>2, <3>3, InsertOwn DEF OwnNames, Bounded
    <3>5. files' \cup Paths' = files \cup Paths /\ Skipped' = Skipped
      BY <3>1, <3>4, SkippedSame
    <3>6. OwnNames'
      BY <3>1, <3>4, <2>a DEF OwnNames
    <3>7. Bounded'
      BY <3>1, <3>4, <3>5, <2>a DEF Bounded
    <3> QED
      BY <1>b, <3>1, <3>6, <3>7 DEF SurplusInv
  <2>22. CASE RegisterFails
    <3>1. /\ phase = "register" /\ phase' = "create"
          /\ UNCHANGED <<files, metadata, databases, noImport, count, overlooked, changes>>
      BY <2>22 DEF RegisterFails, disk
    <3>2. Skipped' = Skipped
      BY <2>22, SkippedStays DEF RegisterFails, Calls
    <3> QED
      BY <2>a, <2>b, <2>c, <3>1, <3>2, SurplusStays DEF Bounded
  <2>16. CASE UNCHANGED vars
    <3>1. UNCHANGED <<disk, process, past>> /\ Skipped' = Skipped
      BY <2>16, SkippedSame DEF vars, process
    <3> QED
      BY <3>1, <2>a, <2>b, <2>c, SurplusStays DEF disk, process, OwnNames, Bounded
  <2> QED
    BY <2>1, <2>2, <2>3, <2>4, <2>5, <2>6, <2>7, <2>8, <2>9, <2>10, <2>11, <2>12, <2>13,
       <2>14, <2>15, <2>16, <2>17, <2>18, <2>19, <2>20, <2>21, <2>22 DEF Next, Run, Failure
<1> QED
  BY <1>c, <1>d

\* However often its starts are cut short, the program makes no more shards
\* than it was asked for and one for each file or row that a start could not
\* take in, unless the user changes the files or forbids the import of what an
\* interrupted start left.
THEOREM ShardsNotTooMany == Spec => []NoSurplus
<1>1. CatalogInv /\ SurplusInv => NoSurplus
  <2> SUFFICES ASSUME CatalogInv, SurplusInv, changes = 0
               PROVE  Len(databases) <= Count + overlooked
    BY DEF NoSurplus
  <2>1. /\ IsFiniteSet(files \cup Paths)
        /\ Cardinality(files \cup Paths) <= Count + overlooked
        /\ Cardinality(Paths) = Len(databases)
    BY DEF SurplusInv, Bounded
  <2>2. Cardinality(Paths) <= Cardinality(files \cup Paths)
    BY <2>1, FS_Subset
  <2>3. /\ Cardinality(files \cup Paths) \in Nat /\ Len(databases) \in Nat
        /\ overlooked \in Nat
    BY <2>1, FS_CardinalityType, RowsType DEF CatalogInv, TypeOK
  <2> QED
    BY <2>1, <2>2, <2>3, CatalogAssumption
<1> QED
  BY InvHolds, AdoptHolds, InitSurplus, StepSurplus, <1>1, PTL DEF Spec
=============================================================================
