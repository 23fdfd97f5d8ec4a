------------------------------ MODULE Registry ------------------------------
(***************************************************************************)
(* Registering an identifier: the insert branch of main.cpp's data handler *)
(* as several workers run it at once, the index it consults and fills      *)
(* (index/QueryEngine, a Bloom filter and an exact store, without locks),  *)
(* and the SQLite shards of db/DataStorage that survive a crash of the     *)
(* process.  An exists request only evaluates Query.  A start opens the    *)
(* shards and reads their rows into the index as far as SQLite lets it: a  *)
(* shard that does not open is left out, one that cannot be read, or only  *)
(* in part, is served all the same.                                        *)
(*                                                                         *)
(* m_bits is a vector<bool>: setting a bit reads a machine word, sets the  *)
(* bit and writes the word back.  The exact store links a new node into    *)
(* its bucket in the same way.  Both are a read step and a write step, so  *)
(* that two workers may overwrite each other's update.                     *)
(***************************************************************************)
EXTENDS Naturals, Sequences, FiniteSets, Functions

CONSTANTS
  Ids,          \* identifiers clients insert (well-formed: 64 characters)
  Workers,      \* threads of the pool
  NumShards,    \* shards in the catalogue
  Hashes,       \* Hashes[i]: the bits of identifier i in the filter
  Place,        \* Place[x]: the machine word of bit x, the bucket of identifier x
  MaxRequests,  \* bound on the number of insert requests
  MaxCrashes,   \* bound on the number of crashes
  None

Bits == UNION {Hashes[i] : i \in Ids}

ASSUME RegistryAssumption ==
  /\ NumShards \in Nat
  /\ DOMAIN Hashes = Ids
  /\ Ids \cap Bits = {}
  /\ Ids \cup Bits \subseteq DOMAIN Place
  /\ None \notin Ids
  /\ MaxRequests \in Nat /\ MaxCrashes \in Nat

VARIABLES
  \* memory of the process
  m_bits,       \* set bits of the filter
  m_exact_store,
  m_round_robin_idx,
  pc,           \* [Workers -> step of the handler]
  id,           \* [Workers -> Ids \cup {None}]: identifier of the request
  todo,         \* [Workers -> SUBSET Bits]: bits still to be set
  copy,         \* [Workers -> SUBSET (Bits \cup Ids)]: word or bucket as read
  num,          \* [Workers -> shard]: target_db
  tmp,          \* [Workers -> shard]: m_round_robin_idx as read for the increment
  up,           \* the process runs
  m_data_dbs,   \* the shards that opened, in the order of the catalogue
  \* the disk
  rows,         \* [shard -> sequence of identifiers]
  lowDisk,      \* less than 100 MB available
  \* history
  acks,         \* [Ids -> number of 200 replies since the last start]
  unread,       \* identifiers with a row that this start did not read, nor
                \* wrote a row of its own for
  alone,        \* since the last start no request began during another
  requests, crashes

memory == <<m_bits, m_exact_store, m_round_robin_idx>>
locals == <<pc, id, todo, copy, num, tmp>>
process == <<up, m_data_dbs>>
disk == <<rows, lowDisk>>
history == <<acks, unread, alone, requests, crashes>>
vars == <<memory, locals, process, disk, history>>

Shard == 1 .. NumShards

\* What m_data_dbs may be after DataStorage::initialize.
Opened == {dbs \in UNION {[1 .. n -> Shard] : n \in 0 .. NumShards} :
             \A k, l \in DOMAIN dbs : k < l => dbs[k] < dbs[l]}
Steps == {"idle", "space", "check", "add", "addWrite", "store", "storeWrite",
          "entity", "target", "advance", "advanceWrite", "write", "ok"}

\* Every identifier in the information tables, and in how many rows it is.
OnDisk == {i \in Ids : \E s \in Shard : \E r \in DOMAIN rows[s] : rows[s][r] = i}
RowsOf(i) == {x \in Shard \X (1 .. MaxRequests) :
                x[2] \in DOMAIN rows[x[1]] /\ rows[x[1]][x[2]] = i}

Query(i) ==
  IF ~ (Hashes[i] \subseteq m_bits) THEN "DEFINITELY_NO"
  ELSE IF i \in m_exact_store THEN "DEFINITELY_YES" ELSE "PROBABLY_YES"

Init ==
  /\ m_bits = {} /\ m_exact_store = {} /\ m_round_robin_idx = 0
  /\ pc = [w \in Workers |-> "idle"]
  /\ id = [w \in Workers |-> None]
  /\ todo = [w \in Workers |-> {}]
  /\ copy = [w \in Workers |-> {}]
  /\ num = [w \in Workers |-> 0]
  /\ tmp = [w \in Workers |-> 0]
  /\ up = TRUE /\ m_data_dbs \in Opened
  /\ rows = [s \in Shard |-> <<>>]
  /\ lowDisk = FALSE
  /\ acks = [i \in Ids |-> 0]
  /\ unread = {} /\ alone = TRUE
  /\ requests = 0 /\ crashes = 0

-----------------------------------------------------------------------------
(* The handler *)

Step(w, from, to) == up /\ pc[w] = from /\ pc' = [pc EXCEPT ![w] = to]

Begin(w, i) ==
  /\ requests < MaxRequests
  /\ requests' = requests + 1
  /\ Step(w, "idle", "space")
  /\ id' = [id EXCEPT ![w] = i]
  /\ alone' = (alone /\ \A v \in Workers : pc[v] = "idle")
  /\ UNCHANGED <<memory, todo, copy, num, tmp, process, disk, acks, unread, crashes>>

\* The locals of a handler that has returned.
Forget(w) ==
  /\ id' = [id EXCEPT ![w] = None]
  /\ todo' = [todo EXCEPT ![w] = {}]
  /\ copy' = [copy EXCEPT ![w] = {}]
  /\ num' = [num EXCEPT ![w] = 0]
  /\ tmp' = [tmp EXCEPT ![w] = 0]

\* 507
RefuseSpace(w) ==
  /\ Step(w, "space", "idle")
  /\ lowDisk
  /\ Forget(w)
  /\ UNCHANGED <<memory, process, disk, history>>

CheckSpace(w) ==
  /\ Step(w, "space", "check")
  /\ ~ lowDisk
  /\ UNCHANGED <<memory, id, todo, copy, num, tmp, process, disk, history>>

\* 409
RefuseDuplicate(w) ==
  /\ Step(w, "check", "idle")
  /\ Query(id[w]) = "DEFINITELY_YES"
  /\ Forget(w)
  /\ UNCHANGED <<memory, process, disk, history>>

\* Faulty: stops at the false positives of the filter instead.
CheckDuplicateProbable(w) ==
  /\ Step(w, "check", "add")
  /\ Query(id[w]) # "PROBABLY_YES"
  /\ todo' = [todo EXCEPT ![w] = Hashes[id[w]]]
  /\ UNCHANGED <<memory, id, copy, num, tmp, process, disk, history>>

CheckDuplicate(w) ==
  /\ Step(w, "check", "add")
  /\ Query(id[w]) # "DEFINITELY_YES"
  /\ todo' = [todo EXCEPT ![w] = Hashes[id[w]]]
  /\ UNCHANGED <<memory, id, copy, num, tmp, process, disk, history>>

SamePlace(x, S) == {y \in S : Place[y] = Place[x]}

AddRead(w) ==
  /\ todo[w] # {}
  /\ Step(w, "add", "addWrite")
  /\ \E b \in todo[w] : copy' = [copy EXCEPT ![w] = {b} \cup SamePlace(b, m_bits)]
  /\ UNCHANGED <<memory, id, todo, num, tmp, process, disk, history>>

\* Faulty: stops after the first bit.
AddWriteOnce(w) ==
  /\ Step(w, "addWrite", "store")
  /\ m_bits' = {b \in m_bits : \A c \in copy[w] : Place[b] # Place[c]} \cup copy[w]
  /\ todo' = [todo EXCEPT ![w] = {}]
  /\ UNCHANGED <<m_exact_store, m_round_robin_idx, id, copy, num, tmp, process, disk, history>>

\* The word read before is written back with the new bit.
AddWrite(w) ==
  /\ Step(w, "addWrite", IF todo[w] \subseteq copy[w] THEN "store" ELSE "add")
  /\ m_bits' = {b \in m_bits : \A c \in copy[w] : Place[b] # Place[c]} \cup copy[w]
  /\ todo' = [todo EXCEPT ![w] = @ \ copy[w]]
  /\ UNCHANGED <<m_exact_store, m_round_robin_idx, id, copy, num, tmp, process, disk, history>>

StoreRead(w) ==
  /\ Step(w, "store", "storeWrite")
  /\ copy' = [copy EXCEPT ![w] = {id[w]} \cup SamePlace(id[w], m_exact_store)]
  /\ UNCHANGED <<memory, id, todo, num, tmp, process, disk, history>>

StoreWrite(w) ==
  /\ Step(w, "storeWrite", "entity")
  /\ m_exact_store' =
       {i \in m_exact_store : \A c \in copy[w] : Place[i] # Place[c]} \cup copy[w]
  /\ UNCHANGED <<m_bits, m_round_robin_idx, id, todo, copy, num, tmp, process, disk, history>>

\* insertEntity returns false without a shard, or when space has become low.
\* The handler ignores what it returns.
EntityGuards(w) ==
  /\ Step(w, "entity", IF m_data_dbs = <<>> \/ lowDisk THEN "ok" ELSE "target")
  /\ UNCHANGED <<memory, id, todo, copy, num, tmp, process, disk, history>>

PickTarget(w) ==
  /\ Step(w, "target", "advance")
  /\ num' = [num EXCEPT ![w] = m_data_dbs[m_round_robin_idx + 1]]
  /\ UNCHANGED <<memory, id, todo, copy, tmp, process, disk, history>>

AdvanceRead(w) ==
  /\ Step(w, "advance", "advanceWrite")
  /\ tmp' = [tmp EXCEPT ![w] = m_round_robin_idx]
  /\ UNCHANGED <<memory, id, todo, copy, num, process, disk, history>>

\* Faulty: looks for the end in what was read, then increments what is there.
AdvanceWriteChecked(w) ==
  /\ Step(w, "advanceWrite", "write")
  /\ m_round_robin_idx' = IF tmp[w] + 1 >= Len(m_data_dbs) THEN 0 ELSE m_round_robin_idx + 1
  /\ UNCHANGED <<m_bits, m_exact_store, id, todo, copy, num, tmp, process, disk, history>>

AdvanceWrite(w) ==
  /\ Step(w, "advanceWrite", "write")
  /\ m_round_robin_idx' = (tmp[w] + 1) % Len(m_data_dbs)
  /\ UNCHANGED <<m_bits, m_exact_store, id, todo, copy, num, tmp, process, disk, history>>

\* prepare or step may fail; SQLite commits the row otherwise.
Write(w) ==
  /\ Step(w, "write", "ok")
  /\ \/ /\ rows' = [rows EXCEPT ![num[w]] = Append(@, id[w])]
        /\ unread' = unread \ {id[w]}
     \/ UNCHANGED <<rows, unread>>
  /\ UNCHANGED <<memory, id, todo, copy, num, tmp, process, lowDisk, acks, alone, requests,
                 crashes>>

\* 200
Succeed(w) ==
  /\ Step(w, "ok", "idle")
  /\ Forget(w)
  /\ acks' = [acks EXCEPT ![id[w]] = @ + 1]
  /\ UNCHANGED <<memory, process, disk, unread, alone, requests, crashes>>

-----------------------------------------------------------------------------
(* The environment *)

DiskSpace ==
  /\ lowDisk' = ~ lowDisk
  /\ UNCHANGED <<memory, locals, process, rows, history>>

Crash ==
  /\ up /\ crashes < MaxCrashes
  /\ crashes' = crashes + 1
  /\ up' = FALSE
  /\ m_bits' = {} /\ m_exact_store' = {} /\ m_round_robin_idx' = 0
  /\ pc' = [w \in Workers |-> "idle"]
  /\ id' = [w \in Workers |-> None]
  /\ todo' = [w \in Workers |-> {}] /\ copy' = [w \in Workers |-> {}]
  /\ num' = [w \in Workers |-> 0] /\ tmp' = [w \in Workers |-> 0]
  /\ acks' = [i \in Ids |-> 0]
  /\ UNCHANGED <<m_data_dbs, disk, unread, alone, requests>>

\* The identifiers in the first got[s] rows of each of these shards.
FirstRows(shards, got) ==
  {i \in Ids : \E s \in shards : \E r \in DOMAIN rows[s] : r <= got[s] /\ rows[s][r] = i}

\* Faulty: reads the first shard only.
RestartFirstShard ==
  /\ ~ up /\ up' = TRUE /\ alone' = TRUE
  /\ m_data_dbs' \in Opened
  /\ \E got \in [Shard -> 0 .. MaxRequests] :
        LET loaded == FirstRows({1} \cap Range(m_data_dbs'), got)
        IN  /\ m_bits' = UNION {Hashes[i] : i \in loaded}
            /\ m_exact_store' = loaded
            /\ unread' = OnDisk \ FirstRows(Range(m_data_dbs'), got)
  /\ UNCHANGED <<m_round_robin_idx, locals, disk, acks, requests, crashes>>

\* initialize and loadAllIdentifiers, before the server listens.  A shard whose
\* sqlite3_open fails is left out; where prepare fails no row is read, and a
\* step that fails is taken for the end of the rows.
Restart ==
  /\ ~ up /\ up' = TRUE /\ alone' = TRUE
  /\ m_data_dbs' \in Opened
  /\ \E got \in [Shard -> 0 .. MaxRequests] :
        LET loaded == FirstRows(Range(m_data_dbs'), got)
        IN  /\ m_bits' = UNION {Hashes[i] : i \in loaded}
            /\ m_exact_store' = loaded
            /\ unread' = OnDisk \ loaded
  /\ UNCHANGED <<m_round_robin_idx, locals, disk, acks, requests, crashes>>

-----------------------------------------------------------------------------

Insert(w) ==
  \/ RefuseSpace(w) \/ CheckSpace(w) \/ RefuseDuplicate(w) \/ CheckDuplicate(w)
  \/ AddRead(w) \/ AddWrite(w) \/ StoreRead(w) \/ StoreWrite(w)
  \/ EntityGuards(w) \/ PickTarget(w) \/ AdvanceRead(w) \/ AdvanceWrite(w)
  \/ Write(w) \/ Succeed(w)

Next ==
  \/ \E w \in Workers : Insert(w) \/ \E i \in Ids : Begin(w, i)
  \/ DiskSpace \/ Crash \/ Restart

Spec == Init /\ [][Next]_vars

-----------------------------------------------------------------------------
(* Properties *)

\* The round-robin index is inside m_data_dbs whatever two workers do to it, and
\* however many shards this start could open, so m_data_dbs[m_round_robin_idx]
\* never reads past the end.
TypeOK ==
  /\ m_bits \subseteq Bits /\ m_exact_store \subseteq Ids
  /\ m_data_dbs \in Opened
  /\ m_round_robin_idx = 0 \/ m_round_robin_idx \in 1 .. (Len(m_data_dbs) - 1)
  /\ pc \in [Workers -> Steps]
  /\ \A w \in Workers : pc[w] # "idle" => id[w] \in Ids
  /\ \A w \in Workers : todo[w] \subseteq Bits /\ copy[w] \subseteq Bits \cup Ids
  /\ \A w \in Workers : pc[w] \in {"advance", "advanceWrite", "write"} => num[w] \in Shard
  /\ rows \in [Shard -> Seq(Ids)]
  /\ up \in BOOLEAN /\ lowDisk \in BOOLEAN /\ alone \in BOOLEAN
  /\ unread \subseteq Ids

\* While requests come one after the other the index knows every row on disk,
\* whatever crashed when, but for what this start could not read: so a stored
\* identifier is found, and a second insert refused.
IndexCoversDisk ==
  up /\ alone => \A i \in OnDisk \ unread : Query(i) = "DEFINITELY_YES"

\* While requests come one after the other no identifier gets a second row, in
\* one shard or in two, across crashes between the index, the shard and the
\* reply; only one whose rows this start could not read gets another, once.
NoSecondRow ==
  [][alone => \A i \in OnDisk \ unread : RowsOf(i)' = RowsOf(i)]_vars

\* While requests come one after the other, and until the process ends, an
\* identifier whose insert got 200 is answered DEFINITELY_YES, and no second
\* insert gets 200.
AckedIsKnown ==
  up /\ alone => \A i \in Ids : acks[i] > 0 => acks[i] = 1 /\ Query(i) = "DEFINITELY_YES"

\* Requests one after the other are those of a Register: an identifier is learnt
\* once, stored and acknowledged only while it is being learnt, and a start
\* knows nothing that has no row (the insert branch, loadAllIdentifiers).
R == INSTANCE Register WITH
  known <- {i \in Ids : Query(i) = "DEFINITELY_YES"},
  learning <- {id[w] : w \in {v \in Workers :
                pc[v] \in {"entity", "target", "advance", "advanceWrite", "write", "ok"}}},
  stored <- OnDisk,
  acked <- {i \in Ids : acks[i] > 0}

ImplementsRegister == R!Spec

\* tests/test_database.cpp:299: a duplicate insert gets 409, so no identifier is
\* acknowledged twice.
DuplicateRefused == \A i \in Ids : acks[i] <= 1
=============================================================================
