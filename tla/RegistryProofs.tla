--------------------------- MODULE RegistryProofs ---------------------------
(***************************************************************************)
(* Theorems about Registry: type correctness, which includes the range of  *)
(* the round-robin index, for any number of workers; and, while requests   *)
(* come one after the other, that index, shards and acknowledgements       *)
(* agree, whatever the identifiers, hashes, shards, crashes and failures   *)
(* of the disk are, and that clients then see a Register.                  *)
(***************************************************************************)
EXTENDS Registry, FiniteSetTheorems, TLAPS

-----------------------------------------------------------------------------
(* Type correctness, for any number of workers *)

\* The types of the locals, and what a worker's place says about them.
LocalsOK ==
  /\ id \in [Workers -> Ids \cup {None}]
  /\ todo \in [Workers -> SUBSET Bits]
  /\ copy \in [Workers -> SUBSET (Bits \cup Ids)]
  /\ num \in [Workers -> Shard \cup {0}]
  /\ tmp \in [Workers -> Nat]
  /\ acks \in [Ids -> Nat]
  /\ \A w \in Workers :
        /\ pc[w] = "addWrite" => copy[w] \subseteq Bits
        /\ pc[w] = "storeWrite" => copy[w] \subseteq Ids
        /\ pc[w] \in {"target", "advance", "advanceWrite", "write"} => m_data_dbs # <<>>
        /\ ~ up => pc[w] = "idle"
  /\ ~ up => m_round_robin_idx = 0 /\ \A i \in Ids : acks[i] = 0

TypeInv == TypeOK /\ LocalsOK

LEMMA HashesAreBits == \A i \in Ids : Hashes[i] \subseteq Bits
  BY DEF Bits

\* What an index of m_data_dbs is.
IndexOf(dbs) == {0} \cup 1 .. (Len(dbs) - 1)

LEMMA OpenedFacts ==
  ASSUME NEW dbs \in Opened
  PROVE  /\ dbs \in Seq(Shard)
         /\ IndexOf(dbs) \subseteq Nat
         /\ dbs # <<>> => \A n \in IndexOf(dbs) : dbs[n + 1] \in Shard
         /\ dbs # <<>> => \A n \in Nat : (n + 1) % Len(dbs) \in IndexOf(dbs)
<1>1. PICK n \in Nat : dbs \in [1 .. n -> Shard]
  BY RegistryAssumption DEF Opened
<1>2. dbs \in Seq(Shard) /\ Len(dbs) = n
  BY <1>1
<1>3. IndexOf(dbs) = {0} \cup 1 .. (n - 1)
  BY <1>2 DEF IndexOf
<1>4. ASSUME dbs # <<>> PROVE n > 0
  BY <1>2, <1>4
<1>5. ASSUME dbs # <<>>, NEW k \in IndexOf(dbs) PROVE dbs[k + 1] \in Shard
  BY <1>1, <1>3, <1>4, <1>5
<1>6. ASSUME dbs # <<>>, NEW k \in Nat PROVE (k + 1) % Len(dbs) \in IndexOf(dbs)
  <2>1. n > 0
    BY <1>4, <1>6
  <2>2. (k + 1) % n \in 0 .. (n - 1)
    BY <2>1
  <2> QED
    BY <1>2, <1>3, <2>2
<1> QED
  BY <1>2, <1>3, <1>5, <1>6

\* What a start loads are identifiers with a row.
LEMMA LoadedFacts ==
  ASSUME NEW shards \in SUBSET Shard, NEW got
  PROVE  FirstRows(shards, got) \subseteq OnDisk
  BY DEF FirstRows, OnDisk

\* Restart, by what it loads.
LEMMA RestartLoads ==
  ASSUME Restart
  PROVE  \E loaded \in SUBSET OnDisk :
            /\ m_bits' = UNION {Hashes[i] : i \in loaded}
            /\ m_exact_store' = loaded
            /\ unread' = OnDisk \ loaded
<1>1. m_data_dbs' \in Opened
  BY DEF Restart
<1>2. Range(m_data_dbs') \subseteq Shard
  <2>1. m_data_dbs' \in Seq(Shard)
    BY <1>1, OpenedFacts
  <2> QED
    BY <2>1 DEF Range
<1>3. PICK got \in [Shard -> 0 .. MaxRequests] :
         LET loaded == FirstRows(Range(m_data_dbs'), got)
         IN  /\ m_bits' = UNION {Hashes[i] : i \in loaded}
             /\ m_exact_store' = loaded
             /\ unread' = OnDisk \ loaded
  BY DEF Restart
<1>4. FirstRows(Range(m_data_dbs'), got) \subseteq OnDisk
  BY <1>2, LoadedFacts
<1> QED
  BY <1>3, <1>4

LEMMA OnDiskType == OnDisk \subseteq Ids
  BY DEF OnDisk

LEMMA InitType == Init => TypeInv
<1> SUFFICES ASSUME Init PROVE TypeInv
  OBVIOUS
<1>1. rows \in [Shard -> Seq(Ids)]
  BY DEF Init
<1>2. acks \in [Ids -> Nat]
  BY DEF Init
<1>3. num \in [Workers -> Shard \cup {0}] /\ tmp \in [Workers -> Nat]
  BY DEF Init
<1>4. LocalsOK
  BY <1>2, <1>3 DEF Init, LocalsOK
<1>5. TypeOK
  BY <1>1 DEF Init, TypeOK, Steps
<1> QED
  BY <1>4, <1>5 DEF TypeInv

LEMMA TypeStep == TypeInv /\ [Next]_vars => TypeInv'
<1> SUFFICES ASSUME TypeInv, [Next]_vars PROVE TypeInv'
  OBVIOUS
<1> USE DEF TypeInv, TypeOK, LocalsOK, Steps, Step, memory, locals, process, disk, history
<1>1. CASE UNCHANGED vars
  BY <1>1 DEF vars
<1>2. ASSUME NEW w \in Workers, NEW i \in Ids, Begin(w, i) PROVE TypeInv'
  BY <1>2 DEF Begin
<1>3. ASSUME NEW w \in Workers, CheckSpace(w) PROVE TypeInv'
  BY <1>3 DEF CheckSpace
<1>4. ASSUME NEW w \in Workers, CheckDuplicate(w) PROVE TypeInv'
  BY <1>4, HashesAreBits DEF CheckDuplicate
<1>5. ASSUME NEW w \in Workers, AddRead(w) PROVE TypeInv'
  BY <1>5 DEF AddRead, SamePlace
<1>6. ASSUME NEW w \in Workers, AddWrite(w) PROVE TypeInv'
  BY <1>6 DEF AddWrite
<1>7. ASSUME NEW w \in Workers, StoreRead(w) PROVE TypeInv'
  BY <1>7 DEF StoreRead, SamePlace
<1>8. ASSUME NEW w \in Workers, StoreWrite(w) PROVE TypeInv'
  BY <1>8 DEF StoreWrite
<1>9. ASSUME NEW w \in Workers, EntityGuards(w) PROVE TypeInv'
  BY <1>9 DEF EntityGuards
<1>10. ASSUME NEW w \in Workers, PickTarget(w) PROVE TypeInv'
  <2>1. m_data_dbs[m_round_robin_idx + 1] \in Shard
    BY <1>10, OpenedFacts DEF PickTarget, IndexOf
  <2> QED
    BY <1>10, <2>1 DEF PickTarget
<1>11. ASSUME NEW w \in Workers, AdvanceRead(w) PROVE TypeInv'
  <2>1. m_round_robin_idx \in Nat
    BY OpenedFacts DEF IndexOf
  <2> QED
    BY <1>11, <2>1 DEF AdvanceRead
<1>12. ASSUME NEW w \in Workers, AdvanceWrite(w) PROVE TypeInv'
  <2>1. m_round_robin_idx' \in IndexOf(m_data_dbs)
    BY <1>12, OpenedFacts DEF AdvanceWrite
  <2>2. m_round_robin_idx' = 0 \/ m_round_robin_idx' \in 1 .. (Len(m_data_dbs) - 1)
    BY <2>1 DEF IndexOf
  <2> QED
    BY <1>12, <2>2 DEF AdvanceWrite
<1>13. ASSUME NEW w \in Workers, Write(w) PROVE TypeInv'
  <2>1. num[w] \in Shard /\ id[w] \in Ids /\ rows[num[w]] \in Seq(Ids)
    BY <1>13 DEF Write
  <2>2. Append(rows[num[w]], id[w]) \in Seq(Ids)
    BY <2>1
  <2>3. rows' \in [Shard -> Seq(Ids)]
    BY <1>13, <2>2 DEF Write
  <2>4. unread' \subseteq Ids
    BY <1>13 DEF Write
  <2> QED
    BY <1>13, <2>3, <2>4 DEF Write
<1>14. ASSUME NEW w \in Workers, Succeed(w) PROVE TypeInv'
  BY <1>14 DEF Succeed, Forget
<1>15. CASE DiskSpace
  BY <1>15 DEF DiskSpace
<1>16. CASE Crash
  BY <1>16 DEF Crash
<1>17. CASE Restart
  <2>1. PICK loaded \in SUBSET OnDisk :
           /\ m_bits' = UNION {Hashes[i] : i \in loaded}
           /\ m_exact_store' = loaded
           /\ unread' = OnDisk \ loaded
    BY <1>17, RestartLoads
  <2>2. m_bits' \subseteq Bits /\ m_exact_store' \subseteq Ids /\ unread' \subseteq Ids
    BY <2>1, OnDiskType DEF Bits
  <2> QED
    BY <1>17, <2>2 DEF Restart
<1>18. ASSUME NEW w \in Workers, RefuseSpace(w) PROVE TypeInv'
  BY <1>18 DEF RefuseSpace, Forget
<1>19. ASSUME NEW w \in Workers, RefuseDuplicate(w) PROVE TypeInv'
  BY <1>19 DEF RefuseDuplicate, Forget
<1> QED
  BY <1>1, <1>2, <1>3, <1>4, <1>5, <1>6, <1>7, <1>8, <1>9, <1>10, <1>11, <1>12, <1>13,
     <1>14, <1>15, <1>16, <1>17, <1>18, <1>19
     DEF Next, Insert

LEMMA TypeAlways == Spec => []TypeInv
  BY InitType, TypeStep, PTL DEF Spec

\* For any number of workers in insertEntity at once the unsynchronised
\* round-robin index stays inside m_data_dbs, and the rest of the state keeps
\* its types.
THEOREM TypeCorrect == Spec => []TypeOK
<1>1. TypeInv => TypeOK
  BY DEF TypeInv
<1> QED
  BY <1>1, TypeAlways, PTL

-----------------------------------------------------------------------------
(* Requests one after the other *)

\* At most one request is being dealt with.
Single == \A v, w \in Workers : pc[v] # "idle" /\ pc[w] # "idle" => v = w

Known(i) == Hashes[i] \subseteq m_bits /\ i \in m_exact_store

Writing == {"add", "addWrite", "store", "storeWrite", "entity", "target", "advance",
            "advanceWrite", "write"}

\* A word or bucket that was read is still what is there.
Fresh(read, S) == \A x \in S : (\E c \in read : Place[x] = Place[c]) => x \in read

\* How far a request has come.
Progress ==
  \A w \in Workers :
     /\ pc[w] \in Writing => id[w] \notin OnDisk \ unread
     /\ pc[w] \in Writing \cup {"ok"} => acks[id[w]] = 0
     /\ pc[w] \in {"add", "addWrite"} => Hashes[id[w]] \ todo[w] \subseteq m_bits
     /\ pc[w] = "addWrite" => Fresh(copy[w], m_bits)
     /\ pc[w] \in (Writing \ {"add", "addWrite"}) \cup {"ok"} => Hashes[id[w]] \subseteq m_bits
     /\ pc[w] = "storeWrite" => id[w] \in copy[w] /\ Fresh(copy[w], m_exact_store)
     /\ pc[w] \in {"entity", "target", "advance", "advanceWrite", "write", "ok"} =>
           id[w] \in m_exact_store

Covered == up => \A i \in OnDisk \ unread : Known(i)
Acked == \A i \in Ids : acks[i] # 0 => up /\ acks[i] = 1 /\ Known(i)

OneInv == alone => Single /\ Progress /\ Covered /\ Acked

LEMMA SameDisk == rows' = rows => OnDisk' = OnDisk
  BY DEF OnDisk

LEMMA InitOne == Init => OneInv
  BY DEF Init, OneInv, Single, Progress, Covered, Acked, OnDisk, Writing

\* Writing a fresh word back loses nothing.
LEMMA WriteBack ==
  ASSUME NEW S, NEW read, Fresh(read, S)
  PROVE  LET after == {x \in S : \A c \in read : Place[x] # Place[c]} \cup read
         IN S \cup read = after
  BY DEF Fresh

\* What is read together is fresh.
LEMMA ReadFresh ==
  ASSUME NEW S, NEW x
  PROVE  Fresh({x} \cup SamePlace(x, S), S)
  BY DEF Fresh, SamePlace

\* A row adds its identifier to the disk, and nothing to the rows of others.
LEMMA NewRow ==
  ASSUME rows \in [Shard -> Seq(Ids)], NEW s \in Shard, NEW i \in Ids,
         rows' = [rows EXCEPT ![s] = Append(@, i)]
  PROVE  /\ OnDisk' \subseteq OnDisk \cup {i}
         /\ \A j \in Ids \ {i} : RowsOf(j)' = RowsOf(j)
<1> DEFINE n == Len(rows[s])
<1>1. rows[s] \in Seq(Ids) /\ n \in Nat
  OBVIOUS
<1>2. /\ rows'[s] = Append(rows[s], i)
      /\ \A t \in Shard \ {s} : rows'[t] = rows[t]
  OBVIOUS
<1>3. /\ DOMAIN rows'[s] = DOMAIN rows[s] \cup {n + 1}
      /\ n + 1 \notin DOMAIN rows[s]
      /\ \A r \in DOMAIN rows[s] : rows'[s][r] = rows[s][r]
      /\ rows'[s][n + 1] = i
  BY <1>1, <1>2
<1> HIDE DEF n
<1>4. ASSUME NEW t \in Shard, NEW r \in DOMAIN rows'[t]
      PROVE  \/ t = s /\ r = n + 1 /\ rows'[t][r] = i
             \/ r \in DOMAIN rows[t] /\ rows'[t][r] = rows[t][r]
  <2>1. CASE t = s
    BY <1>3, <2>1
  <2>2. CASE t # s
    BY <1>2, <2>2
  <2> QED
    BY <2>1, <2>2
<1>5. ASSUME NEW t \in Shard, NEW r \in DOMAIN rows[t]
      PROVE  r \in DOMAIN rows'[t] /\ rows'[t][r] = rows[t][r]
  <2>1. CASE t = s
    BY <1>3, <2>1
  <2>2. CASE t # s
    BY <1>2, <2>2
  <2> QED
    BY <2>1, <2>2
<1>6. OnDisk' \subseteq OnDisk \cup {i}
  BY <1>4 DEF OnDisk
<1>7. ASSUME NEW j \in Ids \ {i} PROVE RowsOf(j)' = RowsOf(j)
  <2>1. ASSUME NEW x \in Shard \X (1 .. MaxRequests)
        PROVE  (x[2] \in DOMAIN rows'[x[1]] /\ rows'[x[1]][x[2]] = j)
                 <=> (x[2] \in DOMAIN rows[x[1]] /\ rows[x[1]][x[2]] = j)
    <3>1. x[1] \in Shard
      OBVIOUS
    <3> QED
      BY <1>4, <1>5, <1>7, <3>1
  <2> QED
    BY <2>1 DEF RowsOf
<1> QED
  BY <1>6, <1>7

\* Nor does it lose one.
LEMMA RowsGrow ==
  ASSUME rows \in [Shard -> Seq(Ids)], NEW s \in Shard, NEW i \in Ids,
         rows' = [rows EXCEPT ![s] = Append(@, i)]
  PROVE  OnDisk \cup {i} \subseteq OnDisk'
<1>1. rows[s] \in Seq(Ids) /\ rows'[s] = Append(rows[s], i)
  OBVIOUS
<1>2. /\ Len(rows[s]) + 1 \in DOMAIN rows'[s] /\ rows'[s][Len(rows[s]) + 1] = i
      /\ \A r \in DOMAIN rows[s] : r \in DOMAIN rows'[s] /\ rows'[s][r] = rows[s][r]
  BY <1>1
<1>3. i \in OnDisk'
  BY <1>2 DEF OnDisk
<1>4. ASSUME NEW j \in OnDisk PROVE j \in OnDisk'
  <2>1. PICK t \in Shard : \E r \in DOMAIN rows[t] : rows[t][r] = j
    BY DEF OnDisk
  <2>2. CASE t = s
    BY <1>2, <2>1, <2>2 DEF OnDisk
  <2>3. CASE t # s
    <3>1. rows'[t] = rows[t]
      BY <2>3
    <3> QED
      BY <2>1, <3>1 DEF OnDisk
  <2> QED
    BY <2>2, <2>3
<1> QED
  BY <1>3, <1>4

LEMMA OneStep ==
  ASSUME TypeInv, OneInv, [Next]_vars
  PROVE  OneInv'
<1> SUFFICES ASSUME alone' PROVE (Single /\ Progress /\ Covered /\ Acked)'
  BY DEF OneInv
<1> DEFINE Goal == Single /\ Progress /\ Covered /\ Acked
<1>0. alone => Goal
  BY DEF OneInv
<1> USE DEF TypeInv, TypeOK, LocalsOK, Single, Progress, Covered, Acked, Known,
            Writing, Steps, Step, memory, locals, process, disk, history
<1>1. CASE UNCHANGED vars
  BY <1>0, <1>1, SameDisk DEF vars, Fresh
<1>2. ASSUME NEW w \in Workers, NEW i \in Ids, Begin(w, i) PROVE Goal'
  BY <1>0, <1>2, SameDisk DEF Begin
<1>3. ASSUME NEW w \in Workers, CheckSpace(w) PROVE Goal'
  BY <1>0, <1>3, SameDisk DEF CheckSpace
<1>4. ASSUME NEW w \in Workers, CheckDuplicate(w) PROVE Goal'
  BY <1>0, <1>4, SameDisk DEF CheckDuplicate, Query
<1>5. ASSUME NEW w \in Workers, AddRead(w) PROVE Goal'
  <2>1. PICK b \in todo[w] : copy' = [copy EXCEPT ![w] = {b} \cup SamePlace(b, m_bits)]
    BY <1>5 DEF AddRead
  <2>2. copy'[w] = {b} \cup SamePlace(b, m_bits) /\ m_bits' = m_bits
    BY <1>5, <2>1 DEF AddRead
  <2>3. Fresh({b} \cup SamePlace(b, m_bits), m_bits)
    BY ReadFresh
  <2>4. Fresh(copy'[w], m_bits')
    BY <2>2, <2>3
  <2> QED
    BY <1>0, <1>5, <2>4, SameDisk DEF AddRead
<1>6. ASSUME NEW w \in Workers, AddWrite(w) PROVE Goal'
  <2>1. alone /\ Fresh(copy[w], m_bits)
    BY <1>0, <1>6 DEF AddWrite
  <2>2. m_bits' = m_bits \cup copy[w]
    BY <1>6, <2>1, WriteBack DEF AddWrite
  <2>3. UNCHANGED <<m_exact_store, id, copy, up, acks, unread>> /\ OnDisk' = OnDisk
    BY <1>6, SameDisk DEF AddWrite
  <2>4. Covered' /\ Acked'
    BY <1>0, <2>1, <2>2, <2>3
  <2>5. Single'
    BY <1>0, <1>6, <2>1 DEF AddWrite
  <2>6. \A v \in Workers : v # w => pc'[v] = "idle"
    BY <1>0, <1>6, <2>1 DEF AddWrite
  <2>7. /\ pc[w] = "addWrite" /\ todo'[w] = todo[w] \ copy[w]
        /\ pc'[w] = IF todo[w] \subseteq copy[w] THEN "store" ELSE "add"
    BY <1>6 DEF AddWrite
  <2>8. id[w] \notin OnDisk \ unread /\ acks[id[w]] = 0 /\ Hashes[id[w]] \ todo[w] \subseteq m_bits
    BY <1>0, <2>1, <2>7
  <2>9. Hashes[id[w]] \ todo'[w] \subseteq m_bits'
    BY <2>2, <2>7, <2>8
  <2>10. pc'[w] = "store" => Hashes[id[w]] \subseteq m_bits'
    BY <2>2, <2>7, <2>8
  <2>11. id' = id /\ pc'[w] \in {"add", "store"}
    BY <2>3, <2>7
  <2>12. Progress'
    BY <2>3, <2>6, <2>8, <2>9, <2>10, <2>11
  <2> QED
    BY <2>4, <2>5, <2>12
<1>7. ASSUME NEW w \in Workers, StoreRead(w) PROVE Goal'
  <2>1. Fresh(copy'[w], m_exact_store')
    BY <1>7, ReadFresh DEF StoreRead
  <2> QED
    BY <1>0, <1>7, <2>1, SameDisk DEF StoreRead
<1>8. ASSUME NEW w \in Workers, StoreWrite(w) PROVE Goal'
  <2>1. alone /\ Fresh(copy[w], m_exact_store)
    BY <1>0, <1>8 DEF StoreWrite
  <2>2. m_exact_store' = m_exact_store \cup copy[w]
    BY <1>8, <2>1, WriteBack DEF StoreWrite
  <2> QED
    BY <1>0, <1>8, <2>1, <2>2, SameDisk DEF StoreWrite
<1>9. ASSUME NEW w \in Workers, EntityGuards(w) PROVE Goal'
  BY <1>0, <1>9, SameDisk DEF EntityGuards
<1>10. ASSUME NEW w \in Workers, PickTarget(w) PROVE Goal'
  BY <1>0, <1>10, SameDisk DEF PickTarget
<1>11. ASSUME NEW w \in Workers, AdvanceRead(w) PROVE Goal'
  BY <1>0, <1>11, SameDisk DEF AdvanceRead
<1>12. ASSUME NEW w \in Workers, AdvanceWrite(w) PROVE Goal'
  BY <1>0, <1>12, SameDisk DEF AdvanceWrite
<1>13. ASSUME NEW w \in Workers, Write(w) PROVE Goal'
  <2>1. CASE UNCHANGED <<rows, unread>>
    BY <1>0, <1>13, <2>1, SameDisk DEF Write
  <2>2. CASE /\ rows' = [rows EXCEPT ![num[w]] = Append(@, id[w])]
             /\ unread' = unread \ {id[w]}
    <3>1. num[w] \in Shard /\ id[w] \in Ids
      BY <1>13 DEF Write
    <3>2. OnDisk' \subseteq OnDisk \cup {id[w]}
      BY <2>2, <3>1, NewRow
    <3>3. OnDisk' \ unread' \subseteq (OnDisk \ unread) \cup {id[w]}
      BY <2>2, <3>2
    <3>4. /\ alone /\ pc[w] = "write" /\ pc'[w] = "ok"
          /\ UNCHANGED <<m_bits, m_exact_store, id, up, acks>>
      BY <1>13 DEF Write
    <3>5. Known(id[w]) /\ acks[id[w]] = 0
      BY <1>0, <3>1, <3>4
    <3>6. Covered' /\ Acked'
      BY <1>0, <3>3, <3>4, <3>5
    <3>7. \A v \in Workers : v # w => pc'[v] = "idle"
      BY <1>0, <1>13, <3>4 DEF Write
    <3>8. Single'
      BY <3>7
    <3>9. Progress'
      BY <3>4, <3>5, <3>7
    <3> QED
      BY <3>6, <3>8, <3>9
  <2> QED
    BY <1>13, <2>1, <2>2 DEF Write
<1>14. ASSUME NEW w \in Workers, Succeed(w) PROVE Goal'
  BY <1>0, <1>14, SameDisk DEF Succeed, Forget
<1>15. CASE DiskSpace
  BY <1>0, <1>15, SameDisk DEF DiskSpace, Fresh
<1>16. CASE Crash
  BY <1>0, <1>16, SameDisk DEF Crash
<1>17. CASE Restart
  <2>1. PICK loaded \in SUBSET OnDisk :
           /\ m_bits' = UNION {Hashes[i] : i \in loaded}
           /\ m_exact_store' = loaded
           /\ unread' = OnDisk \ loaded
    BY <1>17, RestartLoads
  <2>2. OnDisk' = OnDisk
    BY <1>17, SameDisk DEF Restart
  <2>3. \A i \in loaded : Hashes[i] \subseteq m_bits' /\ i \in m_exact_store'
    BY <2>1
  <2>4. Covered'
    BY <2>1, <2>2, <2>3
  <2>5. \A w \in Workers : pc'[w] = "idle"
    BY <1>17 DEF Restart
  <2>6. \A i \in Ids : acks'[i] = 0
    BY <1>17 DEF Restart
  <2> QED
    BY <2>4, <2>5, <2>6
<1>18. ASSUME NEW w \in Workers, RefuseSpace(w) PROVE Goal'
  BY <1>0, <1>18, SameDisk DEF RefuseSpace, Forget
<1>19. ASSUME NEW w \in Workers, RefuseDuplicate(w) PROVE Goal'
  BY <1>0, <1>19, SameDisk DEF RefuseDuplicate, Forget
<1> QED
  BY <1>1, <1>2, <1>3, <1>4, <1>5, <1>6, <1>7, <1>8, <1>9, <1>10, <1>11, <1>12, <1>13,
     <1>14, <1>15, <1>16, <1>17, <1>18, <1>19
     DEF Next, Insert

LEMMA OneAlways == Spec => []OneInv
<1>1. TypeInv /\ OneInv /\ [Next]_vars => OneInv'
  BY OneStep
<1> QED
  BY InitOne, <1>1, TypeAlways, PTL DEF Spec

\* While requests come one after the other, whatever crashes and fails in
\* between: what is on disk is in the index, but for what this start could not
\* read.
THEOREM DiskIsIndexed == Spec => []IndexCoversDisk
<1>1. OneInv => IndexCoversDisk
  BY DEF OneInv, Covered, Known, IndexCoversDisk, Query
<1> QED
  BY <1>1, OneAlways, PTL

LEMMA SecondRowStep ==
  ASSUME TypeInv, OneInv, [Next]_vars
  PROVE  [alone => \A i \in OnDisk \ unread : RowsOf(i)' = RowsOf(i)]_vars
<1> SUFFICES ASSUME alone, NEW i \in OnDisk \ unread PROVE RowsOf(i)' = RowsOf(i)
  OBVIOUS
<1>1. i \in Ids
  BY OnDiskType
<1>2. CASE rows' = rows
  BY <1>2 DEF RowsOf
<1>3. CASE rows' # rows
  <2>1. PICK w \in Workers : Write(w)
    BY <1>3 DEF Next, Insert, vars, memory, locals, process, disk, history, Begin, CheckSpace,
                CheckDuplicate, RefuseSpace, RefuseDuplicate, AddRead, AddWrite, StoreRead,
                StoreWrite, EntityGuards, PickTarget, AdvanceRead, AdvanceWrite, Succeed,
                DiskSpace, Crash, Restart
  <2>2. rows' = [rows EXCEPT ![num[w]] = Append(@, id[w])]
    BY <1>3, <2>1 DEF Write
  <2>3. /\ num[w] \in Shard /\ id[w] \in Ids /\ id[w] \notin OnDisk \ unread
        /\ rows \in [Shard -> Seq(Ids)]
    BY <2>1 DEF Write, Step, TypeInv, TypeOK, OneInv, Progress, Writing
  <2> QED
    BY <1>1, <2>2, <2>3, NewRow
<1> QED
  BY <1>2, <1>3

\* While requests come one after the other: no identifier gets a second row,
\* but one whose row this start could not read.
THEOREM StoredOnce == Spec => NoSecondRow
<1>1. TypeInv /\ OneInv /\ [Next]_vars
        => [alone => \A i \in OnDisk \ unread : RowsOf(i)' = RowsOf(i)]_vars
  BY SecondRowStep
<1> QED
  BY <1>1, TypeAlways, OneAlways, PTL DEF Spec, NoSecondRow

\* While requests come one after the other: an identifier that got 200 is known
\* as long as the process runs, and gets no second 200.
THEOREM AcknowledgedIsKnown == Spec => []AckedIsKnown
<1>1. TypeInv /\ OneInv => AckedIsKnown
  BY DEF TypeInv, LocalsOK, OneInv, Acked, Known, AckedIsKnown, Query
<1> QED
  BY <1>1, TypeAlways, OneAlways, PTL

-----------------------------------------------------------------------------
(* Refinement: requests one after the other are those of a Register *)

KnownSet == {i \in Ids : Query(i) = "DEFINITELY_YES"}
Learning == {"entity", "target", "advance", "advanceWrite", "write", "ok"}
LearningSet == {id[w] : w \in {v \in Workers : pc[v] \in Learning}}
AckedSet == {i \in Ids : acks[i] > 0}

\* What is in the exact store has its bits in the filter; and a request that got
\* past the duplicate check adds an identifier that is not there, and nothing
\* else.
MapInv ==
  alone =>
  /\ \A i \in m_exact_store : Hashes[i] \subseteq m_bits
  /\ \A w \in Workers :
        /\ pc[w] \in {"add", "addWrite", "store", "storeWrite"} => id[w] \notin m_exact_store
        /\ pc[w] = "storeWrite" => copy[w] \subseteq {id[w]} \cup m_exact_store

\* The abstract steps in the words of the mapping.
LEMMA MappedStutter ==
  ASSUME up' = up, alone' = alone, KnownSet' = KnownSet, LearningSet' = LearningSet,
         OnDisk' = OnDisk, AckedSet' = AckedSet
  PROVE  UNCHANGED R!rvars
<1>1. R!rvars = <<up, alone, KnownSet, LearningSet, OnDisk, AckedSet>>
  BY DEF R!rvars, KnownSet, LearningSet, Learning, AckedSet
<1>2. R!rvars' = <<up', alone', KnownSet', LearningSet', OnDisk', AckedSet'>>
  BY DEF R!rvars, KnownSet, LearningSet, Learning, AckedSet
<1> QED
  BY <1>1, <1>2

LEMMA MappedLearn ==
  ASSUME NEW i \in Ids, up, alone, LearningSet = {}, i \notin KnownSet \cup AckedSet,
         up' = up, alone' = alone, KnownSet' = KnownSet \cup {i}, LearningSet' = {i},
         OnDisk' = OnDisk, AckedSet' = AckedSet
  PROVE  R!Learn(i)
  BY DEF R!Learn, KnownSet, LearningSet, Learning, AckedSet

LEMMA MappedPersist ==
  ASSUME NEW i \in Ids, up, alone, i \in LearningSet,
         up' = up, alone' = alone, KnownSet' = KnownSet, LearningSet' = LearningSet,
         OnDisk' = OnDisk \cup {i}, AckedSet' = AckedSet
  PROVE  R!Persist(i)
  BY DEF R!Persist, KnownSet, LearningSet, Learning, AckedSet

LEMMA MappedAcknowledge ==
  ASSUME NEW i \in Ids, up, alone, i \in LearningSet,
         up' = up, alone' = alone, KnownSet' = KnownSet, LearningSet' = {}, OnDisk' = OnDisk,
         AckedSet' = AckedSet \cup {i}
  PROVE  R!Acknowledge(i)
  BY DEF R!Acknowledge, KnownSet, LearningSet, Learning, AckedSet

LEMMA MappedCrash ==
  ASSUME up, up' = FALSE, alone' = alone, KnownSet' = {}, LearningSet' = {}, AckedSet' = {},
         OnDisk' = OnDisk
  PROVE  R!Crash
  BY DEF R!Crash, KnownSet, LearningSet, Learning, AckedSet

LEMMA MappedRestart ==
  ASSUME ~ up, up' = TRUE, alone' = TRUE, KnownSet' \subseteq OnDisk, LearningSet' = {},
         OnDisk' = OnDisk, AckedSet' = {}
  PROVE  R!Restart
  BY DEF R!Restart, KnownSet, LearningSet, Learning, AckedSet

LEMMA MappedOverlap ==
  ASSUME alone' = FALSE, OnDisk \subseteq OnDisk'
  PROVE  R!Overlap
  BY DEF R!Overlap

LEMMA KnownIsStore ==
  /\ TypeInv /\ MapInv /\ alone => KnownSet = m_exact_store
  /\ TypeInv' /\ MapInv' /\ alone' => KnownSet' = m_exact_store'
<1>1. ASSUME TypeInv, MapInv, alone PROVE KnownSet = m_exact_store
  BY <1>1 DEF TypeInv, TypeOK, MapInv, KnownSet, Query
<1>2. ASSUME TypeInv', MapInv', alone' PROVE KnownSet' = m_exact_store'
  BY <1>2 DEF TypeInv, TypeOK, MapInv, KnownSet, Query
<1> QED
  BY <1>1, <1>2

LEMMA MapInit == Init => MapInv
  BY DEF Init, MapInv

LEMMA MapStep ==
  ASSUME TypeInv, OneInv, MapInv, [Next]_vars
  PROVE  MapInv'
<1> SUFFICES ASSUME alone' PROVE MapInv'
  BY DEF MapInv
<1>0. alone => Single /\ Progress
  BY DEF OneInv
<1> USE DEF TypeInv, TypeOK, LocalsOK, MapInv, Single, Steps, Step, memory, locals, process,
            disk, history
<1>1. CASE UNCHANGED vars
  BY <1>1 DEF vars
<1>2. ASSUME NEW w \in Workers, NEW i \in Ids, Begin(w, i) PROVE MapInv'
  BY <1>0, <1>2 DEF Begin
<1>3. ASSUME NEW w \in Workers, CheckSpace(w) PROVE MapInv'
  BY <1>0, <1>3 DEF CheckSpace
<1>4. ASSUME NEW w \in Workers, CheckDuplicate(w) PROVE MapInv'
  BY <1>0, <1>4 DEF CheckDuplicate, Query
<1>5. ASSUME NEW w \in Workers, AddRead(w) PROVE MapInv'
  BY <1>0, <1>5 DEF AddRead
<1>6. ASSUME NEW w \in Workers, AddWrite(w) PROVE MapInv'
  <2>1. Fresh(copy[w], m_bits)
    BY <1>0, <1>6 DEF AddWrite, Progress
  <2>2. m_bits' = m_bits \cup copy[w]
    BY <1>6, <2>1, WriteBack DEF AddWrite
  <2> QED
    BY <1>0, <1>6, <2>2 DEF AddWrite
<1>7. ASSUME NEW w \in Workers, StoreRead(w) PROVE MapInv'
  BY <1>0, <1>7 DEF StoreRead, SamePlace
<1>8. ASSUME NEW w \in Workers, StoreWrite(w) PROVE MapInv'
  <2>1. Fresh(copy[w], m_exact_store) /\ Hashes[id[w]] \subseteq m_bits
    BY <1>0, <1>8 DEF StoreWrite, Progress, Writing
  <2>2. m_exact_store' = m_exact_store \cup copy[w]
    BY <1>8, <2>1, WriteBack DEF StoreWrite
  <2> QED
    BY <1>0, <1>8, <2>1, <2>2 DEF StoreWrite
<1>9. ASSUME NEW w \in Workers, EntityGuards(w) PROVE MapInv'
  BY <1>0, <1>9 DEF EntityGuards
<1>10. ASSUME NEW w \in Workers, PickTarget(w) PROVE MapInv'
  BY <1>0, <1>10 DEF PickTarget
<1>11. ASSUME NEW w \in Workers, AdvanceRead(w) PROVE MapInv'
  BY <1>0, <1>11 DEF AdvanceRead
<1>12. ASSUME NEW w \in Workers, AdvanceWrite(w) PROVE MapInv'
  BY <1>0, <1>12 DEF AdvanceWrite
<1>13. ASSUME NEW w \in Workers, Write(w) PROVE MapInv'
  BY <1>0, <1>13 DEF Write
<1>14. ASSUME NEW w \in Workers, Succeed(w) PROVE MapInv'
  BY <1>0, <1>14 DEF Succeed, Forget
<1>15. CASE DiskSpace
  BY <1>0, <1>15 DEF DiskSpace
<1>16. CASE Crash
  BY <1>16 DEF Crash
<1>17. CASE Restart
  <2>1. \A w \in Workers : pc'[w] = "idle"
    BY <1>17 DEF Restart
  <2>2. PICK loaded \in SUBSET OnDisk :
           m_bits' = UNION {Hashes[i] : i \in loaded} /\ m_exact_store' = loaded
    BY <1>17, RestartLoads
  <2> QED
    BY <2>1, <2>2
<1>18. ASSUME NEW w \in Workers, RefuseSpace(w) PROVE MapInv'
  BY <1>0, <1>18 DEF RefuseSpace, Forget
<1>19. ASSUME NEW w \in Workers, RefuseDuplicate(w) PROVE MapInv'
  BY <1>0, <1>19 DEF RefuseDuplicate, Forget
<1> QED
  BY <1>1, <1>2, <1>3, <1>4, <1>5, <1>6, <1>7, <1>8, <1>9, <1>10, <1>11, <1>12, <1>13,
     <1>14, <1>15, <1>16, <1>17, <1>18, <1>19
     DEF Next, Insert

LEMMA MapAlways == Spec => []MapInv
<1>1. TypeInv /\ OneInv /\ MapInv /\ [Next]_vars => MapInv'
  BY MapStep
<1> QED
  BY MapInit, <1>1, TypeAlways, OneAlways, PTL DEF Spec

\* The one worker that is busy is learning, or nobody is.
LEMMA LearningOfOne ==
  /\ Single => \A w \in Workers : pc[w] # "idle" =>
       LearningSet = IF pc[w] \in Learning THEN {id[w]} ELSE {}
  /\ Single' => \A w \in Workers : pc'[w] # "idle" =>
       LearningSet' = IF pc'[w] \in Learning THEN {id'[w]} ELSE {}
  /\ (\A w \in Workers : pc[w] = "idle") => LearningSet = {}
  /\ (\A w \in Workers : pc'[w] = "idle") => LearningSet' = {}
  BY DEF Single, LearningSet, Learning

LEMMA InitMaps == Init => R!Init
<1> SUFFICES ASSUME Init PROVE R!Init
  OBVIOUS
<1>1. {i \in Ids : Query(i) = "DEFINITELY_YES"} = {}
  BY DEF Init, Query
<1>2. {w \in Workers : pc[w] \in {"entity", "target", "advance", "advanceWrite", "write", "ok"}}
        = {}
  BY DEF Init
<1>3. OnDisk = {}
  BY DEF Init, OnDisk
<1>4. {i \in Ids : acks[i] > 0} = {}
  BY DEF Init
<1> QED
  BY <1>1, <1>2, <1>3, <1>4 DEF Init, R!Init

\* Rows stay.
LEMMA DiskGrows == TypeInv /\ [Next]_vars => OnDisk \subseteq OnDisk'
<1> SUFFICES ASSUME TypeInv, [Next]_vars PROVE OnDisk \subseteq OnDisk'
  OBVIOUS
<1>1. CASE rows' = rows
  BY <1>1, SameDisk
<1>2. CASE rows' # rows
  <2>1. PICK w \in Workers : Write(w)
    BY <1>2 DEF Next, Insert, vars, memory, locals, process, disk, history, Begin, CheckSpace,
                CheckDuplicate, RefuseSpace, RefuseDuplicate, AddRead, AddWrite, StoreRead,
                StoreWrite, EntityGuards, PickTarget, AdvanceRead, AdvanceWrite, Succeed,
                DiskSpace, Crash, Restart
  <2>2. rows' = [rows EXCEPT ![num[w]] = Append(@, id[w])]
    BY <1>2, <2>1 DEF Write
  <2>3. num[w] \in Shard /\ id[w] \in Ids /\ rows \in [Shard -> Seq(Ids)]
    BY <2>1 DEF Write, Step, TypeInv, TypeOK
  <2> QED
    BY <2>2, <2>3, RowsGrow
<1> QED
  BY <1>1, <1>2

\* What holds in both states of a step by one worker while requests come one
\* after the other.
StepFacts ==
  /\ TypeInv /\ OneInv /\ MapInv
  /\ TypeInv' /\ OneInv' /\ MapInv'
  /\ alone /\ alone'

\* A worker's step that learns, stores and acknowledges nothing.
LEMMA QuietStep ==
  ASSUME StepFacts, NEW w \in Workers, pc[w] # "idle",
         UNCHANGED <<m_exact_store, up, rows, acks>>,
         \/ pc'[w] # "idle" /\ id' = id /\ (pc[w] \in Learning <=> pc'[w] \in Learning)
         \/ pc[w] \notin Learning /\ pc' = [pc EXCEPT ![w] = "idle"]
  PROVE  UNCHANGED R!rvars
<1>0. Single /\ Single' /\ alone' = alone /\ pc \in [Workers -> Steps]
  BY DEF StepFacts, OneInv, TypeInv, TypeOK
<1>1. KnownSet' = KnownSet
  BY KnownIsStore DEF StepFacts
<1>2. LearningSet' = LearningSet
  <2>1. LearningSet = IF pc[w] \in Learning THEN {id[w]} ELSE {}
    BY <1>0, LearningOfOne
  <2>2. CASE pc'[w] # "idle" /\ id' = id /\ (pc[w] \in Learning <=> pc'[w] \in Learning)
    <3>1. LearningSet' = IF pc'[w] \in Learning THEN {id'[w]} ELSE {}
      BY <1>0, <2>2, LearningOfOne
    <3> QED
      BY <2>1, <2>2, <3>1
  <2>3. CASE pc[w] \notin Learning /\ pc' = [pc EXCEPT ![w] = "idle"]
    <3>1. \A v \in Workers : pc'[v] = "idle"
      BY <1>0, <2>3 DEF Single
    <3> QED
      BY <2>1, <2>3, <3>1, LearningOfOne
  <2> QED
    BY <2>2, <2>3
<1>3. OnDisk' = OnDisk
  BY SameDisk
<1>4. AckedSet' = AckedSet
  BY DEF AckedSet
<1> QED
  BY <1>0, <1>1, <1>2, <1>3, <1>4, MappedStutter

LEMMA LearnMaps ==
  ASSUME StepFacts, NEW w \in Workers, StoreWrite(w)
  PROVE  R!Next
<1> USE DEF Step, process, disk, history
<1>1. /\ up /\ up' = up /\ UNCHANGED <<rows, acks, id>>
      /\ pc[w] = "storeWrite" /\ pc'[w] = "entity"
      /\ Single /\ Single' /\ alone /\ alone' = alone
  BY DEF StoreWrite, StepFacts, OneInv, TypeInv, TypeOK
<1>2. id[w] \in Ids
  BY <1>1 DEF StepFacts, TypeInv, TypeOK
<1>3. LearningSet = {} /\ LearningSet' = {id[w]}
  BY <1>1, LearningOfOne DEF Learning
<1>4. /\ id[w] \notin m_exact_store /\ copy[w] \subseteq {id[w]} \cup m_exact_store
      /\ id[w] \in copy[w] /\ Fresh(copy[w], m_exact_store)
      /\ acks[id[w]] = 0
  BY <1>1 DEF MapInv, StepFacts, OneInv, Progress, Writing
<1>5. m_exact_store' = m_exact_store \cup copy[w]
  BY <1>4, WriteBack DEF StoreWrite
<1>6. KnownSet' = KnownSet \cup {id[w]} /\ id[w] \notin KnownSet
  BY <1>4, <1>5, KnownIsStore DEF StepFacts
<1>7. id[w] \notin AckedSet
  BY <1>2, <1>4 DEF AckedSet
<1>8. OnDisk' = OnDisk /\ AckedSet' = AckedSet
  BY <1>1, SameDisk DEF AckedSet
<1>9. ASSUME NEW i \in Ids, i = id[w] PROVE R!Learn(i)
  <2>1. LearningSet = {} /\ LearningSet' = {i} /\ KnownSet' = KnownSet \cup {i}
    BY <1>3, <1>6, <1>9
  <2>2. i \notin KnownSet \cup AckedSet
    BY <1>6, <1>7, <1>9
  <2>3. up /\ up' = up /\ alone /\ alone' = alone
    BY <1>1
  <2> QED
    BY <1>8, <2>1, <2>2, <2>3, MappedLearn
<1> QED
  BY <1>2, <1>9 DEF R!Next

LEMMA PersistMaps ==
  ASSUME StepFacts, NEW w \in Workers, Write(w)
  PROVE  [R!Next]_(R!rvars)
<1> USE DEF Step, memory, process, disk, history
<1>1. /\ up /\ UNCHANGED <<m_exact_store, up, acks, id>>
      /\ pc[w] = "write" /\ pc'[w] = "ok"
      /\ Single /\ Single' /\ alone /\ alone' = alone
  BY DEF Write, StepFacts, OneInv, TypeInv, TypeOK
<1>2. CASE UNCHANGED rows
  BY <1>1, <1>2, QuietStep DEF Learning
<1>3. CASE rows' = [rows EXCEPT ![num[w]] = Append(@, id[w])]
  <2>1. id[w] \in Ids /\ num[w] \in Shard /\ rows \in [Shard -> Seq(Ids)]
    BY <1>1 DEF StepFacts, TypeInv, TypeOK
  <2>2. OnDisk' = OnDisk \cup {id[w]}
    BY <1>3, <2>1, NewRow, RowsGrow
  <2>3. LearningSet = {id[w]} /\ LearningSet' = LearningSet
    BY <1>1, LearningOfOne DEF Learning
  <2>4. KnownSet' = KnownSet /\ AckedSet' = AckedSet
    BY <1>1, KnownIsStore DEF AckedSet, StepFacts
  <2>5. ASSUME NEW i \in Ids, i = id[w] PROVE R!Persist(i)
    <3>1. i \in LearningSet /\ OnDisk' = OnDisk \cup {i}
      BY <2>2, <2>3, <2>5
    <3>2. up /\ up' = up /\ alone /\ alone' = alone
      BY <1>1
    <3> QED
      BY <2>3, <2>4, <3>1, <3>2, MappedPersist
  <2> QED
    BY <2>1, <2>5 DEF R!Next
<1> QED
  BY <1>2, <1>3 DEF Write

LEMMA AcknowledgeMaps ==
  ASSUME StepFacts, NEW w \in Workers, Succeed(w)
  PROVE  R!Next
<1> USE DEF Step, memory, process, disk
<1>1. /\ up /\ UNCHANGED <<m_exact_store, up, rows>>
      /\ pc[w] = "ok" /\ pc' = [pc EXCEPT ![w] = "idle"]
      /\ acks' = [acks EXCEPT ![id[w]] = @ + 1]
      /\ Single /\ alone /\ alone' = alone
  BY DEF Succeed, StepFacts, OneInv, TypeInv, TypeOK
<1>2. id[w] \in Ids /\ acks \in [Ids -> Nat] /\ pc \in [Workers -> Steps]
  BY <1>1 DEF StepFacts, TypeInv, TypeOK, LocalsOK
<1>3. AckedSet' = AckedSet \cup {id[w]}
  <2>1. \A i \in Ids : acks'[i] = IF i = id[w] THEN acks[i] + 1 ELSE acks[i]
    BY <1>1, <1>2
  <2> QED
    BY <1>2, <2>1 DEF AckedSet
<1>4. LearningSet = {id[w]}
  BY <1>1, LearningOfOne DEF Learning
<1>5. LearningSet' = {}
  <2>1. \A v \in Workers : pc'[v] = "idle"
    BY <1>1, <1>2 DEF Single
  <2> QED
    BY <2>1, LearningOfOne
<1>6. OnDisk' = OnDisk /\ KnownSet' = KnownSet
  BY <1>1, SameDisk, KnownIsStore DEF StepFacts
<1>7. ASSUME NEW i \in Ids, i = id[w] PROVE R!Acknowledge(i)
  <2>1. AckedSet' = AckedSet \cup {i} /\ i \in LearningSet /\ LearningSet' = {}
    BY <1>3, <1>4, <1>5, <1>7
  <2>2. up /\ up' = up /\ alone /\ alone' = alone
    BY <1>1
  <2> QED
    BY <1>6, <2>1, <2>2, MappedAcknowledge
<1> QED
  BY <1>2, <1>7 DEF R!Next

LEMMA RestartMaps ==
  ASSUME TypeInv, TypeInv', MapInv', Restart
  PROVE  R!Restart
<1>1. PICK loaded \in SUBSET OnDisk : m_exact_store' = loaded
  BY RestartLoads
<1>2. ~ up /\ up' = TRUE /\ alone' = TRUE /\ OnDisk' = OnDisk
  BY SameDisk DEF Restart, disk
<1>3. KnownSet' \subseteq OnDisk
  BY <1>1, <1>2, KnownIsStore
<1>4. LearningSet' = {}
  <2>1. \A w \in Workers : pc'[w] = "idle"
    BY DEF Restart, locals, TypeInv, LocalsOK
  <2> QED
    BY <2>1, LearningOfOne
<1>5. AckedSet' = {}
  BY DEF Restart, AckedSet, TypeInv, LocalsOK
<1> QED
  BY <1>2, <1>3, <1>4, <1>5, MappedRestart

LEMMA StepMaps ==
  ASSUME TypeInv, OneInv, MapInv, TypeInv', OneInv', MapInv', [Next]_vars
  PROVE  [R!Next]_(R!rvars)
<1>1. CASE alone' = FALSE
  BY <1>1, DiskGrows, MappedOverlap DEF R!Next
<1>2. CASE Restart
  BY <1>2, RestartMaps DEF R!Next
<1>3. CASE alone' # FALSE /\ ~ Restart
  <2> USE DEF Step, memory, locals, process, disk, history
  <2>1. alone /\ alone'
    BY <1>3 DEF Next, Insert, vars, Begin, CheckSpace, CheckDuplicate, RefuseSpace,
                RefuseDuplicate, AddRead, AddWrite, StoreRead, StoreWrite, EntityGuards,
                PickTarget, AdvanceRead, AdvanceWrite, Write, Succeed, DiskSpace, Crash,
                TypeInv, TypeOK
  <2>2. StepFacts /\ alone' = alone /\ Single
    BY <2>1 DEF StepFacts, OneInv, TypeInv, TypeOK
  <2>3. CASE UNCHANGED vars \/ DiskSpace
    <3>1. KnownSet' = KnownSet /\ LearningSet' = LearningSet /\ OnDisk' = OnDisk
            /\ AckedSet' = AckedSet /\ up' = up
      BY <2>3 DEF vars, DiskSpace, KnownSet, LearningSet, AckedSet, OnDisk, Query
    <3> QED
      BY <2>2, <3>1, MappedStutter
  <2>4. ASSUME NEW w \in Workers,
               \/ CheckSpace(w) \/ CheckDuplicate(w) \/ AddRead(w) \/ AddWrite(w)
               \/ StoreRead(w) \/ EntityGuards(w) \/ PickTarget(w) \/ AdvanceRead(w)
               \/ AdvanceWrite(w)
        PROVE  UNCHANGED R!rvars
    <3>1. UNCHANGED <<m_exact_store, up, rows, acks, id>> /\ pc[w] # "idle"
      BY <2>4 DEF CheckSpace, CheckDuplicate, AddRead, AddWrite, StoreRead, EntityGuards,
                  PickTarget, AdvanceRead, AdvanceWrite
    <3>2. pc'[w] # "idle" /\ (pc[w] \in Learning <=> pc'[w] \in Learning)
      BY <2>4 DEF CheckSpace, CheckDuplicate, AddRead, AddWrite, StoreRead, EntityGuards,
                  PickTarget, AdvanceRead, AdvanceWrite, Learning, TypeInv, TypeOK
    <3> QED
      BY <2>2, <3>1, <3>2, QuietStep
  <2>5. ASSUME NEW w \in Workers, RefuseSpace(w) \/ RefuseDuplicate(w)
        PROVE  UNCHANGED R!rvars
    <3>1. /\ UNCHANGED <<m_exact_store, up, rows, acks>>
          /\ pc[w] # "idle" /\ pc[w] \notin Learning /\ pc' = [pc EXCEPT ![w] = "idle"]
      BY <2>5 DEF RefuseSpace, RefuseDuplicate, Learning
    <3> QED
      BY <2>2, <3>1, QuietStep
  <2>6. ASSUME NEW w \in Workers, NEW i \in Ids, Begin(w, i) PROVE UNCHANGED R!rvars
    <3>1. KnownSet' = KnownSet
      BY <2>6 DEF Begin, KnownSet, Query
    <3>2. \A v \in Workers : pc[v] = "idle"
      BY <2>1, <2>6 DEF Begin
    <3>3. LearningSet = {} /\ LearningSet' = {}
      <4>1. Single' /\ pc'[w] = "space"
        BY <2>2, <2>6 DEF Begin, StepFacts, OneInv, TypeInv, TypeOK
      <4> QED
        BY <3>2, <4>1, LearningOfOne DEF Learning
    <3>4. OnDisk' = OnDisk /\ AckedSet' = AckedSet /\ up' = up
      BY <2>6, SameDisk DEF Begin, AckedSet
    <3> QED
      BY <2>2, <3>1, <3>3, <3>4, MappedStutter
  <2>7. ASSUME Crash PROVE R!Crash
    <3>1. KnownSet' = {}
      BY <2>2, <2>7, KnownIsStore DEF Crash, StepFacts
    <3>2. LearningSet' = {} /\ AckedSet' = {}
      BY <2>7 DEF Crash, LearningSet, Learning, AckedSet
    <3>3. OnDisk' = OnDisk /\ up /\ up' = FALSE
      BY <2>7, SameDisk DEF Crash
    <3> QED
      BY <2>2, <3>1, <3>2, <3>3, MappedCrash
  <2>8. ASSUME NEW w \in Workers, Insert(w) PROVE [R!Next]_(R!rvars)
    BY <2>2, <2>4, <2>5, <2>8, LearnMaps, PersistMaps, AcknowledgeMaps DEF Insert
  <2>9. R!Crash => R!Next
    BY DEF R!Next
  <2> QED
    BY <1>3, <2>3, <2>6, <2>7, <2>8, <2>9 DEF Next
<1> QED
  BY <1>1, <1>2, <1>3

\* Whatever crashes and fails in between, clients whose requests come one after
\* the other see a Register, for any identifiers, hashes and shards (the insert
\* branch, loadAllIdentifiers).
THEOREM RegistryImplementsRegister == Spec => ImplementsRegister
<1>1. /\ TypeInv /\ OneInv /\ MapInv
      /\ TypeInv' /\ OneInv' /\ MapInv'
      /\ [Next]_vars
      => [R!Next]_(R!rvars)
  BY StepMaps
<1> QED
  BY InitMaps, <1>1, TypeAlways, OneAlways, MapAlways, PTL
     DEF Spec, ImplementsRegister, R!Spec
=============================================================================
