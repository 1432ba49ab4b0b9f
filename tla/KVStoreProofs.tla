---------------------------- MODULE KVStoreProofs ----------------------------
(***************************************************************************)
(* Proofs about KVStore, for every set of keys, values and timestamps: the *)
(* versions of a key stay in order and the reads of a key that exists are  *)
(* snapshot reads.                                                         *)
(***************************************************************************)
EXTENDS KVStore, SequenceTheorems, WellFoundedInduction, TLAPS

\* The timestamps are numbers.
LEMMA TimestampsAreNat ==
    /\ \A t \in Timestamp : t \in Nat
    /\ \A t \in Timestamp \cup {0} : t \in Nat
BY TimestampAssumption

\* The parts of the versions of a key.
LEMMA VersionParts ==
    ASSUME NEW versions \in Seq(Version)
    PROVE  /\ Len(versions) \in Nat
           /\ \A k \in 1..Len(versions) : /\ versions[k].timestamp \in Nat
                                          /\ versions[k].value \in Value
<1>1. Len(versions) \in Nat /\ \A k \in 1..Len(versions) : versions[k] \in Version
  BY LenProperties, ElementOfSeq
<1>2. \A v \in Version : v.timestamp \in Timestamp /\ v.value \in Value
  BY DEF Version
<1>3. QED
  BY <1>1, <1>2, TimestampsAreNat

\* The parts of an entry.
LEMMA EntryParts ==
    ASSUME NEW entry \in [versions : Seq(Version), lat : Timestamp \cup {0}]
    PROVE  entry.versions \in Seq(Version) /\ entry.lat \in Nat
<1>1. entry.versions \in Seq(Version) /\ entry.lat \in Timestamp \cup {0}
  OBVIOUS
<1>2. QED
  BY <1>1, TimestampsAreNat

-----------------------------------------------------------------------------
(* The position of a timestamp in a list of versions.                      *)

\* There is at most one position, so a position that is known is the one read uses.
LEMMA PositionIs ==
    ASSUME NEW versions \in Seq(Version), NEW t \in Timestamp,
           NEW n \in 0..Len(versions), IsPosition(n, versions, t)
    PROVE  position(versions, t) = n
<1>1. Len(versions) \in Nat /\ \A k \in 1..Len(versions) : versions[k].timestamp \in Nat
  BY VersionParts
<1>2. ASSUME NEW m \in 0..Len(versions), IsPosition(m, versions, t) PROVE m = n
  <2>1. CASE m < n
    <3>1. m + 1 \in 1..n /\ m + 1 \in (m + 1)..Len(versions) /\ m + 1 \in 1..Len(versions)
      BY <1>1, <2>1
    <3>2. versions[m + 1].timestamp <= t /\ t < versions[m + 1].timestamp
      BY <3>1, <1>2 DEF IsPosition
    <3>3. QED
      BY <3>1, <3>2, <1>1, TimestampsAreNat
  <2>2. CASE n < m
    <3>1. n + 1 \in 1..m /\ n + 1 \in (n + 1)..Len(versions) /\ n + 1 \in 1..Len(versions)
      BY <1>1, <2>2
    <3>2. versions[n + 1].timestamp <= t /\ t < versions[n + 1].timestamp
      BY <3>1, <1>2 DEF IsPosition
    <3>3. QED
      BY <3>1, <3>2, <1>1, TimestampsAreNat
  <2>3. QED
    BY <2>1, <2>2, <1>1
<1>3. QED
  BY <1>2 DEF position

\* Every timestamp of the instance has a position in the versions.
HasPositions(versions) ==
    \A t \in Timestamp : \E n \in 0..Len(versions) : IsPosition(n, versions, t)

\* The versions are in order and none is later than lat.
Ordered(versions, lat) ==
    /\ \A j, k \in 1..Len(versions) :
           j < k => versions[j].timestamp < versions[k].timestamp
    /\ \A j \in 1..Len(versions) : versions[j].timestamp <= lat

\* read finds the position.
LEMMA PositionFound ==
    ASSUME NEW versions \in Seq(Version), HasPositions(versions), NEW t \in Timestamp
    PROVE  /\ position(versions, t) \in 0..Len(versions)
           /\ IsPosition(position(versions, t), versions, t)
<1>1. PICK n \in 0..Len(versions) : IsPosition(n, versions, t)
  BY DEF HasPositions
<1>2. QED
  BY <1>1, PositionIs

\* What a write that is not to the past does to the versions of a key.
LEMMA WriteFacts ==
    ASSUME NEW entry \in [versions : Seq(Version), lat : Timestamp \cup {0}],
           Ordered(entry.versions, entry.lat), HasPositions(entry.versions),
           NEW value \in Value, NEW ts \in Timestamp, NotInThePast(entry, ts)
    PROVE  LET new == write(entry, value, ts)
           IN /\ new \in [versions : Seq(Version), lat : Timestamp \cup {0}]
              /\ Exists(new)
              /\ Ordered(new.versions, new.lat)
              /\ HasPositions(new.versions)
              /\ Exists(entry) => entry.lat < new.lat
              /\ \A t \in Timestamp :
                     Exists(entry) /\ t <= entry.lat => read_value(new, t) = read_value(entry, t)
<1> DEFINE old == entry.versions
           len == Len(old)
           v == [timestamp |-> ts, value |-> value]
           new == Append(old, v)
<1>1. old \in Seq(Version) /\ len \in Nat /\ v \in Version /\ v.timestamp = ts
  BY DEF Version
<1>2. /\ new \in Seq(Version) /\ Len(new) = len + 1
      /\ \A k \in 1..len : new[k] = old[k]
      /\ new[len + 1] = v
  BY <1>1, AppendProperties
<1>3. /\ write(entry, value, ts).versions = new
      /\ write(entry, value, ts).lat = ts
      /\ write(entry, value, ts) \in [versions : Seq(Version), lat : Timestamp \cup {0}]
  BY <1>2 DEF write
<1>4. ts \in Nat /\ (\A k \in 1..len : old[k].timestamp \in Nat) /\ entry.lat \in Nat
  <2>1. ts \in Nat /\ entry.lat \in Nat
    BY EntryParts, TimestampsAreNat
  <2> HIDE DEF old
  <2>2. QED
    BY <2>1, <1>1, VersionParts
<1>5. len > 0 <=> Exists(entry)
  BY <1>1, EmptySeq DEF Exists
<1>6. \A k \in 1..len : old[k].timestamp < ts
  BY <1>1, <1>4, <1>5 DEF Ordered, NotInThePast
<1> HIDE DEF old, len, v, new
<1>7. Ordered(new, ts)
  <2>1. ASSUME NEW j \in 1..(len + 1), NEW k \in 1..(len + 1), j < k
        PROVE  new[j].timestamp < new[k].timestamp
    <3>1. j \in 1..len /\ new[j] = old[j]
      BY <2>1, <1>1, <1>2
    <3>2. CASE k = len + 1
      BY <3>1, <3>2, <1>1, <1>2, <1>6
    <3>3. CASE k \in 1..len
      BY <3>1, <3>3, <2>1, <1>2 DEF Ordered, old, len
    <3>4. QED
      BY <3>2, <3>3, <1>1
  <2>2. ASSUME NEW j \in 1..(len + 1) PROVE new[j].timestamp <= ts
    <3>1. CASE j = len + 1
      BY <3>1, <1>1, <1>2, <1>4
    <3>2. CASE j \in 1..len
      BY <3>2, <1>2, <1>4, <1>6
    <3>3. QED
      BY <3>1, <3>2, <1>1
  <2>3. QED
    BY <2>1, <2>2, <1>2 DEF Ordered
<1>8. ASSUME NEW t \in Timestamp, NEW n \in 0..len, IsPosition(n, old, t)
      PROVE  /\ t < ts => IsPosition(n, new, t)
             /\ t >= ts => IsPosition(len + 1, new, t)
  <2>1. t \in Nat
    BY TimestampsAreNat
  <2>2. ASSUME t < ts PROVE IsPosition(n, new, t)
    <3>1. ASSUME NEW k \in 1..n PROVE new[k].timestamp <= t
      BY <1>1, <1>2, <1>8 DEF IsPosition
    <3>2. ASSUME NEW k \in (n + 1)..(len + 1) PROVE t < new[k].timestamp
      <4>1. CASE k = len + 1
        BY <4>1, <2>2, <1>1, <1>2
      <4>2. CASE k \in (n + 1)..len
        <5>1. k \in 1..len
          BY <4>2, <1>1
        <5>2. QED
          BY <5>1, <4>2, <1>2, <1>8 DEF IsPosition, len
      <4>3. QED
        BY <4>1, <4>2, <1>1
    <3>3. QED
      BY <3>1, <3>2, <1>2 DEF IsPosition
  <2>3. ASSUME t >= ts PROVE IsPosition(len + 1, new, t)
    <3>1. ASSUME NEW k \in 1..(len + 1) PROVE new[k].timestamp <= t
      <4>1. CASE k = len + 1
        BY <4>1, <2>3, <2>1, <1>1, <1>2, <1>4
      <4>2. CASE k \in 1..len
        BY <4>2, <2>3, <2>1, <1>2, <1>4, <1>6
      <4>3. QED
        BY <4>1, <4>2, <1>1
    <3>2. (len + 2)..(len + 1) = {}
      BY <1>1
    <3>3. QED
      BY <3>1, <3>2, <1>1, <1>2 DEF IsPosition
  <2>4. QED
    BY <2>2, <2>3
<1>9. HasPositions(new)
  <2> SUFFICES ASSUME NEW t \in Timestamp
               PROVE  \E n \in 0..Len(new) : IsPosition(n, new, t)
    BY DEF HasPositions
  <2>1. PICK n \in 0..len : IsPosition(n, old, t)
    BY DEF HasPositions, old, len
  <2>2. n \in 0..(len + 1) /\ len + 1 \in 0..(len + 1)
    BY <1>1
  <2>3. t < ts \/ t >= ts
    BY <1>4, TimestampsAreNat
  <2>4. QED
    BY <2>1, <2>2, <2>3, <1>2, <1>8
<1>10. ASSUME NEW t \in Timestamp, Exists(entry), t <= entry.lat
       PROVE  read_value(write(entry, value, ts), t) = read_value(entry, t)
  <2>1. PICK n \in 0..len : IsPosition(n, old, t)
    BY DEF HasPositions, old, len
  <2>2. t < ts
    <3>1. entry.lat < ts
      BY <1>10 DEF NotInThePast
    <3>2. t \in Nat /\ ts \in Nat /\ entry.lat \in Nat
      BY EntryParts, TimestampsAreNat
    <3>3. QED
      BY <3>1, <3>2, <1>10
  <2>3. IsPosition(n, new, t)
    BY <2>1, <2>2, <1>8
  <2>4. position(old, t) = n
    BY <2>1, <1>1, PositionIs DEF len
  <2>5. n \in 0..Len(new)
    BY <1>1, <1>2
  <2>6. position(new, t) = n
    BY <2>3, <2>5, <1>2, PositionIs
  <2>7. n # 0 => new[n] = old[n]
    BY <1>1, <1>2
  <2>8. QED
    BY <2>4, <2>6, <2>7, <1>3 DEF read_value, old
<1>11. Exists(write(entry, value, ts))
  BY <1>1, <1>2, <1>3, EmptySeq DEF Exists
<1>12. Exists(entry) => entry.lat < ts
  BY DEF NotInThePast
<1>13. QED
  BY <1>3, <1>7, <1>9, <1>10, <1>11, <1>12

\* What a read does to the entry of a key: its versions stay, and its timestamp is
\* covered by the last access timestamp from then on.
LEMMA ReadFacts ==
    ASSUME NEW entry \in [versions : Seq(Version), lat : Timestamp \cup {0}],
           Ordered(entry.versions, entry.lat), HasPositions(entry.versions),
           NEW t \in Timestamp
    PROVE  LET new == read_entry(entry, t)
           IN /\ new \in [versions : Seq(Version), lat : Timestamp \cup {0}]
              /\ new.versions = entry.versions
              /\ Ordered(new.versions, new.lat)
              /\ entry.lat <= new.lat
              /\ Exists(entry) => t <= new.lat
              /\ read_value(entry, t) \in Value \cup {NoValue}
<1> DEFINE old == entry.versions
           n == position(old, t)
           new == read_entry(entry, t)
<1>1. old \in Seq(Version) /\ Len(old) \in Nat /\ entry.lat \in Nat /\ t \in Nat
  BY EntryParts, TimestampsAreNat, LenProperties
<1>2. n \in 0..Len(old) /\ IsPosition(n, old, t)
  BY <1>1, PositionFound
<1>3. \A k \in 1..Len(old) : old[k].timestamp \in Nat /\ old[k].value \in Value
  <2> HIDE DEF old
  <2> QED BY <1>1, VersionParts
<1> HIDE DEF old, n, new
<1>4. /\ new \in [versions : Seq(Version), lat : Timestamp \cup {0}]
      /\ new.versions = old
      /\ new.lat = IF n > 0 /\ t > entry.lat THEN t ELSE entry.lat
  BY DEF read_entry, n, old, new
<1>5. entry.lat <= new.lat /\ new.lat \in Nat
  BY <1>1, <1>4
<1>6. Ordered(old, new.lat)
  BY <1>1, <1>3, <1>5 DEF Ordered, old
<1>7. ASSUME Exists(entry) PROVE t <= new.lat
  <2>1. Len(old) > 0
    BY <1>7, <1>1, EmptySeq DEF Exists, old
  <2>2. CASE n > 0
    BY <2>2, <1>1, <1>4
  <2>3. CASE n = 0
    <3>1. t < old[1].timestamp
      BY <2>1, <2>3, <1>1, <1>2 DEF IsPosition
    <3>2. old[1].timestamp <= entry.lat
      BY <2>1, <1>1 DEF Ordered, old
    <3>3. 1 \in 1..Len(old)
      BY <2>1, <1>1
    <3>4. QED
      BY <3>1, <3>2, <3>3, <1>1, <1>3, <1>5
  <2>4. QED
    BY <2>2, <2>3, <1>2, <1>1
<1>8. read_value(entry, t) \in Value \cup {NoValue}
  BY <1>1, <1>2, <1>3 DEF read_value, n, old
<1>9. QED
  BY <1>4, <1>5, <1>6, <1>7, <1>8 DEF old, new

-----------------------------------------------------------------------------
(* The inductive invariant.                                                *)

\* SnapshotReads alone is not inductive: a write keeps the result of a read only
\* because the read's timestamp is not after the key's last access.
KVInv ==
    /\ TypeOK
    /\ \A key \in Key : /\ Ordered(mvkvs[key].versions, mvkvs[key].lat)
                        /\ HasPositions(mvkvs[key].versions)
    /\ \A r \in reads : /\ Exists(mvkvs[r.key])
                        /\ r.timestamp <= mvkvs[r.key].lat
                        /\ read_value(mvkvs[r.key], r.timestamp) = r.value

\* An empty store satisfies the invariant.
LEMMA KVInit == Init => KVInv
<1> SUFFICES ASSUME Init PROVE KVInv
  OBVIOUS
<1>1. /\ << >> \in Seq(Version) /\ Len(<< >>) = 0
      /\ NoEntry \in [versions : Seq(Version), lat : Timestamp \cup {0}]
  BY DEF NoEntry
<1>2. \A k \in 1..0 : FALSE
  OBVIOUS
<1>3. Ordered(<< >>, 0)
  BY <1>1, <1>2 DEF Ordered
<1>4. HasPositions(<< >>)
  <2>1. 0 \in 0..0 /\ (0 + 1)..0 = {} /\ 1..0 = {}
    OBVIOUS
  <2>2. QED
    BY <2>1, <1>1 DEF HasPositions, IsPosition
<1>5. QED
  BY <1>1, <1>3, <1>4 DEF Init, KVInv, TypeOK, NoEntry

\* A write keeps the invariant.
LEMMA WriteStep ==
    ASSUME KVInv, NEW key \in Key, NEW value \in Value, NEW ts \in Timestamp,
           Write(key, value, ts)
    PROVE  KVInv'
<1> DEFINE e == mvkvs[key]
           new == write(mvkvs[key], value, ts)
<1>1. /\ mvkvs \in [Key -> [versions : Seq(Version), lat : Timestamp \cup {0}]]
      /\ e \in [versions : Seq(Version), lat : Timestamp \cup {0}]
      /\ Ordered(e.versions, e.lat) /\ HasPositions(e.versions)
      /\ NotInThePast(e, ts)
  BY DEF KVInv, TypeOK, Write
<1>2. /\ new \in [versions : Seq(Version), lat : Timestamp \cup {0}]
      /\ Exists(new) /\ Ordered(new.versions, new.lat) /\ HasPositions(new.versions)
      /\ Exists(e) => e.lat < new.lat
      /\ \A t \in Timestamp : Exists(e) /\ t <= e.lat => read_value(new, t) = read_value(e, t)
  BY <1>1, WriteFacts
<1>3. mvkvs' = [mvkvs EXCEPT ![key] = new] /\ reads' = reads
  BY DEF Write
<1>4. mvkvs'[key] = new /\ \A k \in Key \ {key} : mvkvs'[k] = mvkvs[k]
  BY <1>1, <1>3
<1> HIDE DEF new
<1>5. TypeOK'
  BY <1>1, <1>2, <1>3 DEF KVInv, TypeOK
<1>6. ASSUME NEW k \in Key
      PROVE  Ordered(mvkvs'[k].versions, mvkvs'[k].lat) /\ HasPositions(mvkvs'[k].versions)
  BY <1>2, <1>4 DEF KVInv
<1>7. ASSUME NEW r \in reads
      PROVE  /\ Exists(mvkvs'[r.key]) /\ r.timestamp <= mvkvs'[r.key].lat
             /\ read_value(mvkvs'[r.key], r.timestamp) = r.value
  <2>1. r.key \in Key /\ r.timestamp \in Timestamp
    BY DEF KVInv, TypeOK
  <2>2. /\ Exists(mvkvs[r.key]) /\ r.timestamp <= mvkvs[r.key].lat
        /\ read_value(mvkvs[r.key], r.timestamp) = r.value
    BY DEF KVInv
  <2>3. CASE r.key # key
    BY <2>1, <2>2, <2>3, <1>4
  <2>4. CASE r.key = key
    <3>1. r.timestamp <= e.lat /\ e.lat < new.lat /\ read_value(new, r.timestamp) = r.value
      BY <2>1, <2>2, <2>4, <1>2
    <3>2. r.timestamp \in Nat /\ e.lat \in Nat /\ new.lat \in Nat
      BY <2>1, <1>1, <1>2, EntryParts, TimestampsAreNat
    <3>3. QED
      BY <3>1, <3>2, <2>4, <1>2, <1>4
  <2>5. QED
    BY <2>3, <2>4
<1>8. QED
  BY <1>3, <1>5, <1>6, <1>7 DEF KVInv

\* A read keeps the invariant, its own result included.
LEMMA ReadStep ==
    ASSUME KVInv, NEW key \in Key, NEW t \in Timestamp, Read(key, t)
    PROVE  KVInv'
<1> DEFINE e == mvkvs[key]
           new == read_entry(mvkvs[key], t)
           rec == [key |-> key, timestamp |-> t, value |-> read_value(e, t)]
<1>1. /\ mvkvs \in [Key -> [versions : Seq(Version), lat : Timestamp \cup {0}]]
      /\ e \in [versions : Seq(Version), lat : Timestamp \cup {0}]
      /\ Ordered(e.versions, e.lat) /\ HasPositions(e.versions)
  BY DEF KVInv, TypeOK
<1>2. /\ new \in [versions : Seq(Version), lat : Timestamp \cup {0}]
      /\ new.versions = e.versions /\ Ordered(new.versions, new.lat) /\ e.lat <= new.lat
      /\ Exists(e) => t <= new.lat
      /\ read_value(e, t) \in Value \cup {NoValue}
  BY <1>1, ReadFacts
<1>3. mvkvs' = [mvkvs EXCEPT ![key] = new]
  BY DEF Read
<1>4. mvkvs'[key] = new /\ \A k \in Key \ {key} : mvkvs'[k] = mvkvs[k]
  BY <1>1, <1>3
<1>5. reads' = reads \/ (Exists(e) /\ reads' = reads \cup {rec})
  BY DEF Read
<1>6. rec \in [key : Key, timestamp : Timestamp, value : Value \cup {NoValue}]
  BY <1>2
<1>7. \A s : read_value(new, s) = read_value(e, s)
  BY <1>2 DEF read_value
<1>8. Exists(new) <=> Exists(e)
  BY <1>2 DEF Exists
<1> HIDE DEF new
<1>9. TypeOK'
  BY <1>1, <1>2, <1>3, <1>5, <1>6 DEF KVInv, TypeOK
<1>10. ASSUME NEW k \in Key
       PROVE  Ordered(mvkvs'[k].versions, mvkvs'[k].lat) /\ HasPositions(mvkvs'[k].versions)
  BY <1>1, <1>2, <1>4 DEF KVInv
<1>11. ASSUME NEW r \in reads
       PROVE  /\ Exists(mvkvs'[r.key]) /\ r.timestamp <= mvkvs'[r.key].lat
              /\ read_value(mvkvs'[r.key], r.timestamp) = r.value
  <2>1. r.key \in Key /\ r.timestamp \in Timestamp
    BY DEF KVInv, TypeOK
  <2>2. /\ Exists(mvkvs[r.key]) /\ r.timestamp <= mvkvs[r.key].lat
        /\ read_value(mvkvs[r.key], r.timestamp) = r.value
    BY DEF KVInv
  <2>3. CASE r.key # key
    BY <2>1, <2>2, <2>3, <1>4
  <2>4. CASE r.key = key
    <3>1. r.timestamp \in Nat /\ e.lat \in Nat /\ new.lat \in Nat
      BY <2>1, <1>1, <1>2, EntryParts, TimestampsAreNat
    <3>2. r.timestamp <= e.lat /\ e.lat <= new.lat /\ Exists(new)
      BY <2>2, <2>4, <1>2, <1>8
    <3>3. read_value(new, r.timestamp) = r.value
      BY <2>2, <2>4, <1>7
    <3>4. QED
      BY <3>1, <3>2, <3>3, <2>4, <1>4
  <2>5. QED
    BY <2>3, <2>4
<1>12. Exists(e) => /\ Exists(mvkvs'[rec.key]) /\ rec.timestamp <= mvkvs'[rec.key].lat
                    /\ read_value(mvkvs'[rec.key], rec.timestamp) = rec.value
  BY <1>2, <1>4, <1>7, <1>8
<1>13. QED
  BY <1>5, <1>9, <1>10, <1>11, <1>12 DEF KVInv

\* KVInv is inductive.
LEMMA KVStep == KVInv /\ [Next]_vars => KVInv'
<1> SUFFICES ASSUME KVInv, [Next]_vars PROVE KVInv'
  OBVIOUS
<1>1. CASE UNCHANGED vars
  BY <1>1 DEF vars, KVInv, TypeOK
<1>2. QED
  BY <1>1, WriteStep, ReadStep DEF Next

\* The store and its history keep their types.
THEOREM TypeCorrect == Spec => []TypeOK
<1>1. KVInv => TypeOK
  BY DEF KVInv
<1>2. QED
  BY <1>1, KVInit, KVStep, PTL DEF Spec

\* Versions of a key are appended in the order of their timestamps and none is later
\* than the key's last access.
THEOREM OrderKept == Spec => []VersionsIncrease
<1>1. KVInv => VersionsIncrease
  BY DEF KVInv, VersionsIncrease, Ordered
<1>2. QED
  BY <1>1, KVInit, KVStep, PTL DEF Spec

\* The snapshot reads that KVStore.h promises, for any keys, values and timestamps.
THEOREM ReadsAreSnapshots == Spec => []SnapshotReads
<1>1. KVInv => SnapshotReads
  BY DEF KVInv, SnapshotReads
<1>2. QED
  BY <1>1, KVInit, KVStep, PTL DEF Spec

-----------------------------------------------------------------------------
(* The binary search.  The loop of search is a function defined by         *)
(* recursion, that is, one chosen among those that satisfy its equation:   *)
(* a function that does is shown to exist, and any two agree.              *)

\* A set of numbers has a least one: what takes the place of induction.
LEMMA LeastNumber ==
    ASSUME NEW T \in SUBSET Nat, T # {}
    PROVE  \E x \in T : \A y \in T : x <= y
<1> DEFINE R == {p \in Nat \X Nat : p[1] < p[2]}
<1>1. IsWellFoundedOn(R, Nat)
  BY NatLessThanWellFounded DEF OpToRel, R
<1> HIDE DEF R
<1>2. PICK x \in T : \A y \in T : <<y, x>> \notin R
  BY <1>1, WFMin, Zenon
<1>3. \A y \in T : ~(y < x)
  BY <1>2 DEF R
<1>4. \A y \in T : x <= y
  BY <1>3
<1>5. QED
  BY <1>4

\* One iteration of the loop, on the results of the next ones.
Iteration(loop, versions, timestamp) ==
    [range \in (0..Len(versions)) \X (0..Len(versions)) |->
        LET start == range[1]
            end == range[2]
            middle == (start + end) \div 2
        IN IF start >= end THEN start
           ELSE IF versions[middle + 1].timestamp <= timestamp
           THEN loop[<<middle + 1, end>>] ELSE loop[<<start, middle>>]]

\* What the loop returns when n is the position: n, or the end of the range next to it.
Nearest(n, len) ==
    [range \in (0..len) \X (0..len) |->
        IF n <= range[1] \/ range[1] >= range[2] THEN range[1]
        ELSE IF n >= range[2] THEN range[2] ELSE n]

\* A solution of the loop's equation, on an empty range.
LEMMA IterationEnds ==
    ASSUME NEW versions, NEW t, NEW f, f = Iteration(f, versions, t),
           NEW start \in 0..Len(versions), NEW end \in 0..Len(versions), start >= end
    PROVE  f[<<start, end>>] = start
<1>1. <<start, end>> \in (0..Len(versions)) \X (0..Len(versions))
  OBVIOUS
<1>2. Iteration(f, versions, t)[<<start, end>>] = start
  BY <1>1 DEF Iteration
<1>3. QED
  BY <1>2

LEMMA NearestSolves ==
    ASSUME NEW versions \in Seq(Version), NEW t \in Timestamp,
           NEW n \in 0..Len(versions), IsPosition(n, versions, t)
    PROVE  Nearest(n, Len(versions)) = Iteration(Nearest(n, Len(versions)), versions, t)
<1> DEFINE len == Len(versions)
           W == Nearest(n, len)
           V == Iteration(W, versions, t)
<1>1. len \in Nat /\ t \in Nat /\ \A k \in 1..len : versions[k].timestamp \in Nat
  BY VersionParts, TimestampsAreNat
<1>2. ASSUME NEW range \in (0..len) \X (0..len) PROVE V[range] = W[range]
  <2> DEFINE start == range[1]
             end == range[2]
             m == (start + end) \div 2
  <2>1. start \in 0..len /\ end \in 0..len /\ range = <<start, end>>
    OBVIOUS
  <2>2. V[range] = IF start >= end THEN start
                   ELSE IF versions[m + 1].timestamp <= t THEN W[<<m + 1, end>>] ELSE W[<<start, m>>]
    BY DEF Iteration
  <2>3. \A a, b \in 0..len : W[<<a, b>>] = IF n <= a \/ a >= b THEN a ELSE IF n >= b THEN b ELSE n
    BY DEF Nearest
  <2>4. W[range] = IF n <= start \/ start >= end THEN start ELSE IF n >= end THEN end ELSE n
    BY DEF Nearest
  <2>5. CASE start >= end
    BY <2>2, <2>4, <2>5
  <2>6. CASE start < end
    <3>1. m \in Nat /\ start <= m /\ m < end /\ m \in 0..len /\ m + 1 \in 0..len /\ m + 1 \in 1..len
      BY <2>1, <2>6, <1>1
    <3> HIDE DEF m, start, end, W, V
    <3>2. CASE m + 1 <= n
      <4>1. versions[m + 1].timestamp <= t
        BY <3>1, <3>2 DEF IsPosition
      <4>2. V[range] = W[<<m + 1, end>>]
        BY <4>1, <2>1, <2>2, <2>6
      <4>3. QED
        BY <4>2, <3>1, <3>2, <2>1, <2>3, <2>4, <2>6
    <3>3. CASE n < m + 1
      <4>1. m + 1 \in (n + 1)..len
        BY <3>1, <3>3
      <4>2. ~(versions[m + 1].timestamp <= t)
        BY <4>1, <3>1, <1>1 DEF IsPosition
      <4>3. V[range] = W[<<start, m>>]
        BY <4>2, <2>1, <2>2, <2>6
      <4>4. QED
        BY <4>3, <3>1, <3>3, <2>1, <2>3, <2>4, <2>6
    <3>4. QED
      BY <3>1, <3>2, <3>3
  <2>7. QED
    BY <2>1, <2>5, <2>6
<1>3. /\ W = [range \in (0..len) \X (0..len) |-> W[range]]
      /\ V = [range \in (0..len) \X (0..len) |-> V[range]]
  BY DEF Nearest, Iteration
<1> HIDE DEF W, V
<1>4. W = V
  BY <1>2, <1>3
<1>5. QED
  BY <1>4 DEF W, V

\* The loop has one result: two solutions that differ would differ on a shortest range.
LEMMA OneSolution ==
    ASSUME NEW versions \in Seq(Version), NEW t,
           NEW f, f = Iteration(f, versions, t), NEW g, g = Iteration(g, versions, t)
    PROVE  \A start, end \in 0..Len(versions) : f[<<start, end>>] = g[<<start, end>>]
<1> DEFINE len == Len(versions)
           T == {d \in Nat : \E start, end \in 0..len :
                    end - start = d /\ f[<<start, end>>] # g[<<start, end>>]}
<1>1. len \in Nat
  OBVIOUS
<1>2. \A start, end \in 0..len : start >= end => f[<<start, end>>] = g[<<start, end>>]
  <2> SUFFICES ASSUME NEW start \in 0..len, NEW end \in 0..len, start >= end
               PROVE  f[<<start, end>>] = g[<<start, end>>]
    OBVIOUS
  <2>1. f[<<start, end>>] = start
    BY IterationEnds
  <2>2. g[<<start, end>>] = start
    BY IterationEnds
  <2>3. QED
    BY <2>1, <2>2
<1>3. T = {}
  <2> SUFFICES ASSUME T # {} PROVE FALSE
    OBVIOUS
  <2>1. PICK d \in T : \A e \in T : d <= e
    <3>1. T \in SUBSET Nat
      OBVIOUS
    <3> HIDE DEF T
    <3>2. QED
      BY <3>1, LeastNumber
  <2>2. PICK start \in 0..len, end \in 0..len : end - start = d /\ f[<<start, end>>] # g[<<start, end>>]
    BY <2>1
  <2>3. start < end
    <3>1. start \in Int /\ end \in Int /\ ~(start >= end)
      BY <2>2, <1>2
    <3>2. QED
      BY <3>1
  <2>4. ASSUME NEW a \in 0..len, NEW b \in 0..len, b - a \in Nat, b - a < d
        PROVE  f[<<a, b>>] = g[<<a, b>>]
    <3> SUFFICES ASSUME f[<<a, b>>] # g[<<a, b>>] PROVE FALSE
      OBVIOUS
    <3>1. b - a \in T
      BY <2>4
    <3>2. d \in Nat /\ d <= b - a
      BY <3>1, <2>1
    <3>3. QED
      BY <3>2, <2>4
  <2> DEFINE m == (start + end) \div 2
  <2>5. m \in 0..len /\ m + 1 \in 0..len /\ m - start \in Nat /\ m - start < d
        /\ end - (m + 1) \in Nat /\ end - (m + 1) < d
    BY <2>2, <2>3, <1>1
  <2>6. f[<<m + 1, end>>] = g[<<m + 1, end>>] /\ f[<<start, m>>] = g[<<start, m>>]
    BY <2>2, <2>4, <2>5
  <2>7. ASSUME NEW x, x = Iteration(x, versions, t)
        PROVE  x[<<start, end>>] = IF versions[m + 1].timestamp <= t THEN x[<<m + 1, end>>] ELSE x[<<start, m>>]
    <3>1. <<start, end>> \in (0..Len(versions)) \X (0..Len(versions)) /\ ~(start >= end)
      BY <2>3
    <3>2. Iteration(x, versions, t)[<<start, end>>] =
              IF versions[m + 1].timestamp <= t THEN x[<<m + 1, end>>] ELSE x[<<start, m>>]
      BY <3>1 DEF Iteration
    <3>3. QED
      BY <3>2, <2>7
  <2>8. QED
    BY <2>2, <2>6, <2>7
<1>4. QED
  <2> SUFFICES ASSUME NEW start \in 0..len, NEW end \in 0..len PROVE f[<<start, end>>] = g[<<start, end>>]
    OBVIOUS
  <2>1. CASE start >= end
    BY <2>1, <1>2
  <2>2. CASE start < end
    <3>1. end - start \in Nat
      BY <2>2
    <3>2. QED
      BY <3>1, <1>3
  <2>3. QED
    BY <2>1, <2>2

\* The search returns the position, for any versions that have one.
LEMMA SearchIs ==
    ASSUME NEW versions \in Seq(Version), NEW t \in Timestamp,
           NEW n \in 0..Len(versions), IsPosition(n, versions, t)
    PROVE  search(versions, t) = n
<1> DEFINE len == Len(versions)
           W == Nearest(n, len)
           loop == CHOOSE f : f = Iteration(f, versions, t)
<1>1. W = Iteration(W, versions, t)
  BY NearestSolves
<1>2. loop = Iteration(loop, versions, t)
  <2> HIDE DEF W
  <2> QED
    BY <1>1
<1>3. search(versions, t) = loop[<<0, len>>]
  BY Zenon DEF search, Iteration
<1> HIDE DEF loop, W
<1>4. len \in Nat /\ 0 \in 0..len /\ len \in 0..len
  OBVIOUS
<1>5. loop[<<0, len>>] = W[<<0, len>>]
  BY <1>1, <1>2, <1>4, OneSolution
<1>6. W[<<0, len>>] = n
  BY <1>4 DEF W, Nearest
<1>7. QED
  BY <1>3, <1>5, <1>6

\* The binary search of KVStore::read ends where its comment says, for every list of
\* versions a store can hold.
THEOREM SearchIsCorrect == Spec => []SearchFindsPosition
<1>1. ASSUME KVInv PROVE SearchFindsPosition
  <2> SUFFICES ASSUME NEW key \in Key, NEW t \in Timestamp
               PROVE  search(mvkvs[key].versions, t) = position(mvkvs[key].versions, t)
    BY DEF SearchFindsPosition
  <2>1. mvkvs[key].versions \in Seq(Version) /\ HasPositions(mvkvs[key].versions)
    BY <1>1 DEF KVInv, TypeOK
  <2>2. QED
    BY <2>1, PositionFound, SearchIs
<1>2. QED
  BY <1>1, KVInit, KVStep, PTL DEF Spec
=============================================================================
