------------------------------- MODULE KVStore -------------------------------
(***************************************************************************)
(* One multi-version key-value store under any sequence of reads and       *)
(* writes that respects its precondition: a write to a key that exists has *)
(* a timestamp greater than the key's last access (the assertion of        *)
(* KVStore::write aborts the process otherwise).                           *)
(***************************************************************************)
EXTENDS KVStoreData

CONSTANTS Key, Value, Timestamp

ASSUME TimestampAssumption == Timestamp \subseteq Nat
ASSUME NoValueAssumption == NoValue \notin Value

VARIABLES
    mvkvs,   \* key -> entry, the map _mvkvs
    reads    \* history: the reads of keys that existed, with their results

vars == <<mvkvs, reads>>

Init == mvkvs = [key \in Key |-> NoEntry] /\ reads = {}

\* KVStore::write
Write(key, value, timestamp) ==
    /\ NotInThePast(mvkvs[key], timestamp)
    /\ mvkvs' = [mvkvs EXCEPT ![key] = write(@, value, timestamp)]
    /\ UNCHANGED reads

\* KVStore::read
Read(key, timestamp) ==
    /\ mvkvs' = [mvkvs EXCEPT ![key] = read_entry(@, timestamp)]
    /\ reads' = IF Exists(mvkvs[key])
                THEN reads \cup {[key |-> key, timestamp |-> timestamp,
                                  value |-> read_value(mvkvs[key], timestamp)]}
                ELSE reads

Next ==
    \/ \E key \in Key, value \in Value, timestamp \in Timestamp :
           Write(key, value, timestamp)
    \/ \E key \in Key, timestamp \in Timestamp : Read(key, timestamp)

Spec == Init /\ [][Next]_vars

-----------------------------------------------------------------------------
(* Properties.                                                             *)

Version == [timestamp : Timestamp, value : Value]

\* The store maps every key to an entry, and the recorded reads are reads.
TypeOK ==
    /\ mvkvs \in [Key -> [versions : Seq(Version), lat : Timestamp \cup {0}]]
    /\ reads \subseteq [key : Key, timestamp : Timestamp, value : Value \cup {NoValue}]

\* KVStore.h: "each subsequent version has a greater timestamp", and no version is
\* later than the key's last access, whatever reads come between the writes.
VersionsIncrease ==
    \A key \in Key :
        LET versions == mvkvs[key].versions
        IN /\ \A j, k \in 1..Len(versions) :
                  j < k => versions[j].timestamp < versions[k].timestamp
           /\ \A j \in 1..Len(versions) : versions[j].timestamp <= mvkvs[key].lat

\* KVStore.h: "if a key exists, a read of the key at a certain time will always
\* return the same value", later writes and reads notwithstanding, also when the
\* first read found no version at all.
SnapshotReads ==
    \A r \in reads : read_value(mvkvs[r.key], r.timestamp) = r.value

\* The binary search of KVStore::read ends at the position its comment describes, for
\* every list of versions the store can hold and every timestamp.
SearchFindsPosition ==
    \A key \in Key, timestamp \in Timestamp :
        search(mvkvs[key].versions, timestamp) = position(mvkvs[key].versions, timestamp)
=============================================================================
