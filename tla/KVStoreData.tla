----------------------------- MODULE KVStoreData -----------------------------
(***************************************************************************)
(* The KVStore class as operators on the MultiVersionEntry of one key, for *)
(* the modules that keep one or several stores.  An entry is a record      *)
(*     versions   the sequence of [timestamp, value]                       *)
(*     lat        the last access timestamp, of a write or a read          *)
(* A key that is not in _mvkvs has the entry NoEntry.                      *)
(***************************************************************************)
EXTENDS Integers, Sequences

CONSTANT NoValue   \* boost::none, as the result of a read

NoEntry == [versions |-> << >>, lat |-> 0]

Exists(entry) == entry.versions # << >>

\* The assertion of KVStore::write, "Should never be writing to the past."
NotInThePast(entry, timestamp) == Exists(entry) => entry.lat < timestamp

\* Mutation: the write does not count as an access.
write_keeps_lat(entry, value, timestamp) ==
    [versions |-> Append(entry.versions, [timestamp |-> timestamp, value |-> value]),
     lat      |-> entry.lat]

write(entry, value, timestamp) ==
    [versions |-> Append(entry.versions, [timestamp |-> timestamp, value |-> value]),
     lat      |-> timestamp]

\* The number of versions that a read at timestamp may see, where the loop of
\* KVStore::read ends: "all version (strictly) before have <= timestamp, and all
\* versions (non-strictly) above have > timestamp".
IsPosition(n, versions, timestamp) ==
    /\ \A k \in 1..n : versions[k].timestamp <= timestamp
    /\ \A k \in (n + 1)..Len(versions) : timestamp < versions[k].timestamp

position(versions, timestamp) ==
    CHOOSE n \in 0..Len(versions) : IsPosition(n, versions, timestamp)

\* Mutation: the search looks for the versions strictly before timestamp.
search_strict(versions, timestamp) ==
    LET loop[range \in (0..Len(versions)) \X (0..Len(versions))] ==
            LET start == range[1]
                end == range[2]
                middle == (start + end) \div 2
            IN IF start >= end THEN start
               ELSE IF versions[middle + 1].timestamp < timestamp
               THEN loop[<<middle + 1, end>>] ELSE loop[<<start, middle>>]
    IN loop[<<0, Len(versions)>>]

\* The loop itself: the binary search over [start, end) of the versions.
search(versions, timestamp) ==
    LET loop[range \in (0..Len(versions)) \X (0..Len(versions))] ==
            LET start == range[1]
                end == range[2]
                middle == (start + end) \div 2
            IN IF start >= end THEN start
               ELSE IF versions[middle + 1].timestamp <= timestamp
               THEN loop[<<middle + 1, end>>] ELSE loop[<<start, middle>>]
    IN loop[<<0, Len(versions)>>]

\* What KVStore::read returns.
read_value(entry, timestamp) ==
    LET n == position(entry.versions, timestamp)
    IN IF n = 0 THEN NoValue ELSE entry.versions[n].value

\* Mutation: only writes move the last access timestamp.
read_entry_keeps(entry, timestamp) == entry

\* What KVStore::read leaves behind: a read that finds a version moves lat forward.
read_entry(entry, timestamp) ==
    IF position(entry.versions, timestamp) > 0 /\ timestamp > entry.lat
    THEN [entry EXCEPT !.lat = timestamp]
    ELSE entry
=============================================================================
