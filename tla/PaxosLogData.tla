----------------------------- MODULE PaxosLogData -----------------------------
(***************************************************************************)
(* The PaxosLog class as operators on its state, for the modules that keep *)
(* one or several logs.  A log is a record                                 *)
(*     log                the map _log, a function on the indices set      *)
(*     available_indices  the vector _available_indices                    *)
(* Positions of the vector start at 1 here and at 0 in the code; indices   *)
(* of the log start at 0 in both.                                          *)
(***************************************************************************)
EXTENDS Integers, Sequences

CONSTANT MaxIndex    \* bound on the indices written

ASSUME MaxIndexAssumption == MaxIndex \in Nat

Index == 0..MaxIndex

\* PaxosLog::PaxosLog()
EmptyLog == [log |-> [i \in {} |-> 0], available_indices |-> <<0>>]

\* next_available_index: the first element of the vector.
next_available_index(pl) == pl.available_indices[1]

\* The greatest index of the vector, _available_indices.back().
last_index(pl) == pl.available_indices[Len(pl.available_indices)]

IsAvailable(pl, index) ==
    \E k \in DOMAIN pl.available_indices : pl.available_indices[k] = index

\* vector::erase of the first element that equals index; the ones after it move up.
erase(avail, index) ==
    [k \in 1..(Len(avail) - 1) |->
        IF \A j \in 1..k : avail[j] # index THEN avail[k] ELSE avail[k + 1]]

\* Mutation: the index itself is also left available (i <= index).
pushBeyond_inclusive(avail, last, index) ==
    [k \in 1..(Len(avail) + index - last + 1) |->
        IF k <= Len(avail) THEN avail[k] ELSE last + k - Len(avail)]

\* The push_backs for an index beyond the last one: the indices skipped, then the
\* one after index.
pushBeyond(avail, last, index) ==
    [k \in 1..(Len(avail) + index - last) |->
        IF k <= Len(avail) THEN avail[k]
        ELSE IF k < Len(avail) + index - last THEN last + k - Len(avail)
        ELSE index + 1]

\* _log.insert: keeps an entry that is already there.
insert(log, index, entry) ==
    [i \in DOMAIN log \cup {index} |-> IF i \in DOMAIN log THEN log[i] ELSE entry]

\* A value for the index is already set: set_entry returns at once.
AlreadySet(pl, index) == index <= last_index(pl) /\ ~IsAvailable(pl, index)

\* Mutation: the check is forgotten.
AlreadySet_never(pl, index) == FALSE

\* The log after set_entry(index, entry), callbacks aside.
set_entry(pl, index, entry) ==
    IF AlreadySet(pl, index)
    THEN pl
    ELSE [log |-> insert(pl.log, index, entry),
          available_indices |->
              IF index < last_index(pl)
              THEN erase(pl.available_indices, index)
              ELSE IF index = last_index(pl)
              THEN Append(erase(pl.available_indices, index), index + 1)
              ELSE pushBeyond(pl.available_indices, last_index(pl), index)]

\* Mutation: the callbacks are called only for the index that was waited for.
callbacks_one(old, new) ==
    [k \in 1..(IF next_available_index(new) > next_available_index(old) THEN 1 ELSE 0) |->
        <<next_available_index(old), new.log[next_available_index(old)]>>]

\* The invocations of the callbacks at the end of set_entry: one per index from
\* the old to the new first available index, in order.
callbacks(old, new) ==
    [k \in 1..(next_available_index(new) - next_available_index(old)) |->
        LET i == next_available_index(old) + k - 1 IN <<i, new.log[i]>>]
=============================================================================
