------------------------------- MODULE PaxosLog -------------------------------
(***************************************************************************)
(* One node's PaxosLog.  Paxos instances (SinglePaxosHandler::learn) and   *)
(* the LogSyncer call set_entry for indices in any order, several times    *)
(* for the same index and, when Paxos misbehaves, with different entries.  *)
(***************************************************************************)
EXTENDS PaxosLogData

CONSTANT Entry    \* the entries Paxos decides

VARIABLES
    pl,       \* the state of the PaxosLog object
    applied   \* history: the callback invocations so far, <<index, entry>>

vars == <<pl, applied>>

Init == pl = EmptyLog /\ applied = << >>

\* set_entry, with the callbacks it invokes before it returns.
SetEntry(i, e) ==
    /\ pl' = set_entry(pl, i, e)
    /\ applied' = applied \o callbacks(pl, pl')

Next == \E i \in Index, e \in Entry : SetEntry(i, e)

Spec == Init /\ [][Next]_vars

-----------------------------------------------------------------------------
(* Properties.                                                             *)

\* The fields of the log have their types, and no callback gets an entry that is not
\* there (operator[] of the map would make one).
TypeOK ==
    /\ pl.log \in [DOMAIN pl.log -> Entry] /\ DOMAIN pl.log \subseteq Index
    /\ pl.available_indices \in Seq(0..(MaxIndex + 1))
    /\ applied \in Seq(Index \X Entry)

\* _available_indices is what its comment promises, after entries arrive in any
\* order: in increasing order, "all missing indices from the _log, plus [one] index
\* after the greatest" one.  The assertions of next_available_index and set_entry
\* (an index returned as available is available, the vector is never empty) follow.
AvailableIndicesExact ==
    LET avail == pl.available_indices
    IN /\ Len(avail) > 0
       /\ \A j, k \in DOMAIN avail : j < k => avail[j] < avail[k]
       /\ \A i \in 0..last_index(pl) : IsAvailable(pl, i) <=> i \notin DOMAIN pl.log
       /\ \A i \in DOMAIN pl.log : i < last_index(pl)
       /\ last_index(pl) > 0 => last_index(pl) - 1 \in DOMAIN pl.log

\* The derived state of a node (key-value store, key space, Paxos configuration)
\* sees every entry of the prefix without holes exactly once and in order, and
\* nothing beyond the first hole.
AppliedIsPrefix ==
    /\ Len(applied) = next_available_index(pl)
    /\ \A k \in 1..Len(applied) :
           k - 1 \in DOMAIN pl.log /\ applied[k] = <<k - 1, pl.log[k - 1]>>

\* The log implements the write-once log whose entries are applied in order.
Abstract == INSTANCE AppliedLog WITH log <- pl.log
ImplementsAppliedLog == Abstract!Spec
=============================================================================
