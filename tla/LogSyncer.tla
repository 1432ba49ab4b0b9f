------------------------------ MODULE LogSyncer ------------------------------
(***************************************************************************)
(* The LogSyncers of a group of nodes that replicate one log: each node    *)
(* periodically sends the indices it misses to the others, which answer    *)
(* with the entries they have.  This is how a node gets the entries whose  *)
(* learn messages it never saw.                                            *)
(*                                                                         *)
(* Entries come from Paxos (external here): the entry decided for index i  *)
(* is Decided(i).                                                          *)
(***************************************************************************)
EXTENDS PaxosLogData, FiniteSetsExt

CONSTANT Node

VARIABLES
    paxos_log,   \* node -> its PaxosLog
    msgs         \* the sync messages in flight

syncVars == <<paxos_log, msgs>>

Decided(i) == <<"entry", i>>

SyncInit == paxos_log = [n \in Node |-> EmptyLog] /\ msgs = {}

\* Mutation: the loop forgets the array it starts with and merges nothing.
subarrays_late(avail) ==
    [k \in 1..(Len(avail) - 1) |-> <<avail[k + 1], avail[k + 1]>>]

\* The loop of build_sync_request: the runs of consecutive indices of the vector, each
\* as <<start, end>>.
subarrays(avail) ==
    LET loop[i \in 0..(Len(avail) - 1)] ==
            IF i = 0 THEN [done |-> << >>, cur |-> <<avail[1], avail[1]>>]
            ELSE LET done == loop[i - 1].done
                     cur == loop[i - 1].cur
                 IN IF avail[i] + 1 = avail[i + 1]
                    THEN [done |-> done, cur |-> <<cur[1], cur[2] + 1>>]
                    ELSE [done |-> Append(done, cur), cur |-> <<avail[i + 1], avail[i + 1]>>]
        last == loop[Len(avail) - 1]
    IN Append(last.done, last.cur)

build_sync_request(pl) ==
    [missing_indices |-> subarrays(pl.available_indices), last_index |-> last_index(pl)]

\* Mutation: the end of an array is not included.
Holes_exclusive(pl, request) ==
    UNION {request.missing_indices[k][1]..(request.missing_indices[k][2] - 1) :
           k \in DOMAIN request.missing_indices}

\* build_sync_response: the sender of the request misses the indices of the arrays and
\* everything after last_index; the responder gives what it has of that below its own
\* first hole, array by array until one starts beyond it.
Holes(pl, request) ==
    LET cur_last_index == next_available_index(pl)
        arrays == request.missing_indices
        Considered == {k \in DOMAIN arrays : \A j \in 1..k : arrays[j][1] < cur_last_index}
    IN UNION {arrays[k][1]..Min({cur_last_index, arrays[k][2]}) : k \in Considered}

Extra(pl, request) == (request.last_index + 1)..(next_available_index(pl) - 1)

\* Mutation: the entries are numbered from the start of the request.
build_sync_response_shifted(pl, request) ==
    LET indices == (Holes(pl, request) \cup Extra(pl, request)) \cap DOMAIN pl.log
        entries[i \in 0..next_available_index(pl)] ==
            IF i = 0 THEN << >>
            ELSE IF i - 1 \in indices
            THEN Append(entries[i - 1],
                        <<request.missing_indices[1][1] + Len(entries[i - 1]), pl.log[i - 1]>>)
            ELSE entries[i - 1]
    IN entries[next_available_index(pl)]

\* All that the responder gives is before its first hole.
build_sync_response(pl, request) ==
    LET indices == (Holes(pl, request) \cup Extra(pl, request)) \cap DOMAIN pl.log
        entries[i \in 0..next_available_index(pl)] ==
            IF i = 0 THEN << >>
            ELSE IF i - 1 \in indices THEN Append(entries[i - 1], <<i - 1, pl.log[i - 1]>>)
            ELSE entries[i - 1]
    IN entries[next_available_index(pl)]

\* The loop of handle_sync_response.
set_entries(pl, missing_entries) ==
    LET log[k \in 0..Len(missing_entries)] ==
            IF k = 0 THEN pl
            ELSE set_entry(log[k - 1], missing_entries[k][1], missing_entries[k][2])
    IN log[Len(missing_entries)]

-----------------------------------------------------------------------------

\* Paxos learns the entry of an index at a node, in any order and perhaps never.
Learn(n, i) ==
    /\ paxos_log' = [paxos_log EXCEPT ![n] = set_entry(@, i, Decided(i))]
    /\ UNCHANGED msgs

\* The timer of schedule_syncing.  A node's request to itself finds nothing, so it is
\* left out.  Bound: one round of a node's syncing is in flight at a time.
Sync(n) ==
    /\ \A m \in msgs : m.syncer # n
    /\ msgs' = msgs \cup {[type |-> "request", syncer |-> n, peer |-> p,
                           request |-> build_sync_request(paxos_log[n])] : p \in Node \ {n}}
    /\ UNCHANGED paxos_log

HandleSyncRequest(m) ==
    /\ m.type = "request"
    /\ msgs' = (msgs \ {m}) \cup
               {[type |-> "response", syncer |-> m.syncer, peer |-> m.peer,
                 missing_entries |-> build_sync_response(paxos_log[m.peer], m.request)]}
    /\ UNCHANGED paxos_log

HandleSyncResponse(m) ==
    /\ m.type = "response"
    /\ paxos_log' = [paxos_log EXCEPT ![m.syncer] = set_entries(@, m.missing_entries)]
    /\ msgs' = msgs \ {m}

\* A connection is lost with what it holds, or its send queue is full.
Lose(m) == msgs' = msgs \ {m} /\ UNCHANGED paxos_log

Deliver(a, b) ==
    \E m \in msgs : m.syncer = a /\ m.peer = b /\ (HandleSyncRequest(m) \/ HandleSyncResponse(m))

SyncNext ==
    \/ \E n \in Node, i \in Index : Learn(n, i)
    \/ \E n \in Node : Sync(n)
    \/ \E a, b \in Node : Deliver(a, b)
    \/ \E m \in msgs : Lose(m)

SyncSpec == SyncInit /\ [][SyncNext]_syncVars

\* The timer of schedule_syncing repeats for ever, and connections lose some messages but
\* not all of a kind.
FairSyncSpec ==
    /\ SyncSpec
    /\ \A n \in Node : WF_syncVars(Sync(n))
    /\ \A a \in Node : \A b \in Node \ {a} :
           \A t \in {"request", "response"} :
               SF_syncVars(Deliver(a, b) /\ \E m \in msgs \ msgs' : m.type = t)

-----------------------------------------------------------------------------
(* Properties.                                                             *)

\* Entries reach other nodes under the index they were decided for: no response has an
\* index that its sender has no entry for, and the log that takes a response in pieces
\* with other entries holds what was decided.
SyncedEntriesAreDecided ==
    /\ \A n \in Node, i \in Index :
           i \in DOMAIN paxos_log[n].log => paxos_log[n].log[i] = Decided(i)
    /\ \A m \in msgs : m.type = "response" =>
           m.missing_entries \in Seq({<<i, Decided(i)>> : i \in Index})

\* A request describes the sender's holes exactly, and compactly: its arrays cover the
\* indices up to last_index that have no entry and no others, and no two of them touch.
RequestDescribesHoles ==
    \A n \in Node :
        LET request == build_sync_request(paxos_log[n])
            arrays == request.missing_indices
        IN /\ UNION {arrays[k][1]..arrays[k][2] : k \in DOMAIN arrays}
                  = (0..request.last_index) \ DOMAIN paxos_log[n].log
           /\ \A k \in 1..(Len(arrays) - 1) : arrays[k][2] + 1 < arrays[k + 1][1]

\* What is known somewhere becomes known everywhere: again and again every node has the
\* entry of every index up to which there are no holes in the logs taken together, though
\* a node only serves the part of its log before its own first hole.
LogsConverge ==
    []<>(\A i \in Index :
            (\A j \in 0..i : \E n \in Node : j \in DOMAIN paxos_log[n].log)
                => \A n \in Node : i \in DOMAIN paxos_log[n].log)
=============================================================================
