---------------------------- MODULE ClientRequests ----------------------------
(***************************************************************************)
(* The ClientRequestHandler of the replicas of one tablet: each replica    *)
(* runs the client requests it gets through its AsyncQueue, proposes them  *)
(* to Paxos, and applies the decided log to its KVStore.                   *)
(*                                                                         *)
(* Paxos and the PaxosLog are taken by what they promise (SinglePaxos with *)
(* agreement, AppliedLog): one log, each index of which is decided for one *)
(* of the entries proposed for it, and which every replica applies in      *)
(* order at its own pace.  A proposal may be lost or decided late; one for *)
(* an index that is already decided has no effect.                         *)
(* A log entry carries the content of the request it was made from, so it  *)
(* is represented by the request's id.                                     *)
(***************************************************************************)
EXTENDS KVStoreData, FiniteSets

CONSTANTS
    Replica,
    RequestId,
    Request,       \* id -> [type : {"READ", "WRITE"}, key, value, timestamp]
    Key,
    Value,
    InitialLog,    \* the entries decided when the model starts
    RETRY_LIMIT,
    MaxQueue       \* bound on the tasks waiting in a replica's AsyncQueue

ASSUME RequestAssumption ==
    Request \in [RequestId -> [type : {"READ", "WRITE"}, key : Key,
                               value : Value, timestamp : Nat]]
ASSUME InitialLogAssumption ==
    /\ InitialLog \in Seq(RequestId)
    /\ \A i, j \in 1..Len(InitialLog) : InitialLog[i] = InitialLog[j] => i = j
ASSUME BoundAssumption == RETRY_LIMIT \in Nat /\ MaxQueue \in Nat /\ NoValue \notin Value

VARIABLES
    decided,          \* the decided log, a sequence of request ids
    proposed,         \* the ids proposed for the first undecided index
    applied,          \* replica -> how much of decided its callbacks have seen
    kvstore,          \* replica -> key -> entry, its _kvstore
    request_id_map,   \* replica -> id -> index in the log, its _request_id_map
    queue,            \* replica -> its AsyncQueue, tasks [id, retry_count]
    aborted,          \* replica -> an assertion has ended the process
    responses,        \* history: the responses sent to clients
    rejected          \* history: the writes answered with an error as too old

vars == <<decided, proposed, applied, kvstore, request_id_map, queue, aborted,
          responses, rejected>>

Init ==
    /\ decided = InitialLog
    /\ proposed = {}
    /\ applied = [r \in Replica |-> 0]
    /\ kvstore = [r \in Replica |-> [key \in Key |-> NoEntry]]
    /\ request_id_map = [r \in Replica |-> [id \in {} |-> 0]]
    /\ queue = [r \in Replica |-> << >>]
    /\ aborted = [r \in Replica |-> FALSE]
    /\ responses = {}
    /\ rejected = {}

IsRead(id) == Request[id].type = "READ"
IsWrite(id) == Request[id].type = "WRITE"

\* The entry of the key of request id in the store of r.
EntryOf(r, id) == kvstore[r][Request[id].key]

\* The store of r after KVStore::read for the key and the timestamp of request id.
AfterRead(r, id) ==
    [kvstore EXCEPT ![r][Request[id].key] = read_entry(@, Request[id].timestamp)]

AfterWrite(r, id) ==
    [kvstore EXCEPT ![r][Request[id].key] = write(@, Request[id].value, Request[id].timestamp)]

-----------------------------------------------------------------------------
(* The replicated log.                                                     *)

\* Paxos decides the first undecided index, for one of the entries proposed for it.
Decide ==
    /\ \E id \in proposed : decided' = Append(decided, id)
    /\ proposed' = {}
    /\ UNCHANGED <<applied, kvstore, request_id_map, queue, aborted,
                   responses, rejected>>

\* _request_id_map.insert, which keeps the first index of an id.
Remember(r, id, index) ==
    request_id_map' = [request_id_map EXCEPT ![r] =
        [i \in DOMAIN @ \cup {id} |-> IF i \in DOMAIN @ THEN @[i] ELSE index]]

\* Mutation: the callback leaves the read to the replica that answers the client.
ApplyRead_lazy(r, id) ==
    /\ IsRead(id)
    /\ UNCHANGED <<kvstore, aborted>>

\* The callback for a read: it counts as an access to the key at every replica.
ApplyRead(r, id) ==
    /\ IsRead(id)
    /\ kvstore' = AfterRead(r, id)
    /\ UNCHANGED aborted

\* The callback for a write, with the assertion of KVStore::write.
ApplyWrite(r, id) ==
    /\ IsWrite(id)
    /\ IF NotInThePast(EntryOf(r, id), Request[id].timestamp)
       THEN kvstore' = AfterWrite(r, id) /\ UNCHANGED aborted
       ELSE aborted' = [aborted EXCEPT ![r] = TRUE] /\ UNCHANGED kvstore

\* The PaxosLog of r has its next entry and invokes the callback for it.
Apply(r) ==
    LET index == applied[r] + 1
    IN /\ ~aborted[r]
       /\ index <= Len(decided)
       /\ applied' = [applied EXCEPT ![r] = index]
       /\ Remember(r, decided[index], index)
       /\ ApplyRead(r, decided[index]) \/ ApplyWrite(r, decided[index])
       /\ UNCHANGED <<decided, proposed, queue, responses, rejected>>

-----------------------------------------------------------------------------
(* handle_request and the task it adds to the queue.                       *)

\* A client sends a request, or sends it again, to a replica.
HandleRequest(r, id) ==
    /\ ~aborted[r]
    /\ Len(queue[r]) < MaxQueue
    /\ queue' = [queue EXCEPT ![r] = Append(@, [id |-> id, retry_count |-> 0])]
    /\ UNCHANGED <<decided, proposed, applied, kvstore, request_id_map, aborted,
                   responses, rejected>>

Running(r) == ~aborted[r] /\ queue[r] # << >>

\* The task responds and ends: AsyncQueue::run_task pops it.
Respond(r, code, value) ==
    /\ responses' = responses \cup {[id |-> Head(queue[r]).id, code |-> code, value |-> value]}
    /\ queue' = [queue EXCEPT ![r] = Tail(@)]

\* Mutation: the request ids are not looked up.
IsFulfilled_never(r, id) == FALSE

IsFulfilled(r, id) == id \in DOMAIN request_id_map[r]

\* The request is in the applied log.  A read is executed once more, with the store as
\* it is now, to get the value for the client.
Fulfilled(r) ==
    LET id == Head(queue[r]).id
        value == read_value(EntryOf(r, id), Request[id].timestamp)
    IN /\ Running(r)
       /\ IsFulfilled(r, id)
       /\ \/ IsWrite(id) /\ Respond(r, "SUCCESS", NoValue) /\ UNCHANGED kvstore
          \/ /\ IsRead(id)
             /\ Respond(r, IF value = NoValue THEN "ERROR" ELSE "SUCCESS", value)
             /\ kvstore' = AfterRead(r, id)
       /\ UNCHANGED <<decided, proposed, applied, request_id_map, aborted, rejected>>

\* Mutation: one proposal too many.
OutOfRetries_late(r) == Head(queue[r]).retry_count > RETRY_LIMIT

OutOfRetries(r) == Head(queue[r]).retry_count = RETRY_LIMIT

\* RETRY_LIMIT proposals have been made.
GiveUp(r) ==
    /\ Running(r)
    /\ ~IsFulfilled(r, Head(queue[r]).id)
    /\ OutOfRetries(r)
    /\ Respond(r, "ERROR", NoValue)
    /\ UNCHANGED <<decided, proposed, applied, kvstore, request_id_map, aborted, rejected>>

\* Mutation: the write is compared with the versions only, not with the last access.
IsIllegal_unread(r, id) ==
    /\ IsWrite(id)
    /\ \E k \in DOMAIN EntryOf(r, id).versions :
           Request[id].timestamp <= EntryOf(r, id).versions[k].timestamp

\* A write that is not after the last access of its key.
IsIllegal(r, id) ==
    /\ IsWrite(id)
    /\ Exists(EntryOf(r, id)) /\ Request[id].timestamp <= EntryOf(r, id).lat

Reject(r) ==
    LET id == Head(queue[r]).id
    IN /\ Running(r)
       /\ ~IsFulfilled(r, id) /\ ~OutOfRetries(r)
       /\ IsIllegal(r, id)
       /\ Respond(r, "ERROR", NoValue)
       /\ rejected' = rejected \cup {id}
       /\ UNCHANGED <<decided, proposed, applied, kvstore, request_id_map, aborted>>

\* Mutation: the proposals are not counted.
NextTry_uncounted(task) == task

NextTry(task) == [task EXCEPT !.retry_count = @ + 1]

\* MultiPaxosHandler::propose, for the first index the replica has no entry for.  The
\* task stays at the head of the queue and runs again after WAIT_FOR_PAXOS.
Propose(r) ==
    LET id == Head(queue[r]).id
    IN /\ Running(r)
       /\ ~IsFulfilled(r, id) /\ ~OutOfRetries(r) /\ ~IsIllegal(r, id)
       /\ proposed' = IF applied[r] = Len(decided) THEN proposed \cup {id} ELSE proposed
       /\ queue' = [queue EXCEPT ![r][1] = NextTry(@)]
       /\ UNCHANGED <<decided, applied, kvstore, request_id_map, aborted,
                      responses, rejected>>

RunTask(r) == Fulfilled(r) \/ GiveUp(r) \/ Reject(r) \/ Propose(r)

Next ==
    \/ Decide
    \/ \E r \in Replica : Apply(r) \/ RunTask(r)
    \/ \E r \in Replica, id \in RequestId : HandleRequest(r, id)

Spec == Init /\ [][Next]_vars

\* The AsyncQueue schedules its next run on a timer whenever a task is left.
FairSpec == Spec /\ \A r \in Replica : WF_vars(RunTask(r))

-----------------------------------------------------------------------------
(* Properties.                                                             *)

Task == [id : RequestId, retry_count : 0..RETRY_LIMIT]
Response == [id : RequestId, code : {"SUCCESS", "ERROR"}, value : Value \cup {NoValue}]

\* The replicas' fields, the log and the histories have their types.
TypeOK ==
    /\ decided \in Seq(RequestId)
    /\ proposed \subseteq RequestId
    /\ applied \in [Replica -> 0..Len(decided)]
    /\ \A r \in Replica, key \in Key :
           /\ kvstore[r][key].lat \in Nat
           /\ kvstore[r][key].versions \in Seq([timestamp : Nat, value : Value])
    /\ \A r \in Replica : DOMAIN request_id_map[r] \subseteq RequestId
    /\ queue \in [Replica -> Seq(Task)]
    /\ aborted \in [Replica -> BOOLEAN]
    /\ responses \subseteq Response
    /\ rejected \subseteq RequestId

\* A request is committed at most once, however often its client sends it and to
\* whichever replicas, and however often they propose it: the purpose of
\* _request_id_map.
CommittedAtMostOnce ==
    \A i, j \in 1..Len(decided) : decided[i] = decided[j] => i = j

\* The assertion of KVStore::write, "Should never be writing to the past.": no replica
\* is ever ended by it.
NeverWritesToThePast == \A r \in Replica : ~aborted[r]

\* The store is state derived from the log: replicas that have applied the same
\* entries have the same store, whichever requests they have answered.  So a read that
\* is answered twice, after a retry and perhaps by another replica, is answered with
\* the same value.
ReplicasAgree ==
    /\ \A r, s \in Replica :
           ~aborted[r] /\ ~aborted[s] /\ applied[r] = applied[s] => kvstore[r] = kvstore[s]
    /\ \A p, q \in responses :
           p.id = q.id /\ IsRead(p.id) /\ "SUCCESS" = p.code /\ "SUCCESS" = q.code
               => p.value = q.value

\* A write that some replica has answered with an error because of its timestamp is
\* not in the log and never will be, though other replicas may be proposing it.
RejectedNeverCommitted == \A i \in 1..Len(decided) : decided[i] \notin rejected

\* A replica's queue never gets stuck behind a task: again and again it is empty or a
\* task is answered and popped, whatever becomes of the proposals.
QueueNeverStuck ==
    \A r \in Replica :
        \/ []<>(aborted[r] \/ queue[r] = << >>)
        \/ []<><<Len(queue'[r]) < Len(queue[r])>>_vars
=============================================================================
