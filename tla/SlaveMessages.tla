---------------------------- MODULE SlaveMessages ----------------------------
(***************************************************************************)
(* The way of messages into a slave: from the send queue of a peer's       *)
(* ChannelImpl over the socket to the slave's network thread, from there   *)
(* through the AsyncSchedulerImpl of the server thread, where they are     *)
(* dispatched, to the AsyncSchedulerImpls of the tablets, each of which    *)
(* runs on one of the tablet threads.                                      *)
(*                                                                         *)
(* A peer (a slave or a client) offers the messages of its script to its   *)
(* channel in order, faster or slower than the socket takes them.  It may  *)
(* crash at any point, also between the header and the body of a message.  *)
(***************************************************************************)
EXTENDS Integers, Sequences, FiniteSets, SequencesExt, FiniteSetsExt

CONSTANTS
    Peer, Self,      \* the endpoints the slave has channels to, and its own
    Message,
    Content,         \* message -> what is in it, see ContentAssumption
    Script,          \* peer -> the sequence of the messages it sends
    TabletId,
    RangeOf,         \* tablet -> its KeySpaceRange; an optional key is a set
    Thread,          \* the indices of _io_contexts
    MAX_MESSAGES_QUEUE_SIZE,
    MaxCrashes,      \* bound on the peers that crash
    Unknown          \* a message of no known type

Kind == {"request", "tablet", "group", "unknown"}
\* A request is for a key of a table (whose name stands for database_id and table_id), a
\* tablet message for a tablet, and a group message (a heartbeat, a sync or a Paxos
\* message, a message of a master) for the group.  One that completes the group's log
\* up to a KeySpaceChanged entry adds the ranges new_ranges; the handler of a Paxos
\* message may broadcast messages, also to itself.
ASSUME ContentAssumption ==
    /\ \A m \in Message :
           /\ Content[m].kind \in Kind
           /\ Content[m].new_ranges \in Seq(TabletId)
           /\ Content[m].broadcast \in Seq({b \in Message : Content[b].kind # "request"})
           /\ Content[m].kind = "tablet" => Content[m].range \in TabletId
           /\ Content[m].kind = "request" => Content[m].key \in Nat
    /\ Unknown \in Message /\ Content[Unknown].kind = "unknown"
    /\ Script \in [Peer -> Seq(Message)]
    /\ Self \notin Peer
ASSUME RangeAssumption ==
    RangeOf \in [TabletId -> [table_id : STRING, start_key : SUBSET Nat, end_key : SUBSET Nat]]
ASSUME BoundAssumption ==
    /\ Thread # {} /\ Thread \subseteq Nat
    /\ MAX_MESSAGES_QUEUE_SIZE \in Nat \ {0} /\ MaxCrashes \in Nat

Server == "server"
ASSUME SchedulerAssumption == Server \notin TabletId
Scheduler == {Server} \cup TabletId
Item == [from : Peer \cup {Self}, msg : Message]     \* net::IncomingMessage

VARIABLES
    offered,        \* peer -> how many messages of its script it has offered
    message_queue,  \* peer -> the _message_queue of its ChannelImpl
    header_sent,    \* peer -> the header of the first of them has been written
    wire,           \* peer -> the chunks in the socket, [part, msg]
    crashed,        \* the peers that have crashed
    reading,        \* peer -> what the slave's recv waits for: "header", "body", "closed"
    tp_map,         \* the _tp_map, a function from tablets to their threads
    queue,          \* scheduler -> the _message_queue of its AsyncSchedulerImpl
    posted,         \* scheduler -> the tasks it has posted to its io_context, a set
    running,        \* scheduler -> its task is between the callback and the pop
    accepted,       \* history: peer -> the messages its channel has accepted
    handled,        \* history: scheduler -> the messages its callback has got
    refused         \* history: the requests answered with an error, as items

peerVars == <<offered, message_queue, header_sent, accepted>>
socketVars == <<wire, crashed, reading>>
slaveVars == <<tp_map, queue, posted, running, handled, refused>>
vars == <<peerVars, socketVars, slaveVars>>

Init ==
    /\ offered = [p \in Peer |-> 0]
    /\ message_queue = [p \in Peer |-> << >>]
    /\ header_sent = [p \in Peer |-> FALSE]
    /\ wire = [p \in Peer |-> << >>]
    /\ crashed = {}
    /\ reading = [p \in Peer |-> "header"]
    /\ tp_map = [t \in {} |-> 0]
    /\ queue = [s \in Scheduler |-> << >>]
    /\ posted = [s \in Scheduler |-> {}]
    /\ running = [s \in Scheduler |-> FALSE]
    /\ accepted = [p \in Peer |-> << >>]
    /\ handled = [s \in Scheduler |-> << >>]
    /\ refused = << >>

-----------------------------------------------------------------------------
(* The ChannelImpl of a peer.                                              *)

\* Mutation: the queue has no limit.
HasRoom_always(q) == TRUE

HasRoom(q) == Len(q) < MAX_MESSAGES_QUEUE_SIZE

\* queue_send: the message is dropped if the queue is full; the first one is sent.
QueueSend(p) ==
    LET m == Script[p][offered[p] + 1]
    IN /\ p \notin crashed
       /\ offered[p] < Len(Script[p])
       /\ offered' = [offered EXCEPT ![p] = @ + 1]
       /\ IF HasRoom(message_queue[p])
          THEN /\ message_queue' = [message_queue EXCEPT ![p] = Append(@, m)]
               /\ accepted' = [accepted EXCEPT ![p] = Append(@, m)]
          ELSE UNCHANGED <<message_queue, accepted>>
       /\ UNCHANGED <<header_sent, socketVars, slaveVars>>

Put(p, part) == wire' = [wire EXCEPT ![p] = Append(@, [part |-> part, msg |-> Head(message_queue[p])])]

\* send: the header is written, and its handler starts to write the body.
WriteHeader(p) ==
    /\ p \notin crashed
    /\ message_queue[p] # << >> /\ ~header_sent[p]
    /\ Put(p, "header")
    /\ header_sent' = [header_sent EXCEPT ![p] = TRUE]
    /\ UNCHANGED <<offered, message_queue, accepted, crashed, reading, slaveVars>>

\* The body is written; its handler pops the message and sends the next one.
WriteBody(p) ==
    /\ p \notin crashed
    /\ header_sent[p]
    /\ Put(p, "body")
    /\ message_queue' = [message_queue EXCEPT ![p] = Tail(@)]
    /\ header_sent' = [header_sent EXCEPT ![p] = FALSE]
    /\ UNCHANGED <<offered, accepted, crashed, reading, slaveVars>>

\* What the socket has not delivered yet may get lost with the peer.
Crash(p) ==
    /\ p \notin crashed /\ Cardinality(crashed) < MaxCrashes
    /\ crashed' = crashed \cup {p}
    /\ \E k \in 0..Len(wire[p]) : wire' = [wire EXCEPT ![p] = SubSeq(@, 1, k)]
    /\ UNCHANGED <<peerVars, reading, slaveVars>>

-----------------------------------------------------------------------------
(* AsyncSchedulerImpl.  A scheduler is a record of its queue and its posted *)
(* tasks.                                                                  *)

SchedulerOf(s) == [queue |-> queue[s], posted |-> posted[s]]

\* Mutation: every message is posted at once.
queue_message_post(sched, item) ==
    [queue |-> Append(sched.queue, item), posted |-> sched.posted \cup {item}]

\* queue_message: a task is posted for the first message only.
queue_message(sched, item) ==
    [queue |-> Append(sched.queue, item),
     posted |-> IF sched.queue = << >> THEN sched.posted \cup {item} ELSE sched.posted]

\* One call of queue_message after the other.
queue_messages(sched, items) ==
    LET after[k \in 0..Len(items)] ==
            IF k = 0 THEN sched ELSE queue_message(after[k - 1], items[k])
    IN after[Len(items)]

\* Mutation: the last message of the queue is scheduled next.
pop_back(sched) ==
    [queue |-> Tail(sched.queue),
     posted |-> IF Len(sched.queue) > 1 THEN sched.posted \cup {Last(sched.queue)}
                ELSE sched.posted]

\* Mutation: no message is scheduled next.
pop_only(sched) == [sched EXCEPT !.queue = Tail(@)]

\* The end of a task: the message is popped and the next one scheduled.
pop(sched) ==
    [queue |-> Tail(sched.queue),
     posted |-> IF Len(sched.queue) > 1 THEN sched.posted \cup {sched.queue[2]}
                ELSE sched.posted]

-----------------------------------------------------------------------------
(* The network thread of the slave: ChannelImpl::recv for each channel.    *)

\* The receive callback that Connections::add_channel sets.
Receive(p, m) ==
    LET sched == queue_message(SchedulerOf(Server), [from |-> p, msg |-> m])
    IN /\ queue' = [queue EXCEPT ![Server] = sched.queue]
       /\ posted' = [posted EXCEPT ![Server] = sched.posted]
       /\ UNCHANGED <<tp_map, running, handled, refused>>

ReadHeader(p) ==
    /\ reading[p] = "header" /\ wire[p] # << >>
    /\ wire' = [wire EXCEPT ![p] = Tail(@)]
    /\ reading' = [reading EXCEPT ![p] = "body"]
    /\ UNCHANGED <<peerVars, crashed, slaveVars>>

ReadBody(p) ==
    /\ reading[p] = "body" /\ wire[p] # << >>
    /\ Receive(p, Head(wire[p]).msg)
    /\ wire' = [wire EXCEPT ![p] = Tail(@)]
    /\ reading' = [reading EXCEPT ![p] = "header"]
    /\ UNCHANGED <<peerVars, crashed>>

\* The connection ends before the body: recv takes the buffer as it is.  What malloc
\* left in it is a message of no known type or one that was received before, handled or
\* not.
ReadCut(p) ==
    /\ reading[p] = "body" /\ wire[p] = << >> /\ p \in crashed
    /\ \E m \in {Unknown} \cup {handled[Server][k].msg : k \in DOMAIN handled[Server]}
                         \cup {queue[Server][k].msg : k \in DOMAIN queue[Server]} : Receive(p, m)
    /\ reading' = [reading EXCEPT ![p] = "header"]
    /\ UNCHANGED <<peerVars, wire, crashed>>

\* The connection has ended: the close callback erases the channel.
ReadEnd(p) ==
    /\ reading[p] = "header" /\ wire[p] = << >> /\ p \in crashed
    /\ reading' = [reading EXCEPT ![p] = "closed"]
    /\ UNCHANGED <<peerVars, wire, crashed, slaveVars>>

-----------------------------------------------------------------------------
(* The server thread: SlaveIncomingMessageHandler and                      *)
(* TabletParticipantManager.                                               *)

\* Mutation: the end of the range belongs to it.
within_range_closed(range, m) ==
    /\ range.table_id = Content[m].table_id
    /\ \A k \in range.start_key : k <= Content[m].key
    /\ \A k \in range.end_key : Content[m].key <= k

within_range(range, m) ==
    /\ range.table_id = Content[m].table_id
    /\ \A k \in range.start_key : k <= Content[m].key
    /\ \A k \in range.end_key : Content[m].key < k

\* The participants of thread i in _participants_per_thread.
participants(tps, i) == Cardinality({t \in DOMAIN tps : tps[t] = i})

\* Mutation: the first thread.
min_index_first(tps) == Min(Thread)

\* std::min_element: the first thread with the fewest participants.
min_index(tps) ==
    Min({i \in Thread : \A j \in Thread : participants(tps, i) <= participants(tps, j)})

\* One round of the loop of handle_key_space_change, with the tp_provider.
add_range(tps, t) ==
    IF t \in DOMAIN tps THEN tps
    ELSE [u \in DOMAIN tps \cup {t} |-> IF u = t THEN min_index(tps) ELSE tps[u]]

handle_key_space_change(tps, ranges) ==
    LET after[k \in 0..Len(ranges)] ==
            IF k = 0 THEN tps ELSE add_range(after[k - 1], ranges[k])
    IN after[Len(ranges)]

\* The tablets a message of a client or of another replica of a tablet may go to, of
\* which the loop over _tp_map takes the first it meets.
Targets(m) ==
    CASE Content[m].kind = "request" -> {t \in DOMAIN tp_map : within_range(RangeOf[t], m)}
      [] Content[m].kind = "tablet" -> {t \in DOMAIN tp_map : RangeOf[t] = RangeOf[Content[m].range]}
      [] OTHER -> {}

\* What a handler broadcasts comes back over the SelfChannel, whose queue_send runs
\* the receive callback at once: these are the items it gives to the server's scheduler.
FromSelf(m) == [k \in DOMAIN Content[m].broadcast |-> [from |-> Self, msg |-> Content[m].broadcast[k]]]

\* The thread that runs the tasks of a scheduler is free.
ThreadIsFree(s) ==
    \A u \in DOMAIN tp_map : s # Server /\ tp_map[u] = tp_map[s] => ~running[u]

\* The task of scheduler s for item begins with its callback.
Begin(s, item) ==
    /\ item \in posted[s] /\ ~running[s] /\ ThreadIsFree(s)
    /\ running' = [running EXCEPT ![s] = TRUE]
    /\ handled' = [handled EXCEPT ![s] = Append(@, item)]
    /\ UNCHANGED <<peerVars, socketVars>>

\* A message for a tablet: queue_message of the tablet's scheduler.
Forward(item) ==
    /\ Begin(Server, item)
    /\ \E t \in Targets(item.msg) :
           LET sched == queue_message(SchedulerOf(t), item)
           IN /\ queue' = [queue EXCEPT ![t] = sched.queue]
              /\ posted' = [posted EXCEPT ![t] = sched.posted, ![Server] = @ \ {item}]
    /\ UNCHANGED <<tp_map, refused>>

\* ClientRespond: the error is sent if the client still has its channel.
ClientRespond(item) ==
    refused' = IF reading[item.from] = "closed" THEN refused ELSE Append(refused, item)

\* A request for a tablet that is not here.
Refuse(item) ==
    /\ Content[item.msg].kind = "request" /\ Targets(item.msg) = {}
    /\ Begin(Server, item)
    /\ ClientRespond(item)
    /\ posted' = [posted EXCEPT ![Server] = @ \ {item}]
    /\ UNCHANGED <<tp_map, queue>>

\* A tablet message for a tablet that is not here, or a message of no known type.
Ignore(item) ==
    /\ Content[item.msg].kind \in {"tablet", "unknown"} /\ Targets(item.msg) = {}
    /\ Begin(Server, item)
    /\ posted' = [posted EXCEPT ![Server] = @ \ {item}]
    /\ UNCHANGED <<tp_map, queue, refused>>

\* A message for the group, with the key space change it may bring about.
HandleGroup(item) ==
    LET sched == queue_messages([SchedulerOf(Server) EXCEPT !.posted = @ \ {item}],
                                FromSelf(item.msg))
    IN /\ Content[item.msg].kind = "group"
       /\ Begin(Server, item)
       /\ tp_map' = handle_key_space_change(tp_map, Content[item.msg].new_ranges)
       /\ queue' = [queue EXCEPT ![Server] = sched.queue]
       /\ posted' = [posted EXCEPT ![Server] = sched.posted]
       /\ UNCHANGED refused

Dispatch(item) == Forward(item) \/ Refuse(item) \/ Ignore(item) \/ HandleGroup(item)

\* A tablet's thread: IncomingMessageHandler::handle of the tablet.
TabletHandle(t, item) ==
    LET sched == queue_messages(SchedulerOf(Server), FromSelf(item.msg))
    IN /\ t \in DOMAIN tp_map
       /\ Begin(t, item)
       /\ queue' = [queue EXCEPT ![Server] = sched.queue]
       /\ posted' = [posted EXCEPT ![Server] = sched.posted, ![t] = @ \ {item}]
       /\ UNCHANGED <<tp_map, refused>>

\* The rest of the task, under the lock of the scheduler.
FinishTask(s) ==
    LET sched == pop(SchedulerOf(s))
    IN /\ running[s]
       /\ running' = [running EXCEPT ![s] = FALSE]
       /\ queue' = [queue EXCEPT ![s] = sched.queue]
       /\ posted' = [posted EXCEPT ![s] = sched.posted]
       /\ UNCHANGED <<peerVars, socketVars, tp_map, handled, refused>>

ChannelStep(p) == WriteHeader(p) \/ WriteBody(p)
RecvStep(p) == ReadHeader(p) \/ ReadBody(p) \/ ReadCut(p) \/ ReadEnd(p)
ServerStep == FinishTask(Server) \/ \E item \in posted[Server] : Dispatch(item)
TabletStep(t) == FinishTask(t) \/ \E item \in posted[t] : TabletHandle(t, item)

Next ==
    \/ \E p \in Peer : QueueSend(p) \/ ChannelStep(p) \/ RecvStep(p) \/ Crash(p)
    \/ ServerStep
    \/ \E t \in TabletId : TabletStep(t)

Spec == Init /\ [][Next]_vars

\* Every io_context has a thread that runs what is ready.
FairSpec ==
    /\ Spec
    /\ \A p \in Peer : WF_vars(ChannelStep(p)) /\ WF_vars(RecvStep(p))
    /\ WF_vars(ServerStep)
    /\ \A t \in TabletId : WF_vars(TabletStep(t))

-----------------------------------------------------------------------------
(* Properties.                                                             *)

\* The items of a sequence that come from p, in order.
From(seq, p) ==
    LET select[k \in 0..Len(seq)] ==
            IF k = 0 THEN << >>
            ELSE IF seq[k].from = p THEN Append(select[k - 1], seq[k]) ELSE select[k - 1]
    IN select[Len(seq)]
Messages(seq) == [k \in DOMAIN seq |-> seq[k].msg]

\* The fields have their types, and no send queue is longer than its limit.
TypeOK ==
    /\ offered \in [Peer -> Nat] /\ crashed \subseteq Peer
    /\ message_queue \in [Peer -> Seq(Message)] /\ accepted \in [Peer -> Seq(Message)]
    /\ \A p \in Peer : Len(message_queue[p]) <= MAX_MESSAGES_QUEUE_SIZE
    /\ wire \in [Peer -> Seq([part : {"header", "body"}, msg : Message])]
    /\ header_sent \in [Peer -> BOOLEAN]
    /\ reading \in [Peer -> {"header", "body", "closed"}]
    /\ tp_map \in [DOMAIN tp_map -> Thread] /\ DOMAIN tp_map \subseteq TabletId
    /\ queue \in [Scheduler -> Seq(Item)] /\ handled \in [Scheduler -> Seq(Item)]
    /\ posted \in [Scheduler -> SUBSET Item]
    /\ running \in [Scheduler -> BOOLEAN]
    /\ refused \in Seq(Item)

\* AsyncSchedulerImpl never has two tasks, whose order boost::asio::post would leave
\* open, and never none while messages wait: the wake-up of a message that is queued
\* while the callback runs, by another thread or by the callback itself, is not lost
\* and not doubled.
OneTaskForTheHead ==
    \A s \in Scheduler :
        IF queue[s] = << >> THEN posted[s] = {} /\ ~running[s]
        ELSE posted[s] = IF running[s] THEN {} ELSE {Head(queue[s])}

\* AsyncSchedulerImpl.h: "We use a queue to make sure that the incoming messages are
\* handled in FIFO order".  The server handles what a peer's channel has accepted in
\* that order, without gaps or duplicates, whatever is queued while the header or the
\* body of a message is being written; after a crash one more message, from a body
\* that was cut off, may follow.  A tablet handles what a peer that has not crashed
\* sent to it once and in the order in which the peer sent it, although it passes
\* three queues and three threads.
HandledInOrder ==
    \A p \in Peer :
        /\ LET got == Messages(From(handled[Server], p))
           IN \/ IsPrefix(got, accepted[p])
              \/ p \in crashed /\ IsPrefix(Front(got), accepted[p])
        /\ p \notin crashed =>
               \A t \in TabletId :
                   LET got == Messages(From(handled[t], p))
                   IN \A j, k \in DOMAIN got : j < k =>
                          \E a, b \in DOMAIN accepted[p] :
                              a < b /\ accepted[p][a] = got[j] /\ accepted[p][b] = got[k]

IsRequest(item) == Content[item.msg].kind = "request"
SameKey(m, n) == m.key = n.key /\ m.table_id = n.table_id

\* Requests for the same key of a table are handled by the same tablet, as its log is
\* what orders them, and a client gets an error or its request goes to a tablet, never
\* both: across the key space changes that add tablets to _tp_map while requests come in.
RoutedOnce ==
    \A t \in TabletId : \A j \in DOMAIN handled[t] :
        LET item == handled[t][j]
        IN /\ \A k \in DOMAIN refused : refused[k] # item \/ item.from \in crashed
           /\ \A u \in TabletId : \A k \in DOMAIN handled[u] :
                  /\ IsRequest(item) /\ IsRequest(handled[u][k])
                  /\ SameKey(Content[item.msg], Content[handled[u][k].msg])
                  => t = u

\* tp_provider: no thread has more than one tablet more than another, in whatever
\* portions the key space arrives.
ThreadsBalanced ==
    \A i, j \in Thread : participants(tp_map, i) <= participants(tp_map, j) + 1

\* The scripts are finite, so in the end everything comes to rest: what the channel of
\* a peer that has not crashed has accepted has been handled by the server, and what
\* the server has forwarded by the tablets.
AllHandled ==
    <>[](/\ \A p \in Peer \ crashed : Len(From(handled[Server], p)) = Len(accepted[p])
         /\ \A s \in Scheduler : queue[s] = << >>)
=============================================================================
