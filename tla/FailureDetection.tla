--------------------------- MODULE FailureDetection ---------------------------
(***************************************************************************)
(* The slaves of a group find one another and watch one another: the       *)
(* start-up of slave.cc with the Connections it makes, the FailureDetector *)
(* that broadcasts a heartbeat every period, and the HeartbeatTracker that *)
(* counts periods without one.                                             *)
(*                                                                         *)
(* Time is the HEARTBEAT_SEND_PERIOD that all slaves share.  The timers    *)
(* have no common phase: within a period every running slave ticks once,   *)
(* in any order.  A heartbeat is in flight from queue_send at its sender   *)
(* until the server thread of its receiver handles it, and has as its age  *)
(* the periods that ended meanwhile.  At first the network loses and       *)
(* delays heartbeats at will; once it is stable it loses none and none is  *)
(* older than MaxDelay.  Slaves crash at any time and are not started      *)
(* again.                                                                  *)
(***************************************************************************)
EXTENDS Integers, FiniteSets

CONSTANTS
    Node,                      \* the slaves; EndpointIds are ordered, so numbers
    Observer,                  \* the slaves whose trackers are looked at
    HEARTBEAT_FAILURE_COUNT,
    MaxDelay,                  \* in periods, of a network that is stable
    MaxCrashes                 \* bound on the crashes

ASSUME NodeAssumption == Node \subseteq Nat /\ Observer \subseteq Node
\* What the failure count must exceed for a slave that is late not to be taken for
\* one that has failed; in the code the count is 4.
ASSUME DelayAssumption ==
    MaxDelay \in Nat /\ HEARTBEAT_FAILURE_COUNT \in Nat /\ MaxDelay + 2 < HEARTBEAT_FAILURE_COUNT
ASSUME BoundAssumption == MaxCrashes \in Nat

VARIABLES
    state,             \* slave -> "off", "up" or "crashed"
    accepting,         \* <<m, n>>: n has connected to m, which has not accepted yet
    connections,       \* slave -> the endpoints of its slave_connections
    heartbeat_count,   \* slave -> its _heartbeat_count, a function on the endpoints in it
    inflight,          \* heartbeats [from, to, age]
    ticked,            \* the slaves whose timers have fired in this period
    stable,            \* the network is stable
    fresh              \* history: slave -> whom it has heard since the network is stable

netVars == <<state, accepting, connections>>
vars == <<netVars, heartbeat_count, inflight, ticked, stable, fresh>>

Up == {n \in Node : state[n] = "up"}

Init ==
    /\ state = [n \in Node |-> "off"]
    /\ accepting = {}
    /\ connections = [n \in Node |-> {}]
    /\ heartbeat_count = [n \in Node |-> [m \in {} |-> 0]]
    /\ inflight = {} /\ ticked = {}
    /\ stable = FALSE
    /\ fresh = [n \in Node |-> {}]

-----------------------------------------------------------------------------
(* Start-up, connections and crashes.                                      *)

\* slave.cc: the slave connects to the slaves started before it and to itself
\* (SelfChannel) before its timers start; connect throws if one of them is down.
Start(n) ==
    /\ state[n] = "off"
    /\ \A m \in Node : m < n => state[m] = "up"
    /\ state' = [state EXCEPT ![n] = "up"]
    /\ connections' = [connections EXCEPT ![n] = {m \in Node : m <= n}]
    /\ accepting' = accepting \cup {<<m, n>> : m \in {k \in Node : k < n}}
    /\ ticked' = ticked \cup {n}
    /\ UNCHANGED <<heartbeat_count, inflight, stable, fresh>>

\* ConnectionHandler::async_accept, add_channel at the other end.
Accept(m, n) ==
    /\ <<m, n>> \in accepting
    /\ m \in Up
    /\ accepting' = accepting \ {<<m, n>>}
    /\ connections' = [connections EXCEPT ![m] = @ \cup {n}]
    /\ UNCHANGED <<state, heartbeat_count, inflight, ticked, stable, fresh>>

Crash(n) ==
    /\ n \in Up
    /\ Cardinality({m \in Node : state[m] = "crashed"}) < MaxCrashes
    /\ state' = [state EXCEPT ![n] = "crashed"]
    /\ inflight' = {h \in inflight : h.to # n}
    /\ UNCHANGED <<accepting, connections, heartbeat_count, ticked, stable, fresh>>

\* The connection of m to a crashed slave ends after what was sent over it: recv reads
\* 0 bytes and the close callback erases the channel.
Close(m, n) ==
    /\ m \in Up /\ n \in connections[m] /\ state[n] = "crashed"
    /\ \A h \in inflight : h.from = n => h.to # m
    /\ connections' = [connections EXCEPT ![m] = @ \ {n}]
    /\ UNCHANGED <<state, accepting, heartbeat_count, inflight, ticked, stable, fresh>>

-----------------------------------------------------------------------------
(* HeartbeatTracker.                                                       *)

\* Counts of HEARTBEAT_FAILURE_COUNT and more are not told apart.
increment_counts(count) ==
    [m \in DOMAIN count |->
        IF count[m] < HEARTBEAT_FAILURE_COUNT THEN count[m] + 1 ELSE count[m]]

handle_heartbeat(count, from) ==
    [m \in DOMAIN count \cup {from} |-> IF m = from THEN 0 ELSE count[m]]

\* Mutation: one period less.
alive_endpoints_early(count) ==
    {m \in DOMAIN count : count[m] < HEARTBEAT_FAILURE_COUNT - 1}

alive_endpoints(count) == {m \in DOMAIN count : count[m] < HEARTBEAT_FAILURE_COUNT}

\* The first alive endpoint, none if there is none.
leader_endpoint_id(count) ==
    {m \in alive_endpoints(count) : \A k \in alive_endpoints(count) : m <= k}

\* Somebody asks n for the alive endpoints or the leader: the others are erased.
Query(n) ==
    /\ n \in Up
    /\ heartbeat_count' = [heartbeat_count EXCEPT
           ![n] = [m \in alive_endpoints(@) |-> @[m]]]
    /\ UNCHANGED <<netVars, inflight, ticked, stable, fresh>>

-----------------------------------------------------------------------------
(* FailureDetector and the network.                                        *)

\* The heartbeats that n broadcasts: endpoints without a channel are ignored.
Heartbeats(n) == [from : {n}, to : connections[n] \cap Up \cap Observer, age : {0}]

\* Mutation: the counts are left alone.
Tick_uncounted(n) ==
    /\ n \in Up \ ticked
    /\ ticked' = ticked \cup {n}
    /\ inflight' = inflight \cup Heartbeats(n)
    /\ UNCHANGED <<netVars, heartbeat_count, stable, fresh>>

\* The callback of schedule_heartbeat: broadcast, then increment.
Tick(n) ==
    /\ n \in Up \ ticked
    /\ ticked' = ticked \cup {n}
    /\ inflight' = inflight \cup Heartbeats(n)
    /\ heartbeat_count' = [heartbeat_count EXCEPT ![n] = increment_counts(@)]
    /\ UNCHANGED <<netVars, stable, fresh>>

IsOldest(h) == \A g \in inflight : g.from = h.from /\ g.to = h.to => g.age <= h.age

\* SlaveIncomingMessageHandler::handle for a heartbeat.
Deliver(m, n) ==
    \E h \in inflight :
        /\ h.from = m /\ h.to = n /\ IsOldest(h)
        /\ m \in connections[n]
        /\ inflight' = inflight \ {h}
        /\ heartbeat_count' = [heartbeat_count EXCEPT ![n] = handle_heartbeat(@, m)]
        /\ fresh' = [fresh EXCEPT ![n] = IF stable THEN @ \cup {m} ELSE @]
        /\ UNCHANGED <<netVars, ticked, stable>>

\* A heartbeat is lost with its connection or to a full send queue; SelfChannel has
\* neither.
Lose(h) ==
    /\ ~stable /\ h.from # h.to
    /\ inflight' = inflight \ {h}
    /\ UNCHANGED <<netVars, heartbeat_count, ticked, stable, fresh>>

\* A period ends.  Heartbeats that are later than a stable network allows are not told
\* apart: a backlog of them does what one does.
EndPeriod ==
    /\ Up # {} /\ Up \subseteq ticked
    /\ \A h \in inflight : stable \/ h.from = h.to => h.age < MaxDelay
    /\ inflight' = {[h EXCEPT !.age = IF @ > MaxDelay THEN @ ELSE @ + 1] : h \in inflight}
    /\ ticked' = {}
    /\ UNCHANGED <<netVars, heartbeat_count, stable, fresh>>

Stabilize ==
    /\ ~stable /\ stable' = TRUE
    /\ UNCHANGED <<netVars, heartbeat_count, inflight, ticked, fresh>>

Next ==
    \/ \E n \in Node : Start(n) \/ Crash(n) \/ Tick(n)
    \/ \E n \in Observer : Query(n)
    \/ \E m, n \in Node : Accept(m, n) \/ Close(m, n) \/ Deliver(m, n)
    \/ \E h \in inflight : Lose(h)
    \/ EndPeriod
    \/ Stabilize

Spec == Init /\ [][Next]_vars

\* Timers fire, sockets are accepted and read, and time goes on.
FairSpec ==
    /\ Spec
    /\ WF_vars(EndPeriod)
    /\ \A n \in Node : WF_vars(Tick(n))
    /\ \A m, n \in Node : WF_vars(Accept(m, n)) /\ WF_vars(Deliver(m, n))

-----------------------------------------------------------------------------
(* Properties.                                                             *)

\* The _heartbeat_counts there can be.
Count == UNION {[D -> 0..HEARTBEAT_FAILURE_COUNT] : D \in SUBSET Node}

\* The fields have their types; only observers are sent heartbeats.
TypeOK ==
    /\ state \in [Node -> {"off", "up", "crashed"}]
    /\ accepting \subseteq Node \X Node
    /\ connections \in [Node -> SUBSET Node]
    /\ heartbeat_count \in [Node -> Count]
    /\ inflight \subseteq [from : Node, to : Observer, age : 0..(MaxDelay + 1)]
    /\ ticked \subseteq Node
    /\ stable \in BOOLEAN
    /\ fresh \in [Node -> SUBSET Node]

\* A running slave that has been heard from since the network became stable is never
\* marked as failed, although its heartbeats come up to MaxDelay periods late, their
\* senders' timers are not in step with the receiver's, and counts start anywhere.
NoFalseSuspicion ==
    \A n, m \in Up :
        stable /\ m \in fresh[n] => m \in alive_endpoints(heartbeat_count[n])

\* HeartbeatTracker.h: "as the network stabilizes and after some [time] after a node's
\* failure, all nodes will end up having the same perceived leader", the smallest
\* running slave; and they know of each running slave and of no other.
LeadersConverge ==
    <>stable => <>[](\A n \in Up \cap Observer :
                        /\ alive_endpoints(heartbeat_count[n]) = Up
                        /\ \A m \in Up : (\A k \in Up : m <= k) =>
                               leader_endpoint_id(heartbeat_count[n]) = {m})
=============================================================================
