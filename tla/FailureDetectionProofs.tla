------------------------ MODULE FailureDetectionProofs ------------------------
(***************************************************************************)
(* Proofs that HeartbeatTracker suspects no running slave that was heard   *)
(* since the network is stable, for any number of slaves, any failure      *)
(* count and any delay that the count exceeds by more than two periods.    *)
(*                                                                         *)
(* NoFalseSuspicion bounds a count, which a tick of the receiver raises    *)
(* and a heartbeat that arrives lowers.  What keeps it bounded is where    *)
(* the next heartbeat is: in flight for some periods, or not sent because  *)
(* the sender has not ticked yet.  CountsBounded says so, and needs that   *)
(* the sender keeps its connection (FreshConnected) and that no heartbeat  *)
(* from before the network was stable is behind one that was heard         *)
(* (FreshInTime).                                                          *)
(***************************************************************************)
EXTENDS FailureDetection, TLAPS

\* A heartbeat in flight has a receiver that is up, and a sender that was.
InFlightConnected ==
    \A h \in inflight : state[h.to] = "up" /\ state[h.from] # "off" /\ h.to \in connections[h.from]

\* A slave that was heard keeps the connection it was heard over while the other is up.
FreshConnected ==
    \A n \in Node : \A m \in fresh[n] :
        /\ stable /\ n \in Observer
        /\ state[n] # "off" /\ state[m] # "off"
        /\ state[n] = "up" => n \in connections[m]

\* Heartbeats behind one that was heard are in time.
FreshInTime ==
    \A h \in inflight : h.from \in fresh[h.to] => h.age <= MaxDelay

Late(n) == IF n \in ticked THEN 1 ELSE 0
Owes(m) == IF m \in ticked THEN 0 ELSE 1

\* The count of m at n is explained by a heartbeat in flight, or by one that is to be
\* sent in this period.
Bounded(n, m) ==
    /\ m \in DOMAIN heartbeat_count[n]
    /\ \/ /\ \A h \in inflight : h.from = m => h.to # n
          /\ heartbeat_count[n][m] <= Owes(m) + Late(n)
       \/ \E h \in inflight : /\ h.from = m /\ h.to = n
                              /\ heartbeat_count[n][m] <= h.age + 1 + Late(n)

CountsBounded ==
    \A n, m \in Node : m \in fresh[n] /\ state[n] = "up" /\ state[m] = "up" => Bounded(n, m)

IInv == TypeOK /\ InFlightConnected /\ FreshConnected /\ FreshInTime /\ CountsBounded

-----------------------------------------------------------------------------
(* Types.                                                                  *)

USE NodeAssumption, DelayAssumption, BoundAssumption

\* What it means for a _heartbeat_count to be a Count.
LEMMA CountIsFunction ==
    ASSUME NEW f \in Count
    PROVE  DOMAIN f \subseteq Node /\ f \in [DOMAIN f -> 0..HEARTBEAT_FAILURE_COUNT]
<1>1. PICK D \in SUBSET Node : f \in [D -> 0..HEARTBEAT_FAILURE_COUNT]
  BY DEF Count
<1> QED BY <1>1

LEMMA FunctionIsCount ==
    ASSUME NEW D \in SUBSET Node, NEW f \in [D -> 0..HEARTBEAT_FAILURE_COUNT]
    PROVE  f \in Count
BY DEF Count

\* The operations of HeartbeatTracker keep a Count.
LEMMA IncrementKeepsCount ==
    ASSUME NEW f \in Count
    PROVE  increment_counts(f) \in Count
<1>1. DOMAIN f \subseteq Node /\ f \in [DOMAIN f -> 0..HEARTBEAT_FAILURE_COUNT]
  BY CountIsFunction
<1>2. increment_counts(f) \in [DOMAIN f -> 0..HEARTBEAT_FAILURE_COUNT]
  BY <1>1 DEF increment_counts
<1> QED BY <1>1, <1>2, FunctionIsCount

LEMMA HeartbeatKeepsCount ==
    ASSUME NEW f \in Count, NEW m \in Node
    PROVE  handle_heartbeat(f, m) \in Count
<1>1. DOMAIN f \subseteq Node /\ f \in [DOMAIN f -> 0..HEARTBEAT_FAILURE_COUNT]
  BY CountIsFunction
<1>2. handle_heartbeat(f, m) \in [DOMAIN f \cup {m} -> 0..HEARTBEAT_FAILURE_COUNT]
  BY <1>1 DEF handle_heartbeat
<1>3. DOMAIN f \cup {m} \in SUBSET Node
  BY <1>1
<1> QED BY <1>2, <1>3, FunctionIsCount

LEMMA QueryKeepsCount ==
    ASSUME NEW f \in Count
    PROVE  [m \in alive_endpoints(f) |-> f[m]] \in Count
<1>1. DOMAIN f \subseteq Node /\ f \in [DOMAIN f -> 0..HEARTBEAT_FAILURE_COUNT]
  BY CountIsFunction
<1>2. alive_endpoints(f) \subseteq DOMAIN f
  BY DEF alive_endpoints
<1>3. [m \in alive_endpoints(f) |-> f[m]] \in [alive_endpoints(f) -> 0..HEARTBEAT_FAILURE_COUNT]
  BY <1>1, <1>2
<1>4. alive_endpoints(f) \in SUBSET Node
  BY <1>1, <1>2
<1> QED BY <1>3, <1>4, FunctionIsCount

LEMMA InitTypeOK == Init => TypeOK
<1> SUFFICES ASSUME Init PROVE TypeOK
  OBVIOUS
<1>1. [m \in {} |-> 0] \in [{} -> 0..HEARTBEAT_FAILURE_COUNT]
  OBVIOUS
<1>2. [m \in {} |-> 0] \in Count
  BY <1>1, FunctionIsCount
<1> QED BY <1>2 DEF Init, TypeOK

LEMMA NextTypeOK == TypeOK /\ [Next]_vars => TypeOK'
<1> SUFFICES ASSUME TypeOK, [Next]_vars PROVE TypeOK'
  OBVIOUS
<1> USE DEF TypeOK
<1>1. ASSUME NEW n \in Node, Start(n) PROVE TypeOK'
  <2>1. accepting' \subseteq Node \X Node
    BY <1>1 DEF Start
  <2>2. connections' \in [Node -> SUBSET Node]
    BY <1>1 DEF Start
  <2>3. state' \in [Node -> {"off", "up", "crashed"}]
    BY <1>1 DEF Start
  <2> QED BY <1>1, <2>1, <2>2, <2>3 DEF Start
<1>2. ASSUME NEW n \in Node, Crash(n) PROVE TypeOK'
  BY <1>2 DEF Crash
<1>3. ASSUME NEW n \in Node, Tick(n) PROVE TypeOK'
  <2>1. heartbeat_count' \in [Node -> Count]
    BY <1>3, IncrementKeepsCount DEF Tick
  <2>2. Heartbeats(n) \subseteq [from : Node, to : Observer, age : 0..(MaxDelay + 1)]
    BY DEF Heartbeats
  <2> QED BY <1>3, <2>1, <2>2 DEF Tick, netVars
<1>4. ASSUME NEW n \in Observer, Query(n) PROVE TypeOK'
  <2>1. heartbeat_count' \in [Node -> Count]
    BY <1>4, QueryKeepsCount DEF Query
  <2> QED BY <1>4, <2>1 DEF Query, netVars
<1>5. ASSUME NEW m \in Node, NEW n \in Node, Accept(m, n) PROVE TypeOK'
  BY <1>5 DEF Accept
<1>6. ASSUME NEW m \in Node, NEW n \in Node, Close(m, n) PROVE TypeOK'
  BY <1>6 DEF Close
<1>7. ASSUME NEW m \in Node, NEW n \in Node, Deliver(m, n) PROVE TypeOK'
  <2>1. heartbeat_count' \in [Node -> Count]
    BY <1>7, HeartbeatKeepsCount DEF Deliver
  <2> QED BY <1>7, <2>1 DEF Deliver, netVars
<1>8. ASSUME NEW h \in inflight, Lose(h) PROVE TypeOK'
  BY <1>8 DEF Lose, netVars
<1>9. ASSUME EndPeriod PROVE TypeOK'
  BY <1>9 DEF EndPeriod, netVars
<1>10. ASSUME Stabilize PROVE TypeOK'
  BY <1>10 DEF Stabilize, netVars
<1>11. ASSUME UNCHANGED vars PROVE TypeOK'
  BY <1>11 DEF vars, netVars
<1> QED
  BY <1>1, <1>2, <1>3, <1>4, <1>5, <1>6, <1>7, <1>8, <1>9, <1>10, <1>11 DEF Next

\* The fields keep their types, for any slaves and any delays: no count leaves
\* 0..HEARTBEAT_FAILURE_COUNT, and every heartbeat is one of a slave to an observer.
THEOREM TypeCorrect == Spec => []TypeOK
BY InitTypeOK, NextTypeOK, PTL DEF Spec
-----------------------------------------------------------------------------
(* The inductive invariant.                                                *)

\* The count of a running slave that was heard is below the failure count: what
\* MaxDelay + 2 < HEARTBEAT_FAILURE_COUNT is for.
LEMMA BoundedIsAlive ==
    ASSUME IInv, NEW n \in Node, NEW m \in Node,
           m \in fresh[n], state[n] = "up", state[m] = "up"
    PROVE  m \in alive_endpoints(heartbeat_count[n])
<1>1. Bounded(n, m)
  BY DEF IInv, CountsBounded
<1>2. heartbeat_count[n] \in Count
  BY DEF IInv, TypeOK
<1>3. heartbeat_count[n][m] \in Nat
  BY <1>1, <1>2, CountIsFunction DEF Bounded
<1>4. heartbeat_count[n][m] <= MaxDelay + 2
  <2>1. CASE \A h \in inflight : h.from = m => h.to # n
    BY <1>1, <1>3, <2>1 DEF Bounded, Owes, Late
  <2>2. CASE \E h \in inflight : h.from = m /\ h.to = n
                                  /\ heartbeat_count[n][m] <= h.age + 1 + Late(n)
    <3>1. PICK h \in inflight : h.from = m /\ h.to = n
                                 /\ heartbeat_count[n][m] <= h.age + 1 + Late(n)
      BY <2>2
    <3>2. h.age <= MaxDelay /\ h.age \in Nat
      BY <3>1 DEF IInv, FreshInTime, TypeOK
    <3> QED BY <1>3, <3>1, <3>2 DEF Late
  <2> QED BY <1>1, <2>1, <2>2 DEF Bounded
<1> QED BY <1>1, <1>3, <1>4 DEF Bounded, alive_endpoints

LEMMA InitIInv == Init => IInv
<1> SUFFICES ASSUME Init PROVE IInv
  OBVIOUS
<1>1. TypeOK
  BY InitTypeOK
<1>2. InFlightConnected /\ FreshInTime
  BY DEF Init, InFlightConnected, FreshInTime
<1>3. FreshConnected /\ CountsBounded
  BY DEF Init, FreshConnected, CountsBounded
<1> QED BY <1>1, <1>2, <1>3 DEF IInv

\* Before the network is stable nobody counts as heard, and there is nothing to show
\* but where heartbeats in flight come from.
LEMMA NobodyHeard ==
    ASSUME IInv, TypeOK', ~stable, fresh' = fresh
    PROVE  FreshConnected' /\ FreshInTime' /\ CountsBounded'
<1>1. \A n \in Node : fresh'[n] = {}
  BY DEF IInv, FreshConnected
<1>2. \A h \in inflight' : h.to \in Node
  BY DEF TypeOK
<1> QED BY <1>1, <1>2 DEF FreshConnected, CountsBounded, FreshInTime

\* A count stays explained by a step that changes neither it, nor the heartbeats in
\* flight between the two slaves, nor which of the two has ticked.
LEMMA Undisturbed ==
    ASSUME NEW n \in Node, NEW m \in Node, Bounded(n, m),
           heartbeat_count'[n] = heartbeat_count[n],
           n \in ticked' <=> n \in ticked, m \in ticked' <=> m \in ticked,
           \A h : h.from = m /\ h.to = n => (h \in inflight' <=> h \in inflight)
    PROVE  Bounded(n, m)'
<1>1. Late(n)' = Late(n) /\ Owes(m)' = Owes(m)
  BY DEF Late, Owes
<1> QED BY <1>1 DEF Bounded

LEMMA StartKeeps ==
    ASSUME IInv, TypeOK', NEW k \in Node, Start(k)
    PROVE  IInv'
<1> USE DEF IInv
<1>1. \A n \in Node : n # k => state'[n] = state[n] /\ connections'[n] = connections[n]
  BY DEF Start, TypeOK
<1>2. InFlightConnected'
  BY <1>1 DEF Start, InFlightConnected, TypeOK
<1>3. FreshConnected'
  BY <1>1 DEF Start, FreshConnected, TypeOK
<1>4. FreshInTime'
  BY DEF Start, FreshInTime
<1>5. CountsBounded'
  <2> SUFFICES ASSUME NEW n \in Node, NEW m \in Node, m \in fresh'[n],
                      state'[n] = "up", state'[m] = "up"
               PROVE  Bounded(n, m)'
    BY DEF CountsBounded
  <2>1. n # k /\ m # k
    BY DEF Start, FreshConnected
  <2>2. Bounded(n, m)
    BY <1>1, <2>1 DEF Start, CountsBounded
  <2> QED BY <2>1, <2>2, Undisturbed DEF Start
<1> QED BY <1>2, <1>3, <1>4, <1>5

LEMMA CrashKeeps ==
    ASSUME IInv, TypeOK', NEW k \in Node, Crash(k)
    PROVE  IInv'
<1> USE DEF IInv
<1>1. \A n \in Node : state'[n] = IF n = k THEN "crashed" ELSE state[n]
  BY DEF Crash, TypeOK
<1>2. InFlightConnected'
  BY <1>1 DEF Crash, InFlightConnected, TypeOK
<1>3. FreshConnected'
  BY <1>1 DEF Crash, FreshConnected, TypeOK
<1>4. FreshInTime'
  BY DEF Crash, FreshInTime
<1>5. CountsBounded'
  <2> SUFFICES ASSUME NEW n \in Node, NEW m \in Node, m \in fresh'[n],
                      state'[n] = "up", state'[m] = "up"
               PROVE  Bounded(n, m)'
    BY DEF CountsBounded
  <2>1. n # k /\ m # k
    BY <1>1
  <2>2. m \in fresh[n] /\ state[n] = "up" /\ state[m] = "up"
    BY <1>1, <2>1 DEF Crash
  <2>3. Bounded(n, m)
    BY <2>2 DEF CountsBounded
  <2> QED BY <2>1, <2>3, Undisturbed DEF Crash
<1> QED BY <1>2, <1>3, <1>4, <1>5

LEMMA ConnectionKeeps ==
    ASSUME IInv, TypeOK', NEW p \in Node, NEW q \in Node, Accept(p, q) \/ Close(p, q)
    PROVE  IInv'
<1> USE DEF IInv
<1>1. UNCHANGED <<state, heartbeat_count, inflight, ticked, stable, fresh>>
  BY DEF Accept, Close
<1>2. \A n, m \in Node : n \in connections[m] /\ state[n] = "up" => n \in connections'[m]
  BY DEF Accept, Close, TypeOK
<1>3. InFlightConnected'
  BY <1>1, <1>2 DEF InFlightConnected, TypeOK
<1>4. FreshConnected'
  BY <1>1, <1>2 DEF FreshConnected, TypeOK
<1>5. FreshInTime' /\ CountsBounded'
  BY <1>1 DEF FreshInTime, CountsBounded, Bounded, Late, Owes
<1> QED BY <1>3, <1>4, <1>5

\* A tick of the sender puts a heartbeat in flight, which explains what it owed; a tick
\* of the receiver counts one period more.
LEMMA TickKeeps ==
    ASSUME IInv, TypeOK', NEW k \in Node, Tick(k)
    PROVE  IInv'
<1> USE DEF IInv
<1>1. UNCHANGED <<state, connections, stable, fresh>> /\ state[k] = "up" /\ k \notin ticked
  BY DEF Tick, netVars, Up
<1>2. \A h \in Heartbeats(k) :
          /\ h.from = k /\ h.age = 0
          /\ h.to \in Node /\ state[h.to] = "up" /\ h.to \in connections[k]
  BY DEF Heartbeats, Up, TypeOK
<1>3. inflight' = inflight \cup Heartbeats(k)
  BY DEF Tick
<1>4. InFlightConnected'
  BY <1>1, <1>2, <1>3 DEF InFlightConnected
<1>5. FreshConnected'
  BY <1>1 DEF FreshConnected
<1>6. FreshInTime'
  BY <1>1, <1>2, <1>3 DEF FreshInTime
<1>7. CountsBounded'
  <2> SUFFICES ASSUME NEW n \in Node, NEW m \in Node, m \in fresh'[n],
                      state'[n] = "up", state'[m] = "up"
               PROVE  Bounded(n, m)'
    BY DEF CountsBounded
  <2>1. Bounded(n, m)
    BY <1>1 DEF CountsBounded
  <2>2. DOMAIN heartbeat_count[n] \subseteq Node
        /\ heartbeat_count[n] \in [DOMAIN heartbeat_count[n] -> 0..HEARTBEAT_FAILURE_COUNT]
    BY CountIsFunction DEF TypeOK
  <2>3. heartbeat_count[n][m] \in Nat /\ m \in DOMAIN heartbeat_count[n]
    BY <2>1, <2>2 DEF Bounded
  <2>4. /\ m \in DOMAIN heartbeat_count'[n] /\ heartbeat_count'[n][m] \in Nat
        /\ heartbeat_count'[n][m] <= heartbeat_count[n][m] + (IF n = k THEN 1 ELSE 0)
    BY <2>2, <2>3 DEF Tick, TypeOK, increment_counts
  <2>5. Late(n)' = (IF n = k THEN 1 ELSE Late(n)) /\ (n = k => Late(n) = 0) /\ Late(n) \in Nat
    BY <1>1 DEF Tick, Late
  <2>6. \A h \in inflight : h.age \in Nat
    BY DEF TypeOK
  <2>7. CASE \E h \in inflight : /\ h.from = m /\ h.to = n
                                 /\ heartbeat_count[n][m] <= h.age + 1 + Late(n)
    <3>1. PICK h \in inflight : /\ h.from = m /\ h.to = n
                                /\ heartbeat_count[n][m] <= h.age + 1 + Late(n)
      BY <2>7
    <3>2. h \in inflight' /\ heartbeat_count'[n][m] <= h.age + 1 + Late(n)'
      BY <1>3, <2>3, <2>4, <2>5, <2>6, <3>1
    <3> QED BY <2>4, <3>1, <3>2 DEF Bounded
  <2>8. CASE /\ \A h \in inflight : h.from = m => h.to # n
             /\ heartbeat_count[n][m] <= Owes(m) + Late(n)
             /\ m # k
    <3>1. \A h \in inflight' : h.from = m => h.to # n
      BY <1>2, <1>3, <2>8
    <3>2. Owes(m)' = Owes(m) /\ Owes(m) \in Nat
      BY <2>8 DEF Owes, Tick
    <3>3. heartbeat_count'[n][m] <= Owes(m)' + Late(n)'
      BY <2>3, <2>4, <2>5, <2>8, <3>2
    <3> QED BY <2>4, <3>1, <3>3 DEF Bounded
  <2>9. CASE heartbeat_count[n][m] <= Owes(m) + Late(n) /\ m = k
    <3> DEFINE h == [from |-> k, to |-> n, age |-> 0]
    <3>1. n \in connections[k] /\ n \in Observer /\ state[n] = "up"
      BY <1>1, <2>9 DEF FreshConnected
    <3>2. h \in inflight'
      BY <1>3, <3>1 DEF Heartbeats, Up
    <3>3. Owes(m) = 1
      BY <1>1, <2>9 DEF Owes
    <3>4. heartbeat_count'[n][m] <= h.age + 1 + Late(n)'
      BY <2>3, <2>4, <2>5, <2>9, <3>3
    <3> QED BY <2>4, <2>9, <3>2, <3>4 DEF Bounded
  <2> QED BY <2>1, <2>7, <2>8, <2>9 DEF Bounded
<1> QED BY <1>4, <1>5, <1>6, <1>7

\* A query erases the slaves that have failed; those that count as heard stay.
LEMMA QueryKeeps ==
    ASSUME IInv, TypeOK', NEW k \in Node, Query(k)
    PROVE  IInv'
<1> USE DEF IInv
<1>1. UNCHANGED <<state, connections, inflight, ticked, stable, fresh>>
  BY DEF Query, netVars
<1>2. InFlightConnected' /\ FreshConnected' /\ FreshInTime'
  BY <1>1 DEF InFlightConnected, FreshConnected, FreshInTime
<1>3. CountsBounded'
  <2> SUFFICES ASSUME NEW n \in Node, NEW m \in Node, m \in fresh'[n],
                      state'[n] = "up", state'[m] = "up"
               PROVE  Bounded(n, m)'
    BY DEF CountsBounded
  <2>1. Bounded(n, m) /\ m \in alive_endpoints(heartbeat_count[n])
    BY <1>1, BoundedIsAlive DEF CountsBounded
  <2>2. m \in DOMAIN heartbeat_count'[n] /\ heartbeat_count'[n][m] = heartbeat_count[n][m]
    BY <2>1 DEF Query, TypeOK, Bounded
  <2>3. Late(n)' = Late(n) /\ Owes(m)' = Owes(m)
    BY <1>1 DEF Late, Owes
  <2> QED BY <1>1, <2>1, <2>2, <2>3 DEF Bounded
<1> QED BY <1>2, <1>3

\* A heartbeat that arrives makes its sender heard.  It was the oldest, so those behind
\* it are younger than the oldest there can be.
LEMMA DeliverKeeps ==
    ASSUME IInv, TypeOK', NEW p \in Node, NEW q \in Node, Deliver(p, q)
    PROVE  IInv'
<1> USE DEF IInv
<1>1. PICK g \in inflight :
          /\ g.from = p /\ g.to = q /\ IsOldest(g)
          /\ inflight' = inflight \ {g}
          /\ heartbeat_count' = [heartbeat_count EXCEPT ![q] = handle_heartbeat(@, p)]
          /\ fresh' = [fresh EXCEPT ![q] = IF stable THEN @ \cup {p} ELSE @]
          /\ UNCHANGED <<state, connections, ticked, stable>>
  BY DEF Deliver, netVars
<1>2. InFlightConnected'
  BY <1>1 DEF InFlightConnected
<1>3. \A n \in Node : \A m \in fresh'[n] : m \in fresh[n] \/ (m = p /\ n = q /\ stable)
  BY <1>1 DEF TypeOK
<1>4. FreshConnected'
  <2>1. state[q] = "up" /\ state[p] # "off" /\ q \in connections[p] /\ q \in Observer
    BY <1>1 DEF InFlightConnected, TypeOK
  <2> QED BY <1>1, <1>3, <2>1 DEF FreshConnected
<1>5. FreshInTime'
  <2> SUFFICES ASSUME NEW h \in inflight', h.from \in fresh'[h.to]
               PROVE  h.age <= MaxDelay
    BY DEF FreshInTime
  <2>1. h \in inflight /\ h # g /\ h.to \in Node
    BY <1>1 DEF TypeOK
  <2>2. CASE h.from \in fresh[h.to]
    BY <2>1, <2>2 DEF FreshInTime
  <2>3. CASE h.from = p /\ h.to = q
    <3>1. h.age <= g.age
      BY <1>1, <2>1, <2>3 DEF IsOldest
    <3>2. h = [from |-> h.from, to |-> h.to, age |-> h.age] /\ h.age \in Nat
      BY <2>1 DEF TypeOK
    <3>3. g = [from |-> g.from, to |-> g.to, age |-> g.age] /\ g.age \in 0..(MaxDelay + 1)
      BY DEF TypeOK
    <3>4. h.age # g.age
      BY <1>1, <2>1, <2>3, <3>2, <3>3
    <3> QED BY <3>1, <3>2, <3>3, <3>4
  <2> QED BY <1>3, <2>1, <2>2, <2>3
<1>6. CountsBounded'
  <2> SUFFICES ASSUME NEW n \in Node, NEW m \in Node, m \in fresh'[n],
                      state'[n] = "up", state'[m] = "up"
               PROVE  Bounded(n, m)'
    BY DEF CountsBounded
  <2>1. Late(n)' = Late(n) /\ Owes(m)' = Owes(m) /\ Late(n) \in Nat /\ Owes(m) \in Nat
    BY <1>1 DEF Late, Owes
  <2>2. CASE n = q /\ m = p
    <3>1. m \in DOMAIN heartbeat_count'[n] /\ heartbeat_count'[n][m] = 0
      BY <1>1, <2>2 DEF TypeOK, handle_heartbeat
    <3>2. \A h \in inflight' : h.age \in Nat
      BY DEF TypeOK
    <3>3. CASE \A h \in inflight' : h.from = m => h.to # n
      BY <2>1, <3>1, <3>3 DEF Bounded
    <3>4. CASE \E h \in inflight' : h.from = m /\ h.to = n
      <4>1. PICK h \in inflight' : h.from = m /\ h.to = n
        BY <3>4
      <4>2. heartbeat_count'[n][m] <= h.age + 1 + Late(n)'
        BY <2>1, <3>1, <3>2
      <4> QED BY <3>1, <4>1, <4>2 DEF Bounded
    <3> QED BY <3>3, <3>4
  <2>3. CASE ~(n = q /\ m = p)
    <3>1. Bounded(n, m)
      BY <1>1, <1>3, <2>3 DEF CountsBounded
    <3>2. \A h : h.from = m /\ h.to = n => (h \in inflight' <=> h \in inflight)
      BY <1>1, <2>3
    <3>3. m \in DOMAIN heartbeat_count'[n] /\ heartbeat_count'[n][m] = heartbeat_count[n][m]
      BY <1>1, <2>3, <3>1 DEF TypeOK, handle_heartbeat, Bounded
    <3> QED BY <2>1, <3>1, <3>2, <3>3 DEF Bounded
  <2> QED BY <2>2, <2>3
<1> QED BY <1>2, <1>4, <1>5, <1>6

LEMMA LoseKeeps ==
    ASSUME IInv, TypeOK', NEW g \in inflight, Lose(g)
    PROVE  IInv'
<1>1. InFlightConnected'
  BY DEF IInv, Lose, netVars, InFlightConnected
<1>2. FreshConnected' /\ FreshInTime' /\ CountsBounded'
  BY NobodyHeard DEF Lose
<1> QED BY <1>1, <1>2 DEF IInv

LEMMA StabilizeKeeps ==
    ASSUME IInv, TypeOK', Stabilize
    PROVE  IInv'
<1>1. InFlightConnected'
  BY DEF IInv, Stabilize, netVars, InFlightConnected
<1>2. FreshConnected' /\ FreshInTime' /\ CountsBounded'
  BY NobodyHeard DEF Stabilize
<1> QED BY <1>1, <1>2 DEF IInv

\* At the end of a period every running slave has ticked: the receiver is not late any
\* more, the sender owes a heartbeat, and those in flight are a period older.
LEMMA EndPeriodKeeps ==
    ASSUME IInv, TypeOK', EndPeriod
    PROVE  IInv'
<1> USE DEF IInv
<1> DEFINE Older(h) == [h EXCEPT !.age = IF @ > MaxDelay THEN @ ELSE @ + 1]
<1>1. UNCHANGED <<state, connections, heartbeat_count, stable, fresh>>
  BY DEF EndPeriod, netVars
<1>2. \A h \in inflight :
          /\ Older(h) \in inflight'
          /\ Older(h).from = h.from /\ Older(h).to = h.to
          /\ h.age \in Nat /\ h.age <= Older(h).age
          /\ stable => Older(h).age = h.age + 1 /\ h.age + 1 <= MaxDelay
  <2> SUFFICES ASSUME NEW h \in inflight
               PROVE  /\ Older(h) \in inflight'
                      /\ Older(h).from = h.from /\ Older(h).to = h.to
                      /\ h.age \in Nat /\ h.age <= Older(h).age
                      /\ stable => Older(h).age = h.age + 1 /\ h.age + 1 <= MaxDelay
    OBVIOUS
  <2>1. h \in [from : Node, to : Observer, age : 0..(MaxDelay + 1)]
    BY DEF TypeOK
  <2>2. /\ Older(h).from = h.from /\ Older(h).to = h.to
        /\ Older(h).age = IF h.age > MaxDelay THEN h.age ELSE h.age + 1
    BY <2>1
  <2>3. Older(h) \in inflight'
    BY DEF EndPeriod
  <2>4. stable => h.age < MaxDelay
    BY DEF EndPeriod
  <2> QED BY <2>1, <2>2, <2>3, <2>4
<1>3. \A g \in inflight' : \E h \in inflight : g = Older(h)
  BY DEF EndPeriod
<1> HIDE DEF Older
<1>4. InFlightConnected'
  BY <1>1, <1>2, <1>3 DEF InFlightConnected
<1>5. FreshConnected'
  BY <1>1 DEF FreshConnected
<1>6. FreshInTime'
  <2> SUFFICES ASSUME NEW g \in inflight', g.from \in fresh'[g.to]
               PROVE  g.age <= MaxDelay
    BY DEF FreshInTime
  <2>1. PICK h \in inflight : g = Older(h)
    BY <1>3
  <2>2. stable
    BY <1>1 DEF FreshConnected, TypeOK
  <2> QED BY <1>2, <2>1, <2>2
<1>7. CountsBounded'
  <2> SUFFICES ASSUME NEW n \in Node, NEW m \in Node, m \in fresh'[n],
                      state'[n] = "up", state'[m] = "up"
               PROVE  Bounded(n, m)'
    BY DEF CountsBounded
  <2>1. Bounded(n, m) /\ stable
    BY <1>1 DEF CountsBounded, FreshConnected
  <2>2. heartbeat_count[n][m] \in Nat
    BY <2>1, CountIsFunction DEF TypeOK, Bounded
  <2>3. Late(n) = 1 /\ Late(n)' = 0 /\ Owes(m) = 0 /\ Owes(m)' = 1
    BY <1>1 DEF EndPeriod, Up, Late, Owes
  <2>4. CASE /\ \A h \in inflight : h.from = m => h.to # n
             /\ heartbeat_count[n][m] <= Owes(m) + Late(n)
    <3>1. \A g \in inflight' : g.from = m => g.to # n
      BY <1>2, <1>3, <2>4
    <3> QED BY <1>1, <2>1, <2>2, <2>3, <2>4, <3>1 DEF Bounded
  <2>5. CASE \E h \in inflight : /\ h.from = m /\ h.to = n
                                 /\ heartbeat_count[n][m] <= h.age + 1 + Late(n)
    <3>1. PICK h \in inflight : /\ h.from = m /\ h.to = n
                                /\ heartbeat_count[n][m] <= h.age + 1 + Late(n)
      BY <2>5
    <3>2. Older(h) \in inflight' /\ Older(h).from = m /\ Older(h).to = n
          /\ heartbeat_count[n][m] <= Older(h).age + 1 + Late(n)'
      BY <1>2, <2>1, <2>2, <2>3, <3>1
    <3> QED BY <1>1, <2>1, <3>2 DEF Bounded
  <2> QED BY <2>1, <2>4, <2>5 DEF Bounded
<1> QED BY <1>4, <1>5, <1>6, <1>7

LEMMA NextIInv == IInv /\ [Next]_vars => IInv'
<1> SUFFICES ASSUME IInv, [Next]_vars PROVE IInv'
  OBVIOUS
<1>1. TypeOK'
  BY NextTypeOK DEF IInv
<1>2. ASSUME UNCHANGED vars PROVE IInv'
  BY <1>2 DEF vars, netVars, IInv, TypeOK, InFlightConnected, FreshConnected, FreshInTime,
              CountsBounded, Bounded, Late, Owes
<1>3. ASSUME NEW n \in Node, Start(n) \/ Crash(n) \/ Tick(n) PROVE IInv'
  BY <1>1, <1>3, StartKeeps, CrashKeeps, TickKeeps
<1>4. ASSUME NEW n \in Observer, Query(n) PROVE IInv'
  BY <1>1, <1>4, QueryKeeps
<1>5. ASSUME NEW m \in Node, NEW n \in Node, Accept(m, n) \/ Close(m, n) \/ Deliver(m, n)
      PROVE  IInv'
  BY <1>1, <1>5, ConnectionKeeps, DeliverKeeps
<1>6. ASSUME NEW h \in inflight, Lose(h) PROVE IInv'
  BY <1>1, <1>6, LoseKeeps
<1>7. ASSUME EndPeriod \/ Stabilize PROVE IInv'
  BY <1>1, <1>7, EndPeriodKeeps, StabilizeKeeps
<1> QED BY <1>2, <1>3, <1>4, <1>5, <1>6, <1>7 DEF Next

\* HeartbeatTracker never takes a running slave for failed that it has heard from since
\* the network is stable, for any number of slaves, any crashes, any failure count and
\* any delay that it exceeds by more than two periods: one for timers that are not in
\* step and one for the heartbeat that is about to be sent.
THEOREM RunningStayAlive == Spec => []NoFalseSuspicion
<1>1. IInv => NoFalseSuspicion
  BY BoundedIsAlive DEF NoFalseSuspicion, Up
<1> QED BY <1>1, InitIInv, NextIInv, PTL DEF Spec
===============================================================================
