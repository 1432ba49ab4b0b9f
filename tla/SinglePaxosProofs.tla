-------------------------- MODULE SinglePaxosProofs --------------------------
(***************************************************************************)
(* Proofs about SinglePaxos for every group, every set of values and every *)
(* bound on the proposal numbers.                                          *)
(***************************************************************************)
EXTENDS SinglePaxos, TLAPS, FiniteSetTheorems, WellFoundedInduction

-----------------------------------------------------------------------------
(* The majority threshold.                                                 *)

\* floor(N / 2) + 1 members are more than half of the group.
LEMMA Threshold ==
    /\ majority_threshold \in Nat
    /\ majority_threshold > 0
    /\ 2 * majority_threshold > Cardinality(Node)
    /\ Cardinality(Node) \in Nat
<1>1. Cardinality(Node) \in Nat
  BY NodeAssumption, FS_CardinalityType
<1>2. QED
  BY <1>1 DEF majority_threshold

\* Two sets of majority_threshold members have a member in common.
LEMMA MajoritiesIntersect ==
    ASSUME NEW S \in SUBSET Node, NEW T \in SUBSET Node,
           Cardinality(S) = majority_threshold,
           Cardinality(T) = majority_threshold
    PROVE  S \cap T # {}
<1>1. IsFiniteSet(S) /\ IsFiniteSet(T) /\ IsFiniteSet(S \cup T)
  BY NodeAssumption, FS_Subset, FS_Union
<1>2. Cardinality(S \cup T) <= Cardinality(Node)
  BY NodeAssumption, FS_Subset, S \cup T \subseteq Node
<1>3. Cardinality(S \cup T) = Cardinality(S) + Cardinality(T) - Cardinality(S \cap T)
  BY <1>1, FS_Union
<1>4. Cardinality({}) = 0
  BY FS_EmptySet
<1>5. Cardinality(Node) \in Nat /\ 2 * majority_threshold > Cardinality(Node)
      /\ majority_threshold \in Nat
  BY Threshold
<1>6. ASSUME S \cap T = {} PROVE FALSE
  <2>1. Cardinality(S \cap T) = 0
    BY <1>4, <1>6
  <2>2. Cardinality(S \cup T) = 2 * majority_threshold
    BY <2>1, <1>3, <1>5
  <2>3. QED
    BY <2>2, <1>2, <1>5
<1>7. QED
  BY <1>6

-----------------------------------------------------------------------------
(* Types.                                                                  *)

\* A round number above 0 marks a value: a promise, on its way or stored, and an
\* acceptor that name a round above 0 name a value of Value with it.
MarkedValues ==
    /\ \A a \in Node : vrnd[a] > 0 => vval[a] \in Value
    /\ \A m \in msgs : m.type = "promise" /\ m.vrnd > 0 => m.vval \in Value
    /\ \A p \in Node, r \in Rnd : \A i \in DOMAIN prepare_state[p][r] :
           prepare_state[p][r][i].vrnd > 0 => prepare_state[p][r][i].vval \in Value

TypeInv == TypeOK /\ MarkedValues

\* What a proposer asks the group to accept is a value: its own, or the one of a
\* promise that carries a value.
LEMMA ProposalValueType ==
    ASSUME NEW own \in Value, NEW promises \in Seq(Promised),
           \A i \in DOMAIN promises : promises[i].vrnd > 0 => promises[i].vval \in Value
    PROVE  proposal_value(own, promises) \in Value
BY DEF proposal_value, IsLastAccepted

\* A stored list of promises stays well formed when one more promise arrives.
LEMMA AppendMarked ==
    ASSUME NEW s \in Seq(Promised), NEW k, NEW u,
           \A i \in DOMAIN s : s[i].vrnd > 0 => s[i].vval \in Value,
           k > 0 => u \in Value
    PROVE  LET t == Append(s, [vrnd |-> k, vval |-> u])
           IN  \A i \in DOMAIN t : t[i].vrnd > 0 => t[i].vval \in Value
<1> DEFINE e == [vrnd |-> k, vval |-> u]
           t == Append(s, e)
<1>1. SUFFICES ASSUME NEW i \in DOMAIN t, t[i].vrnd > 0 PROVE t[i].vval \in Value
  OBVIOUS
<1>2. CASE i = Len(s) + 1
  BY <1>1, <1>2
<1>3. CASE i # Len(s) + 1
  <2>1. i \in DOMAIN s /\ t[i] = s[i]
    BY <1>1, <1>3
  <2>2. QED
    BY <1>1, <2>1
<1>4. QED
  BY <1>2, <1>3

\* A history table of nodes stays one when a node is added to one of its sets.
LEMMA AddToTable ==
    ASSUME NEW f \in [Node -> [Rnd -> SUBSET Node]],
           NEW n \in Node, NEW r \in Rnd, NEW a \in Node
    PROVE  /\ [f EXCEPT ![n][r] = @ \cup {a}] \in [Node -> [Rnd -> SUBSET Node]]
           /\ \A p \in Node, q \in Rnd : [f EXCEPT ![n][r] = @ \cup {a}][p][q] =
                  IF p = n /\ q = r THEN f[n][r] \cup {a} ELSE f[p][q]
<1> DEFINE S == f[n][r] \cup {a}
<1>1. S \in SUBSET Node
  OBVIOUS
<1>2. [f EXCEPT ![n][r] = @ \cup {a}] = [f EXCEPT ![n][r] = S]
  BY Zenon
<1> HIDE DEF S
<1>3. [f EXCEPT ![n][r] = S] \in [Node -> [Rnd -> SUBSET Node]]
  BY <1>1
<1>4. \A p \in Node, q \in Rnd :
          [f EXCEPT ![n][r] = S][p][q] = IF p = n /\ q = r THEN S ELSE f[p][q]
  OBVIOUS
<1>5. QED
  BY <1>2, <1>3, <1>4 DEF S

\* The messages of a broadcast are messages of the protocol.
LEMMA BroadcastTypes ==
    ASSUME NEW n \in Node, NEW r \in Rnd, NEW v \in Value
    PROVE  /\ Prepares(n, r) \subseteq Message
           /\ Accepts(n, r, v) \subseteq Message
           /\ Learns(n, r, v) \subseteq Message
BY DEF Prepares, Accepts, Learns, Message

\* The handlers start with fields of the right types.
LEMMA TypeInit == Init => TypeInv
BY BoundAssumption DEF Init, TypeInv, TypeOK, MarkedValues, Rnd, Entry, Promised

\* Fields of a message of each type.
LEMMA MessageFields ==
    ASSUME NEW m \in Message
    PROVE  /\ m.type \in {"prepare", "promise", "accept", "learn"}
           /\ m.src \in Node /\ m.dst \in Node /\ m.rnd \in Rnd
           /\ m.type = "promise" => m.vrnd \in Rnd /\ m.vval \in Entry
           /\ m.type \in {"accept", "learn"} => m.val \in Value
BY DEF Message

\* Every handler keeps the types of the fields and of the messages it sends.
LEMMA TypeStep == TypeInv /\ [Next]_vars => TypeInv'
<1> SUFFICES ASSUME TypeInv, [Next]_vars PROVE TypeInv'
  OBVIOUS
<1> USE DEF TypeInv, TypeOK
<1>1. ASSUME NEW n \in Proposer, NEW v \in Value, Propose(n, v) PROVE TypeInv'
  <2>1. n \in Node
    BY NodeAssumption
  <2>2. PICK r \in next_proposal_number(n) :
            /\ latest' = [latest EXCEPT ![n] = r]
            /\ proposal' = [proposal EXCEPT ![n][r] = IF @ = None THEN v ELSE @]
            /\ msgs' = msgs \cup Prepares(n, r)
            /\ UNCHANGED <<prepare_state, promisers, acceptorVars, learnerVars>>
    BY <1>1 DEF Propose
  <2>3. r \in Rnd
    BY DEF next_proposal_number
  <2>4. TypeOK'
    BY <2>1, <2>2, <2>3, BroadcastTypes DEF acceptorVars, learnerVars, Entry
  <2>5. MarkedValues'
    BY <2>2 DEF MarkedValues, acceptorVars, Prepares
  <2>6. QED
    BY <2>4, <2>5
<1>2. ASSUME NEW m \in msgs, Prepare(m.dst, m) PROVE TypeInv'
  <2>1. m \in Message /\ m.dst \in Node /\ m.src \in Node /\ m.rnd \in Rnd
    BY MessageFields
  <2>2. UNCHANGED <<vrnd, vval, votes, latest, proposal, prepare_state, promisers,
                    learned, learned_value, log, heardFrom>>
    BY <1>2 DEF Prepare, proposerVars, learnerVars
  <2>3. CASE m.rnd > rnd[m.dst]
    <3> DEFINE k == [type |-> "promise", src |-> m.dst, dst |-> m.src, rnd |-> m.rnd,
                     vrnd |-> vrnd[m.dst], vval |-> vval[m.dst]]
    <3>1. /\ rnd' = [rnd EXCEPT ![m.dst] = m.rnd]
          /\ msgs' = (msgs \ {m}) \cup {k}
          /\ promisedTo' = [promisedTo EXCEPT ![m.dst][m.rnd] = m.src]
      BY <1>2, <2>3 DEF Prepare
    <3>2. k \in Message
      BY <2>1 DEF Message
    <3>3. k.vrnd > 0 => k.vval \in Value
      BY <2>1 DEF MarkedValues
    <3> HIDE DEF k
    <3>4. TypeOK'
      BY <3>1, <3>2, <2>1, <2>2
    <3>5. MarkedValues'
      BY <3>1, <3>3, <2>2 DEF MarkedValues
    <3>6. QED
      BY <3>4, <3>5
  <2>4. CASE ~(m.rnd > rnd[m.dst])
    BY <1>2, <2>2, <2>4 DEF Prepare, MarkedValues
  <2>5. QED
    BY <2>3, <2>4
<1>3. ASSUME NEW m \in msgs, Promise(m.dst, m) PROVE TypeInv'
  <2> DEFINE n == m.dst
             promises == Append(prepare_state[n][m.rnd],
                                [vrnd |-> m.vrnd, vval |-> m.vval])
             value == proposal_value(proposal[n][m.rnd], promises)
  <2>1. m \in Message /\ n \in Node /\ m.rnd \in Rnd /\ m.type = "promise"
        /\ m.vrnd \in Rnd /\ m.vval \in Entry
    BY <1>3, MessageFields DEF Promise
  <2>2. proposal[n][m.rnd] \in Value
    <3>1. proposal[n][m.rnd] # None
      BY <1>3 DEF Promise
    <3>2. proposal[n][m.rnd] \in Entry
      BY <2>1
    <3>3. QED
      BY <3>1, <3>2 DEF Entry
  <2>3. promises \in Seq(Promised)
    <3>1. prepare_state[n][m.rnd] \in Seq(Promised)
      BY <2>1
    <3>2. [vrnd |-> m.vrnd, vval |-> m.vval] \in Promised
      BY <2>1 DEF Promised
    <3>3. QED
      BY <3>1, <3>2
  <2>4. \A i \in DOMAIN promises : promises[i].vrnd > 0 => promises[i].vval \in Value
    <3>1. prepare_state[n][m.rnd] \in Seq(Promised)
      BY <2>1
    <3>2. \A i \in DOMAIN prepare_state[n][m.rnd] :
              prepare_state[n][m.rnd][i].vrnd > 0 => prepare_state[n][m.rnd][i].vval \in Value
      BY <2>1 DEF MarkedValues
    <3>3. m.vrnd > 0 => m.vval \in Value
      BY <2>1 DEF MarkedValues
    <3>4. QED
      BY <3>1, <3>2, <3>3, AppendMarked
  <2>5. value \in Value
    <3> HIDE DEF promises
    <3> QED BY <2>2, <2>3, <2>4, ProposalValueType
  <2> HIDE DEF promises, value
  <2>6. CASE Len(prepare_state[n][m.rnd]) < majority_threshold
    <3>1. /\ prepare_state' = [prepare_state EXCEPT ![n][m.rnd] = promises]
          /\ promisers' = [promisers EXCEPT ![n][m.rnd] = @ \cup {m.src}]
          /\ msgs' \subseteq msgs \cup Accepts(n, m.rnd, value)
          /\ UNCHANGED <<latest, proposal, acceptorVars, learnerVars>>
      BY <1>3, <2>6 DEF Promise, promises, value
    <3>2. TypeOK'
      <4>1. msgs' \subseteq Message
        BY <3>1, <2>1, <2>5, BroadcastTypes
      <4>2. prepare_state' \in [Node -> [Rnd -> Seq(Promised)]]
        BY <3>1, <2>1, <2>3
      <4>3. promisers' \in [Node -> [Rnd -> SUBSET Node]]
        BY <3>1, <2>1, MessageFields, AddToTable
      <4>4. QED
        BY <3>1, <4>1, <4>2, <4>3 DEF acceptorVars, learnerVars
    <3>3. MarkedValues'
      BY <3>1, <2>1, <2>3, <2>4 DEF MarkedValues, acceptorVars, Accepts
    <3>4. QED
      BY <3>2, <3>3
  <2>7. CASE ~(Len(prepare_state[n][m.rnd]) < majority_threshold)
    BY <1>3, <2>7 DEF Promise, MarkedValues, acceptorVars, learnerVars
  <2>8. QED
    BY <2>6, <2>7
<1>4. ASSUME NEW m \in msgs, Accept(m.dst, m) PROVE TypeInv'
  <2>1. m \in Message /\ m.dst \in Node /\ m.rnd \in Rnd /\ m.val \in Value
    BY <1>4, MessageFields DEF Accept
  <2>2. UNCHANGED <<promisedTo, latest, proposal, prepare_state, promisers,
                    learned, learned_value, log, heardFrom>>
    BY <1>4 DEF Accept, proposerVars, learnerVars
  <2>3. CASE m.rnd >= rnd[m.dst]
    <3>1. /\ rnd' = [rnd EXCEPT ![m.dst] = m.rnd]
          /\ vrnd' = [vrnd EXCEPT ![m.dst] = m.rnd]
          /\ vval' = [vval EXCEPT ![m.dst] = m.val]
          /\ votes' = votes \cup {[acc |-> m.dst, rnd |-> m.rnd, val |-> m.val]}
          /\ msgs' = (msgs \ {m}) \cup Learns(m.dst, m.rnd, m.val)
      BY <1>4, <2>3 DEF Accept
    <3>2. msgs' \subseteq Message
      BY <3>1, <2>1, BroadcastTypes
    <3>3. votes' \subseteq Vote
      BY <3>1, <2>1 DEF Vote
    <3>4. TypeOK'
      BY <3>1, <3>2, <3>3, <2>1, <2>2 DEF Entry
    <3>5. \A k \in msgs' : k.type = "promise" => k \in msgs
      BY <3>1 DEF Learns
    <3>6. MarkedValues'
      BY <3>1, <3>5, <2>1, <2>2 DEF MarkedValues
    <3>7. QED
      BY <3>4, <3>6
  <2>4. CASE ~(m.rnd >= rnd[m.dst])
    BY <1>4, <2>2, <2>4 DEF Accept, MarkedValues
  <2>5. QED
    BY <2>3, <2>4
<1>5. ASSUME NEW m \in msgs, Learn(m.dst, m) PROVE TypeInv'
  <2>1. m \in Message /\ m.dst \in Node /\ m.src \in Node /\ m.rnd \in Rnd /\ m.val \in Value
    BY <1>5, MessageFields DEF Learn
  <2>2. learned_value[m.dst][m.rnd] \in [val : Entry, count : Nat]
    BY <2>1
  <2>3. TypeOK'
    <3> DEFINE old == learned_value[m.dst][m.rnd]
               val == IF old.count = 0 THEN m.val ELSE old.val
    <3>1. msgs' = msgs \ {m} /\ UNCHANGED <<proposerVars, acceptorVars>>
      BY <1>5 DEF Learn
    <3>2. CASE learned[m.dst] \/ old.count >= majority_threshold
      BY <1>5, <3>1, <3>2 DEF Learn, proposerVars, acceptorVars, learnerVars
    <3>3. CASE ~(learned[m.dst] \/ old.count >= majority_threshold)
      <4>1. /\ learned_value' = [learned_value EXCEPT
                       ![m.dst][m.rnd] = [val |-> val, count |-> old.count + 1]]
            /\ heardFrom' = [heardFrom EXCEPT ![m.dst][m.rnd] = @ \cup {m.src}]
            /\ \/ /\ learned' = [learned EXCEPT ![m.dst] = TRUE]
                  /\ log' = [log EXCEPT ![m.dst] = val]
               \/ UNCHANGED <<learned, log>>
        BY <1>5, <3>3 DEF Learn
      <4>2. val \in Entry /\ [val |-> val, count |-> old.count + 1] \in [val : Entry, count : Nat]
        <5>1. old.val \in Entry /\ old.count \in Nat
          BY <2>2
        <5>2. val \in Entry
          BY <5>1, <2>1 DEF Entry
        <5> HIDE DEF val, old
        <5>3. QED
          BY <5>1, <5>2
      <4> HIDE DEF val, old
      <4>3. learned_value' \in [Node -> [Rnd -> [val : Entry, count : Nat]]]
        BY <4>1, <4>2, <2>1
      <4>4. heardFrom' \in [Node -> [Rnd -> SUBSET Node]]
        BY <4>1, <2>1, AddToTable
      <4>5. learned' \in [Node -> BOOLEAN] /\ log' \in [Node -> Entry]
        BY <4>1, <4>2, <2>1
      <4>6. QED
        BY <3>1, <4>3, <4>4, <4>5 DEF proposerVars, acceptorVars
    <3>4. QED
      BY <3>2, <3>3
  <2>4. MarkedValues'
    BY <1>5 DEF Learn, MarkedValues, proposerVars, acceptorVars
  <2>5. QED
    BY <2>3, <2>4
<1>6. CASE UNCHANGED vars
  BY <1>6 DEF vars, proposerVars, acceptorVars, learnerVars, MarkedValues
<1>7. QED
  BY <1>1, <1>2, <1>3, <1>4, <1>5, <1>6 DEF Next

\* Every state of every behaviour is well typed; in particular an Accept message
\* never carries the default entry of an acceptor that accepted nothing.
THEOREM TypeCorrect == Spec => []TypeOK
<1>1. TypeInv => TypeOK
  BY DEF TypeInv
<1>2. QED
  BY <1>1, TypeInit, TypeStep, PTL DEF Spec

-----------------------------------------------------------------------------
(* One value per round.                                                    *)

\* Promises.  An acceptor gives the promise of a round once, to one proposer, and
\* that promise is on its way or stored, never both.
PromiseInv ==
    /\ \A m \in msgs : m.type = "prepare" => proposal[m.src][m.rnd] # None
    /\ \A m \in msgs : m.type = "promise" =>
           /\ proposal[m.dst][m.rnd] # None
           /\ promisedTo[m.src][m.rnd] = m.dst
           /\ m.rnd <= rnd[m.src]
           /\ m.src \notin promisers[m.dst][m.rnd]
    /\ \A m, k \in msgs :
           m.type = "promise" /\ k.type = "promise" /\ m.src = k.src /\ m.rnd = k.rnd
           => m = k
    /\ \A p \in Node, r \in Rnd : \A a \in promisers[p][r] :
           /\ promisedTo[a][r] = p
           /\ r <= rnd[a]
           /\ proposal[p][r] # None

\* The stored promises of a proposal come from as many different acceptors.
CountInv ==
    \A p \in Node, r \in Rnd :
        /\ Len(prepare_state[p][r]) = Cardinality(promisers[p][r])
        /\ Len(prepare_state[p][r]) <= majority_threshold

\* Proposer p has completed a majority in round r ...
Won(p, r) == Len(prepare_state[p][r]) = majority_threshold

\* ... and this is the value it sent to the acceptors.
WonValue(p, r) == proposal_value(proposal[p][r], prepare_state[p][r])

\* Accept messages and acceptances come from a proposer that completed a majority,
\* and an acceptor accepts a round once.
AcceptInv ==
    /\ \A m \in msgs : m.type = "accept" =>
           /\ Won(m.src, m.rnd)
           /\ m.val = WonValue(m.src, m.rnd)
           /\ \A x \in votes : x.acc = m.dst => x.rnd # m.rnd
    /\ \A x \in votes : \E p \in Node : Won(p, x.rnd) /\ x.val = WonValue(p, x.rnd)

\* Learn messages and the counts of the learners come from acceptances, each of
\* them counted once.
LearnInv ==
    /\ \A m \in msgs : m.type = "learn" =>
           /\ [acc |-> m.src, rnd |-> m.rnd, val |-> m.val] \in votes
           /\ m.src \notin heardFrom[m.dst][m.rnd]
    /\ \A n \in Node, r \in Rnd :
           /\ learned_value[n][r].count = Cardinality(heardFrom[n][r])
           /\ \A a \in heardFrom[n][r] :
                  [acc |-> a, rnd |-> r, val |-> learned_value[n][r].val] \in votes

IInv == TypeInv /\ PromiseInv /\ CountInv /\ AcceptInv /\ LearnInv /\ LearnedIsChosen

\* Types of the tables and of what they hold.
LEMMA Tables ==
    ASSUME TypeInv
    PROVE  /\ promisers \in [Node -> [Rnd -> SUBSET Node]]
           /\ heardFrom \in [Node -> [Rnd -> SUBSET Node]]
           /\ prepare_state \in [Node -> [Rnd -> Seq(Promised)]]
           /\ \A p \in Node, r \in Rnd : promisers[p][r] \in SUBSET Node
           /\ \A p \in Node, r \in Rnd : heardFrom[p][r] \in SUBSET Node
           /\ \A p \in Node, r \in Rnd : prepare_state[p][r] \in Seq(Promised)
<1>1. /\ promisers \in [Node -> [Rnd -> SUBSET Node]]
      /\ heardFrom \in [Node -> [Rnd -> SUBSET Node]]
      /\ prepare_state \in [Node -> [Rnd -> Seq(Promised)]]
  BY DEF TypeInv, TypeOK
<1>2. \A p \in Node, r \in Rnd : promisers[p][r] \in SUBSET Node
  BY <1>1
<1>3. \A p \in Node, r \in Rnd : heardFrom[p][r] \in SUBSET Node
  BY <1>1
<1>4. \A p \in Node, r \in Rnd : prepare_state[p][r] \in Seq(Promised)
  BY <1>1
<1>5. QED
  BY <1>1, <1>2, <1>3, <1>4

\* A proposal, once made, keeps its entry; the new one has an entry.
LEMMA ProposeFacts ==
    ASSUME TypeInv, NEW n \in Proposer, NEW v \in Value, Propose(n, v)
    PROVE  /\ n \in Node
           /\ \E r \in Rnd : msgs' = msgs \cup Prepares(n, r) /\ proposal'[n][r] # None
           /\ \A p \in Node, r \in Rnd :
                  proposal[p][r] # None => proposal'[p][r] = proposal[p][r]
           /\ UNCHANGED <<prepare_state, promisers, rnd, vrnd, vval, promisedTo, votes,
                          learned, learned_value, log, heardFrom>>
<1>1. n \in Node
  BY NodeAssumption
<1>2. PICK r \in next_proposal_number(n) :
          /\ proposal' = [proposal EXCEPT ![n][r] = IF @ = None THEN v ELSE @]
          /\ msgs' = msgs \cup Prepares(n, r)
          /\ UNCHANGED <<prepare_state, promisers, acceptorVars, learnerVars>>
  BY DEF Propose
<1>3. r \in Rnd
  BY DEF next_proposal_number
<1>4. proposal \in [Node -> [Rnd -> Entry]]
  BY DEF TypeInv, TypeOK
<1>5. proposal'[n][r] # None
  BY <1>1, <1>2, <1>3, <1>4, ValueAssumption
<1>6. \A p \in Node, q \in Rnd : proposal[p][q] # None => proposal'[p][q] = proposal[p][q]
  BY <1>1, <1>2, <1>3, <1>4
<1>7. QED
  BY <1>1, <1>2, <1>3, <1>5, <1>6 DEF acceptorVars, learnerVars

\* What handling a Prepare message does to the promises.
LEMMA PrepareFacts ==
    ASSUME TypeInv, NEW m \in msgs, Prepare(m.dst, m)
    PROVE  /\ m.type = "prepare"
           /\ UNCHANGED <<vrnd, vval, votes, latest, proposal, prepare_state, promisers,
                          learned, learned_value, log, heardFrom>>
           /\ \/ /\ m.rnd > rnd[m.dst]
                 /\ rnd' = [rnd EXCEPT ![m.dst] = m.rnd]
                 /\ msgs' = (msgs \ {m}) \cup
                        {[type |-> "promise", src |-> m.dst, dst |-> m.src, rnd |-> m.rnd,
                          vrnd |-> vrnd[m.dst], vval |-> vval[m.dst]]}
                 /\ promisedTo' = [promisedTo EXCEPT ![m.dst][m.rnd] = m.src]
              \/ msgs' = msgs \ {m} /\ UNCHANGED <<rnd, promisedTo>>
BY DEF Prepare, proposerVars, learnerVars

\* Handling a Prepare message sends at most a Promise message.
LEMMA Promising ==
    ASSUME TypeInv, NEW m \in msgs, Prepare(m.dst, m)
    PROVE  \E k : k.type = "promise" /\ msgs' \subseteq msgs \cup {k}
<1> DEFINE k == [type |-> "promise", src |-> m.dst, dst |-> m.src, rnd |-> m.rnd,
                 vrnd |-> vrnd[m.dst], vval |-> vval[m.dst]]
<1>1. k.type = "promise"
  OBVIOUS
<1>2. msgs' \subseteq msgs \cup {k}
  BY PrepareFacts
<1> HIDE DEF k
<1>3. QED
  BY <1>1, <1>2

\* What handling a Promise message does.
LEMMA PromiseFacts ==
    ASSUME TypeInv, NEW m \in msgs, Promise(m.dst, m)
    PROVE  LET old == prepare_state[m.dst][m.rnd]
               new == Append(old, [vrnd |-> m.vrnd, vval |-> m.vval])
           IN /\ m.type = "promise"
              /\ UNCHANGED <<latest, proposal, rnd, vrnd, vval, promisedTo, votes,
                             learned, learned_value, log, heardFrom>>
              /\ \/ /\ Len(old) < majority_threshold
                    /\ prepare_state' = [prepare_state EXCEPT ![m.dst][m.rnd] = new]
                    /\ promisers' = [promisers EXCEPT ![m.dst][m.rnd] = @ \cup {m.src}]
                    /\ \/ Len(new) # majority_threshold /\ msgs' = msgs \ {m}
                       \/ /\ Len(new) = majority_threshold
                          /\ msgs' = (msgs \ {m}) \cup
                                 Accepts(m.dst, m.rnd, proposal_value(proposal[m.dst][m.rnd], new))
                 \/ msgs' = msgs \ {m} /\ UNCHANGED <<prepare_state, promisers>>
BY DEF Promise, acceptorVars, learnerVars

\* What handling an Accept message does.
LEMMA AcceptFacts ==
    ASSUME TypeInv, NEW m \in msgs, Accept(m.dst, m)
    PROVE  /\ m.type = "accept"
           /\ UNCHANGED <<promisedTo, latest, proposal, prepare_state, promisers,
                          learned, learned_value, log, heardFrom>>
           /\ \/ /\ m.rnd >= rnd[m.dst]
                 /\ rnd' = [rnd EXCEPT ![m.dst] = m.rnd]
                 /\ votes' = votes \cup {[acc |-> m.dst, rnd |-> m.rnd, val |-> m.val]}
                 /\ msgs' = (msgs \ {m}) \cup Learns(m.dst, m.rnd, m.val)
              \/ msgs' = msgs \ {m} /\ UNCHANGED <<rnd, votes>>
BY DEF Accept, proposerVars, learnerVars

\* Nothing has been promised when the instance starts.
LEMMA PromiseInit == Init => PromiseInv /\ CountInv
<1>1. Cardinality({}) = 0
  BY FS_EmptySet
<1>2. QED
  BY <1>1, Threshold DEF Init, PromiseInv, CountInv

\* Promises stay consistent: each round of an acceptor is promised to one proposer,
\* which proposed it and counts every promise once.
LEMMA PromiseStep == TypeInv /\ PromiseInv /\ [Next]_vars => PromiseInv'
<1> SUFFICES ASSUME TypeInv, PromiseInv, [Next]_vars PROVE PromiseInv'
  OBVIOUS
<1>0. /\ rnd \in [Node -> Rnd]
      /\ promisedTo \in [Node -> [Rnd -> Node \cup {None}]]
      /\ promisers \in [Node -> [Rnd -> SUBSET Node]]
  BY DEF TypeInv, TypeOK
<1>n. /\ \A r \in Rnd : r \in Int
      /\ \A a \in Node : rnd[a] \in Int
  BY <1>0 DEF Rnd
<1>f. \A m \in msgs : m.src \in Node /\ m.dst \in Node /\ m.rnd \in Rnd /\ m.rnd \in Int
  BY <1>n, MessageFields DEF TypeInv, TypeOK
<1>1. ASSUME NEW n \in Proposer, NEW v \in Value, Propose(n, v) PROVE PromiseInv'
  <2>1. PICK r \in Rnd : msgs' = msgs \cup Prepares(n, r) /\ proposal'[n][r] # None
    BY <1>1, ProposeFacts
  <2>2. /\ \A p \in Node, q \in Rnd : proposal[p][q] # None => proposal'[p][q] # None
        /\ UNCHANGED <<promisers, rnd, promisedTo>>
    BY <1>1, ProposeFacts
  <2>3. \A k \in msgs' : k \in msgs \/ (k.type = "prepare" /\ k.src = n /\ k.rnd = r)
    BY <2>1 DEF Prepares
  <2>4. \A k \in msgs' : k.type = "prepare" => proposal'[k.src][k.rnd] # None
    BY <2>1, <2>2, <2>3, <1>f DEF PromiseInv
  <2>5. \A k \in msgs' : k.type = "promise" => k \in msgs /\ proposal'[k.dst][k.rnd] # None
    BY <2>2, <2>3, <1>f DEF PromiseInv
  <2>6. \A p \in Node, q \in Rnd : promisers[p][q] # {} => proposal'[p][q] # None
    BY <2>2 DEF PromiseInv
  <2>7. QED
    BY <2>2, <2>4, <2>5, <2>6 DEF PromiseInv
<1>2. ASSUME NEW m \in msgs, Prepare(m.dst, m) PROVE PromiseInv'
  <2> DEFINE k == [type |-> "promise", src |-> m.dst, dst |-> m.src, rnd |-> m.rnd,
                   vrnd |-> vrnd[m.dst], vval |-> vval[m.dst]]
  <2>1. m.type = "prepare" /\ UNCHANGED <<proposal, promisers>>
    BY <1>2, PrepareFacts
  <2>2. CASE /\ m.rnd > rnd[m.dst]
             /\ rnd' = [rnd EXCEPT ![m.dst] = m.rnd]
             /\ msgs' = (msgs \ {m}) \cup {k}
             /\ promisedTo' = [promisedTo EXCEPT ![m.dst][m.rnd] = m.src]
    <3>1. /\ k.type = "promise" /\ k.src = m.dst /\ k.dst = m.src /\ k.rnd = m.rnd
      OBVIOUS
    <3> HIDE DEF k
    <3>a. m.dst \in Node /\ m.src \in Node /\ m.rnd \in Rnd
      BY <1>f
    <3>2. \A a \in Node, q \in Rnd : q <= rnd[a] =>
              q <= rnd'[a] /\ promisedTo'[a][q] = promisedTo[a][q]
      <4> SUFFICES ASSUME NEW a \in Node, NEW q \in Rnd, q <= rnd[a]
                   PROVE  q <= rnd'[a] /\ promisedTo'[a][q] = promisedTo[a][q]
        OBVIOUS
      <4>1. CASE a = m.dst
        <5>1. q # m.rnd /\ q <= m.rnd
          BY <2>2, <3>a, <4>1, <1>n
        <5>2. QED
          BY <2>2, <3>a, <4>1, <5>1, <1>0
      <4>2. CASE a # m.dst
        BY <2>2, <3>a, <4>2, <1>0
      <4>3. QED
        BY <4>1, <4>2
    <3>3. \A j \in msgs : j.type = "promise" /\ j.rnd = m.rnd => j.src # m.dst
      <4>1. \A j \in msgs : j.type = "promise" => j.rnd <= rnd[j.src]
        BY DEF PromiseInv
      <4>2. ~(m.rnd <= rnd[m.dst])
        BY <2>2, <3>a, <1>n
      <4>3. QED
        BY <4>1, <4>2
    <3>4. promisedTo'[m.dst][m.rnd] = m.src /\ m.rnd <= rnd'[m.dst]
      BY <2>2, <3>a, <1>0, <1>n
    <3>5. m.dst \notin promisers[m.src][m.rnd]
      <4>1. ~(m.rnd <= rnd[m.dst])
        BY <2>2, <3>a, <1>n
      <4>2. QED
        BY <4>1, <3>a DEF PromiseInv
    <3>6. proposal[m.src][m.rnd] # None
      BY <2>1 DEF PromiseInv
    <3>7. \A j \in msgs' : j.type = "prepare" => proposal'[j.src][j.rnd] # None
      BY <2>1, <2>2, <3>1 DEF PromiseInv
    <3>8. \A j \in msgs' : j.type = "promise" =>
           /\ proposal'[j.dst][j.rnd] # None
           /\ promisedTo'[j.src][j.rnd] = j.dst
           /\ j.rnd <= rnd'[j.src]
           /\ j.src \notin promisers'[j.dst][j.rnd]
      BY <2>1, <2>2, <3>1, <3>2, <3>4, <3>5, <3>6, <1>f DEF PromiseInv
    <3>9. \A j, l \in msgs' :
           j.type = "promise" /\ l.type = "promise" /\ j.src = l.src /\ j.rnd = l.rnd
           => j = l
      BY <2>2, <3>1, <3>3 DEF PromiseInv
    <3>10. \A p \in Node, r \in Rnd : \A a \in promisers'[p][r] :
           /\ promisedTo'[a][r] = p
           /\ r <= rnd'[a]
           /\ proposal'[p][r] # None
      BY <2>1, <3>2, <1>0, <1>n DEF PromiseInv
    <3>11. QED
      BY <3>7, <3>8, <3>9, <3>10 DEF PromiseInv
  <2>3. CASE msgs' = msgs \ {m} /\ UNCHANGED <<rnd, promisedTo>>
    BY <2>1, <2>3 DEF PromiseInv
  <2>4. QED
    BY <1>2, <2>2, <2>3, PrepareFacts
<1>3. ASSUME NEW m \in msgs, Promise(m.dst, m) PROVE PromiseInv'
  <2>1. m.type = "promise" /\ UNCHANGED <<proposal, rnd, promisedTo>>
    BY <1>3, PromiseFacts
  <2>2. \A j \in msgs' : j.type \in {"prepare", "promise"} => j \in msgs /\ j # m
    <3>1. \E u : msgs' = msgs \ {m} \/ msgs' = (msgs \ {m}) \cup Accepts(m.dst, m.rnd, u)
      BY <1>3, PromiseFacts
    <3>2. \A u : \A j \in Accepts(m.dst, m.rnd, u) : j.type = "accept"
      BY DEF Accepts
    <3>3. QED
      BY <3>1, <3>2
  <2>3. \/ promisers' = [promisers EXCEPT ![m.dst][m.rnd] = @ \cup {m.src}]
        \/ promisers' = promisers
    BY <1>3, PromiseFacts
  <2>4. \A p \in Node, r \in Rnd :
            \/ promisers'[p][r] = promisers[p][r]
            \/ p = m.dst /\ r = m.rnd /\ promisers'[p][r] = promisers[p][r] \cup {m.src}
    <3>1. m.dst \in Node /\ m.rnd \in Rnd /\ m.src \in Node
      BY <1>f
    <3>2. QED
      BY <2>3, <3>1, <1>0, AddToTable
  <2>5. \A j \in msgs' : j.type = "promise" => j.src \notin promisers'[j.dst][j.rnd]
    BY <2>1, <2>2, <2>4, <1>f DEF PromiseInv
  <2>6. \A p \in Node, r \in Rnd : \A a \in promisers'[p][r] :
           promisedTo[a][r] = p /\ r <= rnd[a] /\ proposal[p][r] # None
    BY <2>1, <2>4 DEF PromiseInv
  <2>7. QED
    BY <2>1, <2>2, <2>5, <2>6 DEF PromiseInv
<1>4. ASSUME NEW m \in msgs, Accept(m.dst, m) PROVE PromiseInv'
  <2>1. UNCHANGED <<proposal, promisers, promisedTo>>
    BY <1>4, AcceptFacts
  <2>2. \A j \in msgs' : j.type \in {"prepare", "promise"} => j \in msgs
    BY <1>4, AcceptFacts DEF Learns
  <2>3. \A a \in Node, r \in Rnd : r <= rnd[a] => r <= rnd'[a]
    <3>1. m.dst \in Node /\ m.rnd \in Int
      BY <1>f
    <3>2. rnd' = rnd \/ (m.rnd >= rnd[m.dst] /\ rnd' = [rnd EXCEPT ![m.dst] = m.rnd])
      BY <1>4, AcceptFacts
    <3>3. QED
      <4>1. \A a \in Node : a # m.dst => rnd'[a] = rnd[a]
        BY <3>1, <3>2, <1>0
      <4>2. rnd'[m.dst] = rnd[m.dst] \/ (m.rnd >= rnd[m.dst] /\ rnd'[m.dst] = m.rnd)
        BY <3>1, <3>2, <1>0
      <4>3. \A r \in Rnd : r <= rnd[m.dst] => r <= rnd'[m.dst]
        BY <3>1, <4>2, <1>n
      <4>4. QED
        BY <4>1, <4>3
  <2>4. QED
    BY <2>1, <2>2, <2>3, <1>0, <1>n, <1>f DEF PromiseInv
<1>5. ASSUME NEW m \in msgs, Learn(m.dst, m) PROVE PromiseInv'
  BY <1>5 DEF Learn, PromiseInv, proposerVars, acceptorVars
<1>6. CASE UNCHANGED vars
  BY <1>6 DEF vars, proposerVars, acceptorVars, PromiseInv
<1>7. QED
  BY <1>1, <1>2, <1>3, <1>4, <1>5, <1>6 DEF Next

\* The stored promises and the table of their senders grow together: a promise
\* that arrives comes from an acceptor that is not in the table yet.
LEMMA CountStep == TypeInv /\ PromiseInv /\ CountInv /\ [Next]_vars => CountInv'
<1> SUFFICES ASSUME TypeInv, PromiseInv, CountInv, [Next]_vars PROVE CountInv'
  OBVIOUS
<1>1. CASE UNCHANGED <<prepare_state, promisers>>
  BY <1>1 DEF CountInv
<1>2. ASSUME NEW m \in msgs, Promise(m.dst, m) PROVE CountInv'
  <2> DEFINE old == prepare_state[m.dst][m.rnd]
             new == Append(old, [vrnd |-> m.vrnd, vval |-> m.vval])
             S == promisers[m.dst][m.rnd]
  <2>1. m.src \in Node /\ m.dst \in Node /\ m.rnd \in Rnd /\ m.type = "promise"
    BY <1>2, PromiseFacts, MessageFields DEF TypeInv, TypeOK
  <2>2. CASE UNCHANGED <<prepare_state, promisers>>
    BY <2>2 DEF CountInv
  <2>3. CASE /\ Len(old) < majority_threshold
             /\ prepare_state' = [prepare_state EXCEPT ![m.dst][m.rnd] = new]
             /\ promisers' = [promisers EXCEPT ![m.dst][m.rnd] = @ \cup {m.src}]
    <3>1. old \in Seq(Promised) /\ S \in SUBSET Node
      BY <2>1, Tables
    <3>2. IsFiniteSet(S) /\ m.src \notin S
      BY <2>1, <3>1, NodeAssumption, FS_Subset DEF PromiseInv
    <3>3. Cardinality(S \cup {m.src}) = Cardinality(S) + 1
      BY <3>2, FS_AddElement
    <3>4. Len(new) = Len(old) + 1 /\ Len(old) \in Nat
      BY <3>1
    <3>5. Len(old) = Cardinality(S)
      BY <2>1 DEF CountInv
    <3>6. /\ Len(new) = Cardinality(S \cup {m.src})
          /\ Len(new) <= majority_threshold
      BY <2>3, <3>3, <3>4, <3>5, Threshold
    <3> HIDE DEF new, old
    <3>7. \A p \in Node, r \in Rnd : prepare_state'[p][r] =
              IF p = m.dst /\ r = m.rnd THEN new ELSE prepare_state[p][r]
      BY <2>3, <2>1 DEF TypeInv, TypeOK
    <3>8. \A p \in Node, r \in Rnd : promisers'[p][r] =
              IF p = m.dst /\ r = m.rnd THEN S \cup {m.src} ELSE promisers[p][r]
      BY <2>3, <2>1, Tables, AddToTable
    <3> HIDE DEF S
    <3>9. SUFFICES ASSUME NEW p \in Node, NEW r \in Rnd
                   PROVE  /\ Len(prepare_state'[p][r]) = Cardinality(promisers'[p][r])
                          /\ Len(prepare_state'[p][r]) <= majority_threshold
      BY DEF CountInv, majority_threshold
    <3>10. CASE p = m.dst /\ r = m.rnd
      BY <3>6, <3>7, <3>8, <3>10
    <3>11. CASE ~(p = m.dst /\ r = m.rnd)
      <4>1. prepare_state'[p][r] = prepare_state[p][r] /\ promisers'[p][r] = promisers[p][r]
        BY <3>7, <3>8, <3>11
      <4>2. QED
        BY <4>1 DEF CountInv
    <3>12. QED
      BY <3>10, <3>11
  <2>4. QED
    BY <1>2, <2>2, <2>3, PromiseFacts
<1>3. ASSUME NEW n \in Proposer, NEW v \in Value, Propose(n, v) PROVE CountInv'
  BY <1>1, <1>3 DEF Propose
<1>4. ASSUME NEW m \in msgs, Prepare(m.dst, m) PROVE CountInv'
  BY <1>1, <1>4 DEF Prepare, proposerVars
<1>5. ASSUME NEW m \in msgs, Accept(m.dst, m) PROVE CountInv'
  BY <1>1, <1>5 DEF Accept, proposerVars
<1>6. ASSUME NEW m \in msgs, Learn(m.dst, m) PROVE CountInv'
  BY <1>1, <1>6 DEF Learn, proposerVars
<1>7. CASE UNCHANGED vars
  BY <1>1, <1>7 DEF vars, proposerVars
<1>8. QED
  BY <1>2, <1>3, <1>4, <1>5, <1>6, <1>7 DEF Next

\* At most one proposer completes a majority in a round, although two of them may
\* use the same proposal number.
UniqueWinner == \A p, q \in Node, r \in Rnd : Won(p, r) /\ Won(q, r) => p = q

\* Two proposers that use the same number cannot both gather a majority: the two
\* majorities would share an acceptor, and it promised the number once.
LEMMA OneWinner == TypeInv /\ PromiseInv /\ CountInv => UniqueWinner
<1> SUFFICES ASSUME TypeInv, PromiseInv, CountInv,
                    NEW p \in Node, NEW q \in Node, NEW r \in Rnd, Won(p, r), Won(q, r)
             PROVE  p = q
  BY DEF UniqueWinner
<1>1. promisers[p][r] \in SUBSET Node /\ promisers[q][r] \in SUBSET Node
  BY Tables
<1>2. /\ Cardinality(promisers[p][r]) = majority_threshold
      /\ Cardinality(promisers[q][r]) = majority_threshold
  BY DEF CountInv, Won
<1>3. PICK a \in promisers[p][r] : a \in promisers[q][r]
  BY <1>1, <1>2, MajoritiesIntersect
<1>4. promisedTo[a][r] = p /\ promisedTo[a][r] = q
  BY <1>3 DEF PromiseInv
<1>5. QED
  BY <1>4

\* Acceptances of one round have one value because one proposer sent it.
LEMMA VotesAgree ==
    TypeInv /\ PromiseInv /\ CountInv /\ AcceptInv => OneValuePerRound
<1> SUFFICES ASSUME TypeInv, UniqueWinner, AcceptInv,
                    NEW x \in votes, NEW y \in votes, x.rnd = y.rnd
             PROVE  x.val = y.val
  BY OneWinner DEF OneValuePerRound
<1>1. x.rnd \in Rnd
  BY DEF TypeInv, TypeOK, Vote
<1>2. PICK p \in Node : Won(p, x.rnd) /\ x.val = WonValue(p, x.rnd)
  BY DEF AcceptInv
<1>3. PICK q \in Node : Won(q, y.rnd) /\ y.val = WonValue(q, y.rnd)
  BY DEF AcceptInv
<1>4. p = q
  BY <1>1, <1>2, <1>3 DEF UniqueWinner
<1>5. QED
  BY <1>2, <1>3, <1>4

\* A completed majority stays completed and its value stays what it was.
LEMMA WonStable ==
    ASSUME TypeInv, PromiseInv, CountInv, [Next]_vars,
           NEW p \in Node, NEW r \in Rnd, Won(p, r)
    PROVE  Won(p, r)' /\ WonValue(p, r)' = WonValue(p, r)
<1>1. prepare_state'[p][r] = prepare_state[p][r]
  <2>1. CASE UNCHANGED prepare_state
    BY <2>1
  <2>2. ASSUME NEW m \in msgs, Promise(m.dst, m)
        PROVE  prepare_state'[p][r] = prepare_state[p][r]
    <3>1. m.dst \in Node /\ m.rnd \in Rnd
      BY MessageFields DEF TypeInv, TypeOK
    <3>2. CASE m.dst = p /\ m.rnd = r
      <4>1. ~(Len(prepare_state[p][r]) < majority_threshold)
        BY Threshold DEF Won
      <4>2. QED
        BY <2>1, <2>2, <3>2, <4>1, PromiseFacts
    <3>3. CASE ~(m.dst = p /\ m.rnd = r)
      <4>1. \/ prepare_state' = prepare_state
            \/ \E t : prepare_state' = [prepare_state EXCEPT ![m.dst][m.rnd] = t]
        BY <2>2, PromiseFacts
      <4>2. ASSUME NEW t, prepare_state' = [prepare_state EXCEPT ![m.dst][m.rnd] = t]
            PROVE  prepare_state'[p][r] = prepare_state[p][r]
        <5>1. CASE m.dst = p
          BY <3>1, <3>3, <4>2, <5>1, Tables
        <5>2. CASE m.dst # p
          BY <3>1, <4>2, <5>2, Tables
        <5>3. QED
          BY <5>1, <5>2
      <4>3. QED
        BY <4>1, <4>2
    <3>4. QED
      BY <3>2, <3>3
  <2>3. QED
    BY <2>1, <2>2 DEF Next, Propose, Prepare, Accept, Learn, vars, proposerVars
<1>2. proposal'[p][r] = proposal[p][r]
  <2>1. promisers[p][r] # {}
    <3>1. Cardinality(promisers[p][r]) > 0
      BY Threshold DEF CountInv, Won
    <3>2. QED
      BY <3>1, FS_EmptySet
  <2>2. proposal[p][r] # None
    BY <2>1 DEF PromiseInv
  <2>3. CASE UNCHANGED proposal
    BY <2>3
  <2>4. ASSUME NEW n \in Proposer, NEW v \in Value, Propose(n, v)
        PROVE  proposal'[p][r] = proposal[p][r]
    BY <2>2, <2>4, ProposeFacts
  <2>5. QED
    BY <2>3, <2>4 DEF Next, Prepare, Promise, Accept, Learn, vars, proposerVars
<1>3. QED
  BY <1>1, <1>2 DEF Won, WonValue

\* Two Accept messages to one acceptor in one round are the same message.
LEMMA SameAccept ==
    ASSUME TypeInv, PromiseInv, CountInv, AcceptInv,
           NEW m \in msgs, NEW k \in msgs, m.type = "accept", k.type = "accept",
           m.dst = k.dst, m.rnd = k.rnd
    PROVE  m = k
<1>1. m \in Message /\ k \in Message
  BY DEF TypeInv, TypeOK
<1>2. m.src \in Node /\ k.src \in Node /\ m.rnd \in Rnd
  BY <1>1, MessageFields
<1>3. m.src = k.src
  BY <1>2, OneWinner DEF AcceptInv, UniqueWinner
<1>4. m.val = k.val
  BY <1>3 DEF AcceptInv
<1>5. QED
  BY <1>1, <1>3, <1>4 DEF Message

\* No Accept message is sent and no value accepted when the instance starts.
LEMMA AcceptInit == Init => AcceptInv
BY DEF Init, AcceptInv

\* Accept messages and acceptances of a round come from its one winner and carry
\* its one value.
LEMMA AcceptStep ==
    TypeInv /\ PromiseInv /\ CountInv /\ AcceptInv /\ [Next]_vars => AcceptInv'
<1> SUFFICES ASSUME TypeInv, PromiseInv, CountInv, AcceptInv, [Next]_vars
             PROVE  AcceptInv'
  OBVIOUS
<1>u. UniqueWinner'
  <2>1. TypeInv' /\ PromiseInv' /\ CountInv'
    BY TypeStep, PromiseStep, CountStep
  <2>2. QED
    BY <2>1, OneWinner, PTL
<1>f. \A m \in msgs : m.src \in Node /\ m.dst \in Node /\ m.rnd \in Rnd
  BY MessageFields DEF TypeInv, TypeOK
<1>v. \A x \in votes : x.rnd \in Rnd
  BY DEF TypeInv, TypeOK, Vote
<1>w. \A p \in Node, r \in Rnd :
          Won(p, r) => Won(p, r)' /\ WonValue(p, r)' = WonValue(p, r)
  BY WonStable
<1>x. \A x \in votes : \E p \in Node : Won(p, x.rnd)' /\ x.val = WonValue(p, x.rnd)'
  BY <1>v, <1>w DEF AcceptInv
<1>m. \A k \in msgs : k.type = "accept" =>
          Won(k.src, k.rnd)' /\ k.val = WonValue(k.src, k.rnd)'
  BY <1>f, <1>w DEF AcceptInv
<1>s. ASSUME UNCHANGED votes, \A k \in msgs' : k.type = "accept" => k \in msgs
      PROVE  AcceptInv'
  BY <1>s, <1>x, <1>m DEF AcceptInv
<1>1. ASSUME NEW n \in Proposer, NEW v \in Value, Propose(n, v) PROVE AcceptInv'
  <2>1. UNCHANGED votes /\ \E r \in Rnd : msgs' = msgs \cup Prepares(n, r)
    BY <1>1, ProposeFacts
  <2>2. \A k \in msgs' : k.type = "accept" => k \in msgs
    BY <2>1 DEF Prepares
  <2>3. QED
    BY <2>1, <2>2, <1>s
<1>2. ASSUME NEW m \in msgs, Prepare(m.dst, m) PROVE AcceptInv'
  <2>1. UNCHANGED votes /\ \A k \in msgs' : k.type = "accept" => k \in msgs
    <3>1. UNCHANGED votes /\ \E k : k.type = "promise" /\ msgs' \subseteq msgs \cup {k}
      BY <1>2, PrepareFacts, Promising
    <3>2. QED
      BY <3>1
  <2>2. QED
    BY <2>1, <1>s
<1>3. ASSUME NEW m \in msgs, Promise(m.dst, m) PROVE AcceptInv'
  <2> DEFINE old == prepare_state[m.dst][m.rnd]
             new == Append(old, [vrnd |-> m.vrnd, vval |-> m.vval])
             value == proposal_value(proposal[m.dst][m.rnd], new)
  <2>1. m.dst \in Node /\ m.rnd \in Rnd
    BY <1>f
  <2>2. UNCHANGED <<votes, proposal>>
    BY <1>3, PromiseFacts
  <2>3. CASE msgs' = msgs \ {m}
    BY <2>2, <2>3, <1>s
  <2>4. CASE /\ Len(old) < majority_threshold
             /\ prepare_state' = [prepare_state EXCEPT ![m.dst][m.rnd] = new]
             /\ Len(new) = majority_threshold
             /\ msgs' = (msgs \ {m}) \cup Accepts(m.dst, m.rnd, value)
    <3>1. ~Won(m.dst, m.rnd)
      BY <2>4, Threshold, Tables, <2>1 DEF Won
    <3> HIDE DEF new
    <3>2. prepare_state'[m.dst][m.rnd] = new
      BY <2>1, <2>4, Tables
    <3>3. Won(m.dst, m.rnd)' /\ WonValue(m.dst, m.rnd)' = value
      BY <2>2, <2>4, <3>2 DEF Won, WonValue, majority_threshold
    <3>4. \A x \in votes : x.rnd # m.rnd
      <4> SUFFICES ASSUME NEW x \in votes, x.rnd = m.rnd PROVE FALSE
        OBVIOUS
      <4>1. PICK q \in Node : Won(q, x.rnd)
        BY DEF AcceptInv
      <4>2. Won(q, m.rnd) /\ Won(q, m.rnd)'
        BY <4>1, <2>1, <1>w
      <4>3. q = m.dst
        BY <2>1, <3>3, <4>2, <1>u DEF UniqueWinner
      <4>4. QED
        BY <3>1, <4>2, <4>3
    <3>5. \A k \in msgs' : k.type = "accept" =>
              k \in msgs \/ (k.src = m.dst /\ k.rnd = m.rnd /\ k.val = value)
      BY <2>4 DEF Accepts
    <3> HIDE DEF value, old
    <3>6. \A k \in msgs' : k.type = "accept" =>
             /\ Won(k.src, k.rnd)'
             /\ k.val = WonValue(k.src, k.rnd)'
             /\ \A x \in votes : x.acc = k.dst => x.rnd # k.rnd
      <4> SUFFICES ASSUME NEW k \in msgs', k.type = "accept"
                   PROVE  /\ Won(k.src, k.rnd)'
                          /\ k.val = WonValue(k.src, k.rnd)'
                          /\ \A x \in votes : x.acc = k.dst => x.rnd # k.rnd
        OBVIOUS
      <4>1. CASE k \in msgs
        BY <4>1, <1>m DEF AcceptInv
      <4>2. CASE k.src = m.dst /\ k.rnd = m.rnd /\ k.val = value
        BY <4>2, <3>3, <3>4
      <4>3. QED
        BY <3>5, <4>1, <4>2
    <3>7. QED
      BY <2>2, <3>6, <1>x DEF AcceptInv
  <2>5. QED
    BY <1>3, <2>3, <2>4, PromiseFacts
<1>4. ASSUME NEW m \in msgs, Accept(m.dst, m) PROVE AcceptInv'
  <2>1. m.type = "accept"
    BY <1>4, AcceptFacts
  <2>2. CASE msgs' = msgs \ {m} /\ UNCHANGED votes
    BY <2>2, <1>s
  <2>3. CASE /\ votes' = votes \cup {[acc |-> m.dst, rnd |-> m.rnd, val |-> m.val]}
             /\ msgs' = (msgs \ {m}) \cup Learns(m.dst, m.rnd, m.val)
    <3>1. \A k \in msgs' : k.type = "accept" => k \in msgs /\ k # m
      BY <2>3 DEF Learns
    <3>2. \A k \in msgs' : k.type = "accept" => ~(k.dst = m.dst /\ k.rnd = m.rnd)
      BY <2>1, <3>1, SameAccept
    <3>3. \A k \in msgs' : k.type = "accept" =>
              \A x \in votes' : x.acc = k.dst => x.rnd # k.rnd
      BY <2>3, <3>1, <3>2 DEF AcceptInv
    <3>4. \A x \in votes' : \E p \in Node : Won(p, x.rnd)' /\ x.val = WonValue(p, x.rnd)'
      BY <2>1, <2>3, <1>x, <1>m, <1>f
    <3>5. QED
      BY <3>1, <3>3, <3>4, <1>m DEF AcceptInv
  <2>4. QED
    BY <1>4, <2>2, <2>3, AcceptFacts
<1>5. ASSUME NEW m \in msgs, Learn(m.dst, m) PROVE AcceptInv'
  <2>1. UNCHANGED votes /\ \A k \in msgs' : k.type = "accept" => k \in msgs
    BY <1>5 DEF Learn, acceptorVars
  <2>2. QED
    BY <2>1, <1>s
<1>6. CASE UNCHANGED vars
  BY <1>6, <1>s DEF vars, acceptorVars
<1>7. QED
  BY <1>1, <1>2, <1>3, <1>4, <1>5, <1>6 DEF Next

\* No two acceptances of one round differ, in groups of every size and although
\* proposal numbers are not unique.
THEOREM RoundsHaveOneValue == Spec => []OneValuePerRound
<1> DEFINE I == TypeInv /\ PromiseInv /\ CountInv /\ AcceptInv
<1>1. Init => I
  BY TypeInit, PromiseInit, AcceptInit
<1>2. I /\ [Next]_vars => I'
  BY TypeStep, PromiseStep, CountStep, AcceptStep
<1>3. I => OneValuePerRound
  BY VotesAgree
<1>4. QED
  BY <1>1, <1>2, <1>3, PTL DEF Spec

\* The assertion of SinglePaxosHandler::promise never fails.
THEOREM PromisesAreExpected == Spec => []PromiseExpected
<1> DEFINE I == TypeInv /\ PromiseInv
<1>1. Init => I
  BY TypeInit, PromiseInit
<1>2. I /\ [Next]_vars => I'
  BY TypeStep, PromiseStep
<1>3. I => PromiseExpected
  BY DEF PromiseInv, PromiseExpected
<1>4. QED
  BY <1>1, <1>2, <1>3, PTL DEF Spec

-----------------------------------------------------------------------------
(* What is learned was chosen.                                             *)

\* The acceptances of a value only grow, so a chosen value stays chosen.
LEMMA ChosenStable ==
    ASSUME NEW r, NEW v, votes \subseteq votes', IsMajority(Voters(r, v))
    PROVE  IsMajority(Voters(r, v)')
<1>1. Voters(r, v) \subseteq Voters(r, v)' /\ Voters(r, v)' \subseteq Node
  BY DEF Voters
<1>2. IsFiniteSet(Voters(r, v)')
  BY <1>1, NodeAssumption, FS_Subset
<1>3. Cardinality(Voters(r, v)) <= Cardinality(Voters(r, v)')
  BY <1>1, <1>2, FS_Subset
<1>4. Cardinality(Voters(r, v)) \in Nat /\ Cardinality(Voters(r, v)') \in Nat
  BY <1>1, <1>2, FS_Subset, FS_CardinalityType
<1>5. QED
  BY <1>3, <1>4, Threshold DEF IsMajority

\* Two Learn messages from one acceptor to one learner in one round are the same.
LEMMA SameLearn ==
    ASSUME TypeInv, OneValuePerRound, LearnInv,
           NEW m \in msgs, NEW k \in msgs, m.type = "learn", k.type = "learn",
           m.src = k.src, m.dst = k.dst, m.rnd = k.rnd
    PROVE  m = k
<1>1. m \in Message /\ k \in Message
  BY DEF TypeInv, TypeOK
<1>2. m.val = k.val
  <2> DEFINE x == [acc |-> m.src, rnd |-> m.rnd, val |-> m.val]
             y == [acc |-> k.src, rnd |-> k.rnd, val |-> k.val]
  <2>1. x \in votes /\ y \in votes
    BY DEF LearnInv
  <2>2. x.rnd = y.rnd
    OBVIOUS
  <2>3. x.val = y.val
    BY <2>1, <2>2 DEF OneValuePerRound
  <2>4. QED
    BY <2>3
<1>3. QED
  BY <1>1, <1>2 DEF Message

\* No Learn message is counted when the instance starts.
LEMMA LearnInit == Init => LearnInv /\ LearnedIsChosen
<1>1. Cardinality({}) = 0
  BY FS_EmptySet
<1>2. QED
  BY <1>1 DEF Init, LearnInv, LearnedIsChosen

\* A counted Learn message stands for an acceptance of its sender, so the count that
\* reaches the majority is a majority of acceptors.
LEMMA LearnStep ==
    /\ TypeInv /\ PromiseInv /\ CountInv /\ AcceptInv /\ LearnInv /\ LearnedIsChosen
    /\ [Next]_vars
    => LearnInv' /\ LearnedIsChosen'
<1> SUFFICES ASSUME TypeInv, PromiseInv, CountInv, AcceptInv, LearnInv, LearnedIsChosen,
                    [Next]_vars
             PROVE  LearnInv' /\ LearnedIsChosen'
  OBVIOUS
<1>o. OneValuePerRound
  BY VotesAgree
<1>f. \A m \in msgs : m.src \in Node /\ m.dst \in Node /\ m.rnd \in Rnd
  BY MessageFields DEF TypeInv, TypeOK
<1>g. votes \subseteq votes'
  BY AcceptFacts DEF Next, Propose, Prepare, Promise, Learn, vars, acceptorVars
<1>l. ASSUME UNCHANGED log PROVE LearnedIsChosen'
  BY <1>g, <1>l, ChosenStable DEF LearnedIsChosen
<1>s. ASSUME UNCHANGED <<learned_value, heardFrom, log>>,
             \A k \in msgs' : k.type = "learn" => k \in msgs
      PROVE  LearnInv' /\ LearnedIsChosen'
  BY <1>s, <1>g, <1>l DEF LearnInv
<1>1. ASSUME NEW n \in Proposer, NEW v \in Value, Propose(n, v)
      PROVE  LearnInv' /\ LearnedIsChosen'
  <2>1. \E r \in Rnd : msgs' = msgs \cup Prepares(n, r)
    BY <1>1, ProposeFacts
  <2>2. \A k \in msgs' : k.type = "learn" => k \in msgs
    BY <2>1 DEF Prepares
  <2>3. QED
    BY <1>1, <2>2, <1>s, ProposeFacts
<1>2. ASSUME NEW m \in msgs, Prepare(m.dst, m) PROVE LearnInv' /\ LearnedIsChosen'
  <2>1. \A k \in msgs' : k.type = "learn" => k \in msgs
    BY <1>2, Promising
  <2>2. QED
    BY <1>2, <2>1, <1>s, PrepareFacts
<1>3. ASSUME NEW m \in msgs, Promise(m.dst, m) PROVE LearnInv' /\ LearnedIsChosen'
  <2>1. \E u : msgs' = msgs \ {m} \/ msgs' = (msgs \ {m}) \cup Accepts(m.dst, m.rnd, u)
    BY <1>3, PromiseFacts
  <2>2. \A u : \A k \in Accepts(m.dst, m.rnd, u) : k.type = "accept"
    BY DEF Accepts
  <2>3. \A k \in msgs' : k.type = "learn" => k \in msgs
    BY <2>1, <2>2
  <2>4. QED
    BY <1>3, <2>3, <1>s, PromiseFacts
<1>4. ASSUME NEW m \in msgs, Accept(m.dst, m) PROVE LearnInv' /\ LearnedIsChosen'
  <2>1. m.type = "accept" /\ UNCHANGED <<learned_value, log, heardFrom>>
    BY <1>4, AcceptFacts
  <2>2. CASE msgs' = msgs \ {m}
    BY <2>1, <2>2, <1>s
  <2>3. CASE /\ votes' = votes \cup {[acc |-> m.dst, rnd |-> m.rnd, val |-> m.val]}
             /\ msgs' = (msgs \ {m}) \cup Learns(m.dst, m.rnd, m.val)
    <3>1. \A n \in Node : m.dst \notin heardFrom[n][m.rnd]
      <4> SUFFICES ASSUME NEW n \in Node, m.dst \in heardFrom[n][m.rnd] PROVE FALSE
        OBVIOUS
      <4> DEFINE x == [acc |-> m.dst, rnd |-> m.rnd, val |-> learned_value[n][m.rnd].val]
      <4>1. x \in votes
        BY <1>f DEF LearnInv
      <4>2. x.acc = m.dst /\ x.rnd = m.rnd
        OBVIOUS
      <4> HIDE DEF x
      <4>3. QED
        BY <2>1, <4>1, <4>2 DEF AcceptInv
    <3>2. \A k \in msgs' : k.type = "learn" =>
              \/ k \in msgs
              \/ k.src = m.dst /\ k.dst \in Node /\ k.rnd = m.rnd /\ k.val = m.val
      BY <2>3 DEF Learns
    <3>3. \A k \in msgs' : k.type = "learn" =>
              /\ [acc |-> k.src, rnd |-> k.rnd, val |-> k.val] \in votes'
              /\ k.src \notin heardFrom'[k.dst][k.rnd]
      BY <2>1, <2>3, <3>1, <3>2 DEF LearnInv
    <3>4. LearnInv'
      BY <2>1, <3>3, <1>g DEF LearnInv
    <3>5. QED
      BY <3>4, <2>1, <1>l
  <2>4. QED
    BY <1>4, <2>2, <2>3, AcceptFacts
<1>5. ASSUME NEW m \in msgs, Learn(m.dst, m) PROVE LearnInv' /\ LearnedIsChosen'
  <2> DEFINE n == m.dst
             old == learned_value[n][m.rnd]
             H == heardFrom[n][m.rnd]
             v == IF old.count = 0 THEN m.val ELSE old.val
  <2>1. m.type = "learn" /\ msgs' = msgs \ {m} /\ UNCHANGED votes
    BY <1>5 DEF Learn, acceptorVars
  <2>2. n \in Node /\ m.src \in Node /\ m.rnd \in Rnd
    BY <1>f
  <2>3. CASE UNCHANGED learnerVars
    BY <2>1, <2>3, <1>s DEF learnerVars
  <2>4. CASE ~(learned[n] \/ old.count >= majority_threshold)
    <3>1. /\ learned_value' = [learned_value EXCEPT
                     ![n][m.rnd] = [val |-> v, count |-> old.count + 1]]
          /\ heardFrom' = [heardFrom EXCEPT ![n][m.rnd] = @ \cup {m.src}]
          /\ \/ /\ old.count + 1 = majority_threshold
                /\ log' = [log EXCEPT ![n] = v]
             \/ UNCHANGED log
      BY <1>5, <2>4 DEF Learn
    <3>2. H \in SUBSET Node /\ IsFiniteSet(H) /\ m.src \notin H
      BY <2>1, <2>2, Tables, NodeAssumption, FS_Subset DEF LearnInv
    <3>3. old.count = Cardinality(H) /\ Cardinality(H) \in Nat
      BY <2>2, <3>2, FS_CardinalityType DEF LearnInv
    <3>4. Cardinality(H \cup {m.src}) = old.count + 1
      BY <3>2, <3>3, FS_AddElement
    <3>5. \A a \in H : [acc |-> a, rnd |-> m.rnd, val |-> v] \in votes
      <4>1. CASE old.count = 0
        BY <4>1, <3>2, <3>3, FS_EmptySet
      <4>2. CASE old.count # 0
        BY <4>2, <2>2 DEF LearnInv
      <4>3. QED
        BY <4>1, <4>2
    <3>6. [acc |-> m.src, rnd |-> m.rnd, val |-> v] \in votes
      <4> DEFINE x == [acc |-> m.src, rnd |-> m.rnd, val |-> m.val]
      <4>1. x \in votes
        BY <2>1 DEF LearnInv
      <4>2. CASE old.count = 0
        BY <4>1, <4>2
      <4>3. CASE old.count # 0
        <5>1. PICK a : a \in H
          BY <4>3, <3>3, FS_EmptySet
        <5> DEFINE y == [acc |-> a, rnd |-> m.rnd, val |-> v]
        <5>2. y \in votes /\ y.rnd = x.rnd /\ y.val = v /\ x.val = m.val
          BY <5>1, <3>5
        <5> HIDE DEF x, y
        <5>3. m.val = v
          BY <5>2, <4>1, <1>o DEF OneValuePerRound
        <5>4. QED
          BY <5>3, <4>1 DEF x
      <4>4. QED
        BY <4>2, <4>3
    <3> HIDE DEF v, H, old
    <3>7. \A p \in Node, r \in Rnd : heardFrom'[p][r] =
              IF p = n /\ r = m.rnd THEN H \cup {m.src} ELSE heardFrom[p][r]
      BY <3>1, <2>2, Tables, AddToTable DEF H
    <3>8. \A p \in Node, r \in Rnd : learned_value'[p][r] =
              IF p = n /\ r = m.rnd THEN [val |-> v, count |-> old.count + 1]
                                    ELSE learned_value[p][r]
      BY <3>1, <2>2 DEF TypeInv, TypeOK
    <3>9. \A p \in Node, r \in Rnd :
              /\ learned_value'[p][r].count = Cardinality(heardFrom'[p][r])
              /\ \A a \in heardFrom'[p][r] :
                     [acc |-> a, rnd |-> r, val |-> learned_value'[p][r].val] \in votes
      <4> SUFFICES ASSUME NEW p \in Node, NEW r \in Rnd
                   PROVE  /\ learned_value'[p][r].count = Cardinality(heardFrom'[p][r])
                          /\ \A a \in heardFrom'[p][r] :
                                 [acc |-> a, rnd |-> r,
                                  val |-> learned_value'[p][r].val] \in votes
        OBVIOUS
      <4>1. CASE p = n /\ r = m.rnd
        <5>1. /\ heardFrom'[p][r] = H \cup {m.src}
              /\ learned_value'[p][r].count = old.count + 1
              /\ learned_value'[p][r].val = v
          BY <4>1, <3>7, <3>8
        <5>2. QED
          BY <4>1, <5>1, <3>4, <3>5, <3>6
      <4>2. CASE ~(p = n /\ r = m.rnd)
        <5>1. /\ heardFrom'[p][r] = heardFrom[p][r]
              /\ learned_value'[p][r] = learned_value[p][r]
          BY <4>2, <3>7, <3>8
        <5>2. QED
          BY <5>1 DEF LearnInv
      <4>3. QED
        BY <4>1, <4>2
    <3>10. \A k \in msgs' : k.type = "learn" =>
               /\ [acc |-> k.src, rnd |-> k.rnd, val |-> k.val] \in votes
               /\ k.src \notin heardFrom'[k.dst][k.rnd]
      <4> SUFFICES ASSUME NEW k \in msgs, k # m, k.type = "learn"
                   PROVE  /\ [acc |-> k.src, rnd |-> k.rnd, val |-> k.val] \in votes
                          /\ k.src \notin heardFrom'[k.dst][k.rnd]
        BY <2>1
      <4>1. /\ [acc |-> k.src, rnd |-> k.rnd, val |-> k.val] \in votes
            /\ k.src \notin heardFrom[k.dst][k.rnd]
        BY DEF LearnInv
      <4>2. ~(k.src = m.src /\ k.dst = n /\ k.rnd = m.rnd)
        BY <2>1, <1>o, SameLearn
      <4>3. k.dst \in Node /\ k.rnd \in Rnd
        BY <1>f
      <4>4. QED
        BY <4>1, <4>2, <4>3, <3>7 DEF H
    <3>11. LearnInv'
      BY <2>1, <3>9, <3>10 DEF LearnInv
    <3>12. LearnedIsChosen'
      <4>1. CASE UNCHANGED log
        BY <4>1, <1>l
      <4>2. CASE old.count + 1 = majority_threshold /\ log' = [log EXCEPT ![n] = v]
        <5>1. H \cup {m.src} \subseteq Voters(m.rnd, v)
          BY <2>2, <3>2, <3>5, <3>6 DEF Voters
        <5>2. Voters(m.rnd, v) \subseteq Node
          BY DEF Voters
        <5>3. /\ IsFiniteSet(Voters(m.rnd, v))
              /\ Cardinality(H \cup {m.src}) <= Cardinality(Voters(m.rnd, v))
          BY <5>1, <5>2, NodeAssumption, FS_Subset
        <5>4. Cardinality(Voters(m.rnd, v)) \in Nat
          BY <5>3, FS_CardinalityType
        <5>5. IsMajority(Voters(m.rnd, v))
          BY <4>2, <5>3, <5>4, <3>4, Threshold DEF IsMajority
        <5>7. \A p \in Node : p # n => log'[p] = log[p]
          BY <4>2, <2>2 DEF TypeInv, TypeOK
        <5>8. log'[n] = v
          BY <4>2, <2>2 DEF TypeInv, TypeOK
        <5> DEFINE W(r, u) == {a \in Node : [acc |-> a, rnd |-> r, val |-> u] \in votes}
        <5>10. SUFFICES ASSUME NEW p \in Node, log'[p] # None
                        PROVE  \E r \in Rnd : 2 * Cardinality(W(r, log'[p])) > Cardinality(Node)
          BY <2>1 DEF LearnedIsChosen, IsMajority, Voters
        <5>11. CASE p = n
          BY <5>11, <5>5, <5>8, <2>2 DEF IsMajority, Voters
        <5>12. CASE p # n
          BY <5>12, <5>7, <5>10 DEF LearnedIsChosen, IsMajority, Voters
        <5>13. QED
          BY <5>11, <5>12
      <4>3. QED
        BY <3>1, <4>1, <4>2
    <3>13. QED
      BY <3>11, <3>12
  <2>5. QED
    BY <1>5, <2>3, <2>4 DEF Learn
<1>6. CASE UNCHANGED vars
  BY <1>6, <1>s DEF vars, learnerVars
<1>7. QED
  BY <1>1, <1>2, <1>3, <1>4, <1>5, <1>6 DEF Next

\* The conjunction of the parts is inductive.
LEMMA IInvInductive == IInv /\ [Next]_vars => IInv'
BY TypeStep, PromiseStep, CountStep, AcceptStep, LearnStep DEF IInv

\* What a learner puts into its log was accepted by a majority in one round,
\* although it counts messages without looking at their senders or values.
THEOREM LearnedWasChosen == Spec => []LearnedIsChosen
<1>1. Init => IInv
  BY TypeInit, PromiseInit, AcceptInit, LearnInit DEF IInv
<1>2. IInv => LearnedIsChosen
  BY DEF IInv
<1>3. QED
  BY <1>1, <1>2, IInvInductive, PTL DEF Spec

-----------------------------------------------------------------------------
(* What promises report.                                                   *)

\* An acceptor's vrnd and vval are those of its last acceptance, and never above the
\* round it has promised.
VoteInv ==
    /\ \A a \in Node : /\ vrnd[a] <= rnd[a]
                       /\ vrnd[a] > 0 => [acc |-> a, rnd |-> vrnd[a], val |-> vval[a]] \in votes
    /\ \A x \in votes : x.rnd <= vrnd[x.acc]
    /\ PromiseReportsLastVote

LEMMA VoteInit == Init => VoteInv
BY BoundAssumption DEF Init, VoteInv, PromiseReportsLastVote, Rnd

\* A step that leaves the acceptors alone and sends no promise.
LEMMA VoteUndisturbed ==
    ASSUME VoteInv, UNCHANGED <<rnd, vrnd, vval, votes>>,
           \A k \in msgs' : k.type = "promise" => k \in msgs
    PROVE  VoteInv'
BY DEF VoteInv, PromiseReportsLastVote

LEMMA VoteStep == TypeInv /\ PromiseInv /\ VoteInv /\ [Next]_vars => VoteInv'
<1> SUFFICES ASSUME TypeInv, PromiseInv, VoteInv, [Next]_vars PROVE VoteInv'
  OBVIOUS
<1>0. rnd \in [Node -> Rnd] /\ vrnd \in [Node -> Rnd] /\ vval \in [Node -> Entry] /\ votes \subseteq Vote
  BY DEF TypeInv, TypeOK
<1>n. /\ \A r \in Rnd : r \in Int
      /\ \A a \in Node : rnd[a] \in Int /\ vrnd[a] \in Int
      /\ \A x \in votes : x.acc \in Node /\ x.rnd \in Int
  BY <1>0 DEF Rnd, Vote
<1>f. \A m \in msgs : m.src \in Node /\ m.dst \in Node /\ m.rnd \in Rnd /\ m.rnd \in Int
  BY <1>n, MessageFields DEF TypeInv, TypeOK
<1>1. ASSUME NEW n \in Proposer, NEW v \in Value, Propose(n, v) PROVE VoteInv'
  <2>1. \A k \in msgs' : k.type = "promise" => k \in msgs
    BY <1>1 DEF Propose, Prepares
  <2> QED BY <1>1, <2>1, VoteUndisturbed DEF Propose, acceptorVars
<1>2. ASSUME NEW m \in msgs, Prepare(m.dst, m) PROVE VoteInv'
  <2> DEFINE k == [type |-> "promise", src |-> m.dst, dst |-> m.src, rnd |-> m.rnd,
                   vrnd |-> vrnd[m.dst], vval |-> vval[m.dst]]
  <2>1. UNCHANGED <<vrnd, vval, votes>>
    BY <1>2, PrepareFacts
  <2>2. CASE msgs' = msgs \ {m} /\ UNCHANGED rnd
    BY <2>1, <2>2, VoteUndisturbed
  <2>3. CASE /\ m.rnd > rnd[m.dst] /\ rnd' = [rnd EXCEPT ![m.dst] = m.rnd]
             /\ msgs' = (msgs \ {m}) \cup {k}
    <3>1. \A a \in Node : vrnd[a] <= rnd'[a]
      <4>1. \A a \in Node : a # m.dst => rnd'[a] = rnd[a]
        BY <2>3, <1>0, <1>f
      <4>2. rnd'[m.dst] = m.rnd /\ rnd[m.dst] \in Int /\ m.rnd \in Int /\ vrnd[m.dst] \in Int
        BY <2>3, <1>0, <1>n, <1>f
      <4>3. vrnd[m.dst] <= rnd[m.dst]
        BY <1>f DEF VoteInv
      <4>4. vrnd[m.dst] <= rnd'[m.dst]
        BY <2>3, <4>2, <4>3
      <4> QED BY <4>1, <4>4 DEF VoteInv
    <3>2. /\ k.vrnd > 0 => [acc |-> k.src, rnd |-> k.vrnd, val |-> k.vval] \in votes
          /\ \A x \in votes : x.acc = k.src => x.rnd <= k.vrnd
      BY <1>f DEF VoteInv
    <3>3. \A j \in msgs' : j \in msgs \/ j = k
      BY <2>3
    <3> HIDE DEF k
    <3>4. PromiseReportsLastVote'
      BY <2>1, <3>2, <3>3 DEF VoteInv, PromiseReportsLastVote
    <3> QED BY <2>1, <3>1, <3>4 DEF VoteInv
  <2> QED BY <1>2, <2>2, <2>3, PrepareFacts
<1>3. ASSUME NEW m \in msgs, Promise(m.dst, m) PROVE VoteInv'
  <2>1. \E u : msgs' = msgs \ {m} \/ msgs' = (msgs \ {m}) \cup Accepts(m.dst, m.rnd, u)
    BY <1>3, PromiseFacts
  <2>2. \A k \in msgs' : k.type = "promise" => k \in msgs
    BY <2>1 DEF Accepts
  <2>3. UNCHANGED <<rnd, vrnd, vval, votes>>
    BY <1>3, PromiseFacts
  <2> QED BY <2>2, <2>3, VoteUndisturbed
<1>4. ASSUME NEW m \in msgs, Accept(m.dst, m) PROVE VoteInv'
  <2> DEFINE x == [acc |-> m.dst, rnd |-> m.rnd, val |-> m.val]
  <2>1. \A k \in msgs' : k.type = "promise" => k \in msgs
    BY <1>4, AcceptFacts DEF Learns
  <2>2. CASE m.rnd < rnd[m.dst]
    <3>1. UNCHANGED <<rnd, vrnd, vval, votes>>
      BY <1>4, <2>2, <1>f, <1>n DEF Accept
    <3> QED BY <2>1, <3>1, VoteUndisturbed
  <2>3. CASE m.rnd >= rnd[m.dst]
    <3>1. /\ rnd' = [rnd EXCEPT ![m.dst] = m.rnd]
          /\ vrnd' = [vrnd EXCEPT ![m.dst] = m.rnd]
          /\ vval' = [vval EXCEPT ![m.dst] = m.val]
          /\ votes' = votes \cup {x}
      BY <1>4, <2>3 DEF Accept
    <3>2. x.acc = m.dst /\ x.rnd = m.rnd
      OBVIOUS
    <3>3. \A a \in Node : vrnd'[a] <= rnd'[a]
      <4>1. \A a \in Node : a # m.dst => rnd'[a] = rnd[a] /\ vrnd'[a] = vrnd[a]
        BY <3>1, <1>0, <1>f
      <4>2. rnd'[m.dst] = m.rnd /\ vrnd'[m.dst] = m.rnd /\ m.rnd \in Int
        BY <3>1, <1>0, <1>f
      <4>3. vrnd'[m.dst] <= rnd'[m.dst]
        BY <4>2
      <4> QED BY <4>1, <4>3 DEF VoteInv
    <3>4. \A a \in Node : vrnd'[a] > 0 => [acc |-> a, rnd |-> vrnd'[a], val |-> vval'[a]] \in votes'
      <4> SUFFICES ASSUME NEW a \in Node, vrnd'[a] > 0
                   PROVE  [acc |-> a, rnd |-> vrnd'[a], val |-> vval'[a]] \in votes'
        OBVIOUS
      <4>1. CASE a = m.dst
        <5>1. vrnd'[a] = m.rnd /\ vval'[a] = m.val
          BY <3>1, <4>1, <1>0
        <5> QED BY <3>1, <4>1, <5>1
      <4>2. CASE a # m.dst
        <5>1. vrnd'[a] = vrnd[a] /\ vval'[a] = vval[a]
          BY <3>1, <4>2, <1>0
        <5> QED BY <3>1, <5>1 DEF VoteInv
      <4> QED BY <4>1, <4>2
    <3> HIDE DEF x
    <3>5. \A y \in votes' : y.rnd <= vrnd'[y.acc]
      <4>1. vrnd'[m.dst] = m.rnd /\ vrnd[m.dst] <= m.rnd /\ \A a \in Node : a # m.dst => vrnd'[a] = vrnd[a]
        <5>1. vrnd'[m.dst] = m.rnd /\ \A a \in Node : a # m.dst => vrnd'[a] = vrnd[a]
          BY <3>1, <1>0, <1>f
        <5>2. vrnd[m.dst] <= rnd[m.dst] /\ vrnd[m.dst] \in Int /\ rnd[m.dst] \in Int /\ m.rnd \in Int
          BY <1>n, <1>f DEF VoteInv
        <5>3. vrnd[m.dst] <= m.rnd
          BY <2>3, <5>2
        <5> QED BY <5>1, <5>3
      <4>2. \A y \in votes : y.rnd <= vrnd'[y.acc]
        <5> SUFFICES ASSUME NEW y \in votes PROVE y.rnd <= vrnd'[y.acc]
          OBVIOUS
        <5>1. y.rnd <= vrnd[y.acc] /\ y.acc \in Node /\ y.rnd \in Int
          BY <1>n DEF VoteInv
        <5> QED BY <4>1, <5>1, <1>n, <1>f
      <4>3. x.rnd <= vrnd'[x.acc]
        BY <3>2, <4>1, <1>f
      <4> QED BY <3>1, <4>2, <4>3
    <3>6. PromiseReportsLastVote'
      <4> SUFFICES ASSUME NEW k \in msgs', k.type = "promise"
                   PROVE  /\ k.vrnd > 0 => [acc |-> k.src, rnd |-> k.vrnd, val |-> k.vval] \in votes'
                          /\ \A y \in votes' : y.acc = k.src => y.rnd <= k.vrnd \/ y.rnd >= k.rnd
        BY DEF PromiseReportsLastVote
      <4>1. k \in msgs /\ k.rnd <= rnd[k.src]
        BY <2>1 DEF PromiseInv
      <4>2. x.acc = k.src => x.rnd >= k.rnd
        BY <2>3, <3>2, <4>1, <1>f, <1>n
      <4> QED BY <3>1, <4>1, <4>2 DEF VoteInv, PromiseReportsLastVote
    <3> QED BY <3>3, <3>4, <3>5, <3>6 DEF VoteInv
  <2> QED BY <2>2, <2>3, <1>f, <1>n
<1>5. ASSUME NEW m \in msgs, Learn(m.dst, m) PROVE VoteInv'
  BY <1>5, VoteUndisturbed DEF Learn, acceptorVars
<1>6. CASE UNCHANGED vars
  BY <1>6, VoteUndisturbed DEF vars, acceptorVars
<1>7. QED
  BY <1>1, <1>2, <1>3, <1>4, <1>5, <1>6 DEF Next

\* A promise tells its proposer of the acceptor's last acceptance, and the check in
\* accept keeps that true while the promise is on its way, for every group.
THEOREM PromisesReport == Spec => []PromiseReportsLastVote
<1> DEFINE I == TypeInv /\ PromiseInv /\ VoteInv
<1>1. Init => I
  BY TypeInit, PromiseInit, VoteInit
<1>2. I /\ [Next]_vars => I'
  BY TypeStep, PromiseStep, VoteStep
<1>3. I => PromiseReportsLastVote
  BY DEF VoteInv
<1>4. QED
  BY <1>1, <1>2, <1>3, PTL DEF Spec

-----------------------------------------------------------------------------
(* Agreement in groups of one and two nodes, where a majority is the whole *)
(* group.                                                                  *)

\* A set of numbers has a least one: what takes the place of induction.
LEMMA LeastNumber ==
    ASSUME NEW T \in SUBSET Nat, T # {}
    PROVE  \E x \in T : \A y \in T : x <= y
<1> DEFINE R == {p \in Nat \X Nat : p[1] < p[2]}
<1>1. IsWellFoundedOn(R, Nat)
  BY NatLessThanWellFounded DEF OpToRel, R
<1> HIDE DEF R
<1>2. PICK x \in T : \A y \in T : <<y, x>> \notin R
  BY <1>1, WFMin, Zenon
<1>3. \A y \in T : ~(y < x)
  BY <1>2 DEF R
<1>4. \A y \in T : x <= y
  BY <1>3
<1>5. QED
  BY <1>4

\* A promise of round r with the fields k and u describes acceptor a: its last
\* acceptance below r is that of u in round k, or there is none when k is 0.
Reports(a, r, k, u) ==
    /\ k > 0 => [acc |-> a, rnd |-> k, val |-> u] \in votes
    /\ \A x \in votes : x.acc = a => x.rnd <= k \/ x.rnd >= r

\* A stored promise still describes one of the acceptors it was received from.
StoredReports ==
    \A p \in Node, r \in Rnd : \A i \in DOMAIN prepare_state[p][r] :
        LET e == prepare_state[p][r][i]
        IN  /\ e.vrnd < r
            /\ \E a \in promisers[p][r] : Reports(a, r, e.vrnd, e.vval)

\* Every promise names a round below its own.
PromisesLookBack == \A m \in msgs : m.type = "promise" => m.vrnd < m.rnd

ReportInv == PromisesLookBack /\ StoredReports

LEMMA ReportInit == Init => ReportInv
BY DEF Init, ReportInv, PromisesLookBack, StoredReports

\* A step that leaves stored promises and acceptances alone ...
LEMMA StoredUndisturbed ==
    ASSUME StoredReports, UNCHANGED <<prepare_state, promisers, votes>>
    PROVE  StoredReports'
BY DEF StoredReports, Reports

\* ... and sends no promise.
LEMMA ReportUndisturbed ==
    ASSUME ReportInv, UNCHANGED <<prepare_state, promisers, votes>>,
           \A k \in msgs' : k.type = "promise" => k \in msgs
    PROVE  ReportInv'
<1>1. PromisesLookBack'
  BY DEF ReportInv, PromisesLookBack
<1>2. StoredReports'
  BY StoredUndisturbed DEF ReportInv
<1>3. QED
  BY <1>1, <1>2 DEF ReportInv

LEMMA ReportStep ==
    TypeInv /\ PromiseInv /\ VoteInv /\ ReportInv /\ [Next]_vars => ReportInv'
<1> SUFFICES ASSUME TypeInv, PromiseInv, VoteInv, ReportInv, [Next]_vars PROVE ReportInv'
  OBVIOUS
<1>0. rnd \in [Node -> Rnd] /\ vrnd \in [Node -> Rnd] /\ votes \subseteq Vote
  BY DEF TypeInv, TypeOK
<1>n. /\ \A r \in Rnd : r \in Int
      /\ \A a \in Node : rnd[a] \in Int /\ vrnd[a] \in Int
      /\ \A x \in votes : x.acc \in Node /\ x.rnd \in Int
  BY <1>0 DEF Rnd, Vote
<1>f. \A m \in msgs : m.src \in Node /\ m.dst \in Node /\ m.rnd \in Rnd /\ m.rnd \in Int
  BY <1>n, MessageFields DEF TypeInv, TypeOK
<1>1. ASSUME NEW n \in Proposer, NEW v \in Value, Propose(n, v) PROVE ReportInv'
  <2>1. \A k \in msgs' : k.type = "promise" => k \in msgs
    BY <1>1 DEF Propose, Prepares
  <2> QED BY <1>1, <2>1, ReportUndisturbed, ProposeFacts
<1>2. ASSUME NEW m \in msgs, Prepare(m.dst, m) PROVE ReportInv'
  <2> DEFINE k == [type |-> "promise", src |-> m.dst, dst |-> m.src, rnd |-> m.rnd,
                   vrnd |-> vrnd[m.dst], vval |-> vval[m.dst]]
  <2>1. UNCHANGED <<prepare_state, promisers, votes>>
    BY <1>2, PrepareFacts
  <2>2. CASE msgs' = msgs \ {m}
    BY <2>1, <2>2, ReportUndisturbed
  <2>3. CASE m.rnd > rnd[m.dst] /\ msgs' = (msgs \ {m}) \cup {k}
    <3>1. vrnd[m.dst] < m.rnd
      <4>1. vrnd[m.dst] <= rnd[m.dst] /\ vrnd[m.dst] \in Int /\ rnd[m.dst] \in Int /\ m.rnd \in Int
        BY <1>n, <1>f DEF VoteInv
      <4> QED BY <2>3, <4>1
    <3>2. k.vrnd = vrnd[m.dst] /\ k.rnd = m.rnd
      OBVIOUS
    <3> HIDE DEF k
    <3>3. PromisesLookBack'
      BY <2>3, <3>1, <3>2 DEF ReportInv, PromisesLookBack
    <3>4. StoredReports'
      BY <2>1, StoredUndisturbed DEF ReportInv
    <3> QED BY <3>3, <3>4 DEF ReportInv
  <2> QED BY <1>2, <2>2, <2>3, PrepareFacts
<1>3. ASSUME NEW m \in msgs, Promise(m.dst, m) PROVE ReportInv'
  <2> DEFINE n == m.dst
             old == prepare_state[n][m.rnd]
             e == [vrnd |-> m.vrnd, vval |-> m.vval]
             new == Append(old, e)
  <2>1. m.type = "promise" /\ UNCHANGED votes
    BY <1>3, PromiseFacts
  <2>2. \E u : msgs' = msgs \ {m} \/ msgs' = (msgs \ {m}) \cup Accepts(n, m.rnd, u)
    BY <1>3, PromiseFacts
  <2>3. \A k \in msgs' : k.type = "promise" => k \in msgs
    BY <2>2 DEF Accepts
  <2>4. CASE UNCHANGED <<prepare_state, promisers>>
    BY <2>1, <2>3, <2>4, ReportUndisturbed
  <2>5. CASE /\ prepare_state' = [prepare_state EXCEPT ![n][m.rnd] = new]
             /\ promisers' = [promisers EXCEPT ![n][m.rnd] = @ \cup {m.src}]
    <3>1. n \in Node /\ m.src \in Node /\ m.rnd \in Rnd
      BY <1>f
    <3>2. \A p \in Node, r \in Rnd : prepare_state'[p][r] =
              IF p = n /\ r = m.rnd THEN new ELSE prepare_state[p][r]
      BY <2>5, <3>1, Tables
    <3>3. \A p \in Node, r \in Rnd : promisers'[p][r] =
              IF p = n /\ r = m.rnd THEN promisers[n][m.rnd] \cup {m.src} ELSE promisers[p][r]
      BY <2>5, <3>1, Tables, AddToTable
    <3>4. e.vrnd < m.rnd /\ Reports(m.src, m.rnd, e.vrnd, e.vval)
      BY <2>1 DEF ReportInv, PromisesLookBack, VoteInv, PromiseReportsLastVote, Reports
    <3>5. old \in Seq(Promised)
      BY <3>1, Tables
    <3>6. \A i \in DOMAIN new : new[i] = e \/ (i \in DOMAIN old /\ new[i] = old[i])
      <4>1. DOMAIN new = 1..(Len(old) + 1) /\ DOMAIN old = 1..Len(old) /\ Len(old) \in Nat
        BY <3>5
      <4>2. new[Len(old) + 1] = e /\ \A i \in 1..Len(old) : new[i] = old[i]
        BY <3>5
      <4> HIDE DEF e, new, old
      <4>3. QED
        BY <4>1, <4>2
    <3> HIDE DEF e, new
    <3>7. ASSUME NEW p \in Node, NEW r \in Rnd, NEW i \in DOMAIN prepare_state'[p][r]
          PROVE  /\ prepare_state'[p][r][i].vrnd < r
                 /\ \E a \in promisers'[p][r] :
                        Reports(a, r, prepare_state'[p][r][i].vrnd, prepare_state'[p][r][i].vval)
      <4>1. CASE p = n /\ r = m.rnd
        <5>1. i \in DOMAIN new /\ prepare_state'[p][r][i] = new[i]
          BY <4>1, <3>2, <3>7
        <5>2. promisers'[p][r] = promisers[p][r] \cup {m.src}
          BY <4>1, <3>3
        <5>3. CASE new[i] = e
          BY <4>1, <5>1, <5>2, <5>3, <3>4
        <5>4. CASE i \in DOMAIN old /\ new[i] = old[i]
          BY <4>1, <5>1, <5>2, <5>4 DEF ReportInv, StoredReports
        <5> QED BY <5>1, <5>3, <5>4, <3>6
      <4>2. CASE ~(p = n /\ r = m.rnd)
        <5>1. prepare_state'[p][r] = prepare_state[p][r] /\ promisers'[p][r] = promisers[p][r]
          BY <4>2, <3>2, <3>3
        <5> QED BY <5>1, <3>7 DEF ReportInv, StoredReports
      <4> QED BY <4>1, <4>2
    <3>8. PromisesLookBack'
      BY <2>3 DEF ReportInv, PromisesLookBack
    <3>9. StoredReports'
      <4>1. \A a, r, k, u : Reports(a, r, k, u) =>
                /\ k > 0 => [acc |-> a, rnd |-> k, val |-> u] \in votes'
                /\ \A x \in votes' : x.acc = a => x.rnd <= k \/ x.rnd >= r
        BY <2>1 DEF Reports
      <4>2. QED
        BY <3>7, <4>1 DEF StoredReports, Reports
    <3> QED BY <3>8, <3>9 DEF ReportInv
  <2> QED BY <1>3, <2>4, <2>5, PromiseFacts
<1>4. ASSUME NEW m \in msgs, Accept(m.dst, m) PROVE ReportInv'
  <2> DEFINE x == [acc |-> m.dst, rnd |-> m.rnd, val |-> m.val]
  <2>1. \A k \in msgs' : k.type = "promise" => k \in msgs
    BY <1>4, AcceptFacts DEF Learns
  <2>2. UNCHANGED <<prepare_state, promisers>>
    BY <1>4, AcceptFacts
  <2>3. CASE UNCHANGED votes
    BY <2>1, <2>2, <2>3, ReportUndisturbed
  <2>4. CASE m.rnd >= rnd[m.dst] /\ votes' = votes \cup {x}
    <3>1. x.acc = m.dst /\ x.rnd = m.rnd
      OBVIOUS
    <3> HIDE DEF x
    <3>2. ASSUME NEW p \in Node, NEW r \in Rnd, NEW a \in promisers[p][r], NEW k, NEW u,
                 Reports(a, r, k, u)
          PROVE  Reports(a, r, k, u)'
      <4>1. a \in Node /\ r <= rnd[a]
        BY Tables DEF PromiseInv
      <4>2. x.acc = a => x.rnd >= r
        BY <2>4, <3>1, <4>1, <1>n, <1>f
      <4> QED BY <2>4, <3>2, <4>2 DEF Reports
    <3>3. ASSUME NEW p \in Node, NEW r \in Rnd, NEW i \in DOMAIN prepare_state[p][r]
          PROVE  /\ prepare_state[p][r][i].vrnd < r
                 /\ \E a \in promisers[p][r] :
                        Reports(a, r, prepare_state[p][r][i].vrnd, prepare_state[p][r][i].vval)'
      <4>1. /\ prepare_state[p][r][i].vrnd < r
            /\ \E a \in promisers[p][r] :
                   Reports(a, r, prepare_state[p][r][i].vrnd, prepare_state[p][r][i].vval)
        BY <3>3 DEF ReportInv, StoredReports
      <4>2. PICK a \in promisers[p][r] :
                Reports(a, r, prepare_state[p][r][i].vrnd, prepare_state[p][r][i].vval)
        BY <4>1
      <4> DEFINE k == prepare_state[p][r][i].vrnd
                 u == prepare_state[p][r][i].vval
      <4>3. UNCHANGED <<k, u>>
        BY <2>2
      <4> QED BY <4>1, <4>2, <4>3, <2>4, <3>2 DEF Reports
    <3>4. PromisesLookBack'
      BY <2>1 DEF ReportInv, PromisesLookBack
    <3>5. StoredReports'
      BY <2>2, <3>3 DEF StoredReports
    <3> QED BY <3>4, <3>5 DEF ReportInv
  <2> QED BY <1>4, <2>3, <2>4, AcceptFacts
<1>5. ASSUME NEW m \in msgs, Learn(m.dst, m) PROVE ReportInv'
  BY <1>5, ReportUndisturbed DEF Learn, acceptorVars, proposerVars
<1>6. CASE UNCHANGED vars
  BY <1>6, ReportUndisturbed DEF vars, acceptorVars, proposerVars
<1>7. QED
  BY <1>1, <1>2, <1>3, <1>4, <1>5, <1>6 DEF Next

\* Every node accepted v in round r.
Unanimous(r, v) == \A a \in Node : [acc |-> a, rnd |-> r, val |-> v] \in votes

\* A proposer that completes a majority in round s after the whole group accepted v
\* in round r hears of v, or of a later value, in every promise.
LEMMA HearsOfChosen ==
    ASSUME TypeInv, PromiseInv, CountInv, AcceptInv, ReportInv,
           NEW p \in Node, NEW s \in Rnd, Won(p, s),
           NEW r \in Rnd, NEW v, r < s, Unanimous(r, v)
    PROVE  \/ WonValue(p, s) = v
           \/ \E q \in Node, k \in Rnd : r < k /\ k < s /\ Won(q, k) /\ WonValue(q, k) = WonValue(p, s)
<1> DEFINE promises == prepare_state[p][s]
           last == Len(promises)
<1>1. promises \in Seq(Promised) /\ last = majority_threshold /\ last \in Nat /\ last > 0
  BY Tables, Threshold DEF Won
<1>2. DOMAIN promises = 1..last /\ \A i \in 1..last : promises[i].vrnd \in Rnd
  <2>1. DOMAIN promises = 1..last /\ \A i \in 1..last : promises[i] \in Promised
    BY <1>1
  <2>2. \A e \in Promised : e.vrnd \in Rnd
    BY DEF Promised
  <2> HIDE DEF promises, last
  <2>3. QED
    BY <2>1, <2>2
<1>3. \A w \in Rnd : w \in Int /\ w >= 0
  BY BoundAssumption DEF Rnd
<1>4. 0 < r
  <2>1. PICK i \in DOMAIN promises : TRUE
    BY <1>1, <1>2
  <2>2. PICK a \in promisers[p][s] : TRUE
    BY <2>1 DEF ReportInv, StoredReports
  <2>3. a \in Node
    BY <2>2, Tables
  <2>4. [acc |-> a, rnd |-> r, val |-> v] \in votes
    BY <2>3 DEF Unanimous
  <2>5. PICK q \in Node : Won(q, r)
    BY <2>4 DEF AcceptInv
  <2>6. prepare_state[q][r] \in Seq(Promised) /\ Len(prepare_state[q][r]) > 0
    BY <2>5, Tables, Threshold DEF Won
  <2>7. 1 \in DOMAIN prepare_state[q][r] /\ prepare_state[q][r][1].vrnd \in Rnd
    <3>1. 1 \in DOMAIN prepare_state[q][r] /\ prepare_state[q][r][1] \in Promised
      BY <2>6
    <3>2. \A e \in Promised : e.vrnd \in Rnd
      BY DEF Promised
    <3>3. QED
      BY <3>1, <3>2
  <2>8. prepare_state[q][r][1].vrnd < r
    BY <2>7, <2>5 DEF ReportInv, StoredReports
  <2>9. QED
    BY <2>7, <2>8, <1>3
<1>5. ASSUME NEW i \in 1..last
      PROVE  /\ r <= promises[i].vrnd /\ promises[i].vrnd < s
             /\ \E a \in Node : [acc |-> a, rnd |-> promises[i].vrnd, val |-> promises[i].vval] \in votes
  <2>1. promises[i].vrnd < s /\ \E a \in promisers[p][s] : Reports(a, s, promises[i].vrnd, promises[i].vval)
    BY <1>2 DEF ReportInv, StoredReports
  <2>2. PICK a \in promisers[p][s] : Reports(a, s, promises[i].vrnd, promises[i].vval)
    BY <2>1
  <2>3. a \in Node
    BY <2>2, Tables
  <2> DEFINE x == [acc |-> a, rnd |-> r, val |-> v]
  <2>4. x \in votes
    BY <2>3 DEF Unanimous
  <2>5. x.acc = a /\ x.rnd = r
    OBVIOUS
  <2> HIDE DEF x
  <2>6. r <= promises[i].vrnd \/ r >= s
    BY <2>2, <2>4, <2>5 DEF Reports
  <2>7. r <= promises[i].vrnd
    BY <2>6, <1>2, <1>3
  <2>8. promises[i].vrnd > 0
    BY <2>7, <1>2, <1>3, <1>4
  <2>9. QED
    BY <2>1, <2>2, <2>3, <2>7, <2>8 DEF Reports
<1>6. WonValue(p, s) = promises[last].vval
  <2>1. last \in DOMAIN promises /\ IsLastAccepted(promises, last)
    BY <1>1, <1>2, <1>3, <1>4, <1>5 DEF IsLastAccepted
  <2>2. \A i \in DOMAIN promises : IsLastAccepted(promises, i) => i = last
    <3> SUFFICES ASSUME NEW i \in DOMAIN promises, i # last, IsLastAccepted(promises, i) PROVE FALSE
      OBVIOUS
    <3>1. promises[last].vrnd = 0
      BY <2>1, <1>1, <1>2 DEF IsLastAccepted
    <3> QED BY <3>1, <2>1 DEF IsLastAccepted
  <2> HIDE DEF last, promises
  <2>3. (CHOOSE i \in DOMAIN promises : IsLastAccepted(promises, i)) = last
    BY <2>1, <2>2
  <2>4. QED
    BY <2>1, <2>3 DEF WonValue, proposal_value, promises
<1>7. PICK a \in Node : [acc |-> a, rnd |-> promises[last].vrnd, val |-> promises[last].vval] \in votes
  <2>1. last \in 1..last
    BY <1>1
  <2> HIDE DEF promises, last
  <2>2. QED
    BY <2>1, <1>5
<1> DEFINE x == [acc |-> a, rnd |-> promises[last].vrnd, val |-> promises[last].vval]
           y == [acc |-> a, rnd |-> r, val |-> v]
<1>8. x \in votes /\ y \in votes
  BY <1>7 DEF Unanimous
<1>9. /\ x.rnd = promises[last].vrnd /\ x.val = promises[last].vval
      /\ y.rnd = r /\ y.val = v
  OBVIOUS
<1>10. r <= x.rnd /\ x.rnd < s /\ x.rnd \in Rnd
  BY <1>1, <1>2, <1>5, <1>9
<1> HIDE DEF x, y, last, promises
<1>11. CASE x.rnd = r
  BY <1>6, <1>8, <1>9, <1>11, VotesAgree DEF OneValuePerRound
<1>12. CASE x.rnd # r
  <2>1. PICK q \in Node : Won(q, x.rnd) /\ x.val = WonValue(q, x.rnd)
    BY <1>8 DEF AcceptInv
  <2>2. r < x.rnd
    BY <1>10, <1>12, <1>3
  <2>3. QED
    BY <2>1, <2>2, <1>6, <1>9, <1>10
<1>13. QED
  BY <1>11, <1>12

\* So later rounds keep that value: a first one that did not would have heard of v.
LEMMA LaterRoundsKeep ==
    ASSUME TypeInv, PromiseInv, CountInv, AcceptInv, ReportInv,
           NEW r \in Rnd, NEW v, Unanimous(r, v)
    PROVE  \A p \in Node, s \in Rnd : r < s /\ Won(p, s) => WonValue(p, s) = v
<1> DEFINE T == {s \in Rnd : r < s /\ \E p \in Node : Won(p, s) /\ WonValue(p, s) # v}
<1>0. T \in SUBSET Nat
  BY BoundAssumption DEF Rnd
<1>1. T = {}
  <2> SUFFICES ASSUME T # {} PROVE FALSE
    OBVIOUS
  <2>1. PICK s \in T : \A k \in T : s <= k
    <3> HIDE DEF T
    <3> QED BY <1>0, LeastNumber
  <2>2. PICK p \in Node : Won(p, s) /\ WonValue(p, s) # v
    BY <2>1
  <2>3. s \in Rnd /\ r < s
    BY <2>1
  <2>4. PICK q \in Node, k \in Rnd : r < k /\ k < s /\ Won(q, k) /\ WonValue(q, k) = WonValue(p, s)
    BY <2>2, <2>3, HearsOfChosen
  <2>5. k \in T
    BY <2>2, <2>4
  <2>6. k \in Int /\ s \in Int /\ s <= k
    BY <2>1, <2>5, <1>0
  <2>7. QED
    BY <2>4, <2>6
<1>2. QED
  BY <1>1

\* In a group of at most two nodes a majority is everybody.
LEMMA MajorityIsAll ==
    ASSUME Cardinality(Node) <= 2, NEW S \in SUBSET Node, IsMajority(S)
    PROVE  S = Node
<1>1. IsFiniteSet(S) /\ Cardinality(S) \in Nat /\ Cardinality(Node) \in Nat
  BY NodeAssumption, FS_Subset, FS_CardinalityType
<1>2. Cardinality(S) <= Cardinality(Node) /\ (Cardinality(S) = Cardinality(Node) => S = Node)
  BY NodeAssumption, FS_Subset
<1>3. 2 * Cardinality(S) > Cardinality(Node)
  BY DEF IsMajority
<1>4. Cardinality(S) = Cardinality(Node)
  BY <1>1, <1>2, <1>3
<1>5. QED
  BY <1>2, <1>4

LEMMA LogsAgree ==
    ASSUME Cardinality(Node) <= 2, IInv, ReportInv
    PROVE  Agreement
<1> SUFFICES ASSUME NEW n \in Node, NEW k \in Node, log[n] # None, log[k] # None
             PROVE  log[n] = log[k]
  BY DEF Agreement
<1> USE DEF IInv
<1>1. ASSUME NEW m \in Node, log[m] # None
      PROVE  \E r \in Rnd : Unanimous(r, log[m])
  <2>1. PICK r \in Rnd : IsMajority(Voters(r, log[m]))
    BY <1>1 DEF LearnedIsChosen
  <2>2. Voters(r, log[m]) \in SUBSET Node
    BY DEF Voters
  <2>3. Voters(r, log[m]) = Node
    BY <2>1, <2>2, MajorityIsAll
  <2>4. QED
    BY <2>3 DEF Voters, Unanimous
<1>2. PICK r \in Rnd : Unanimous(r, log[n])
  BY <1>1
<1>3. PICK s \in Rnd : Unanimous(s, log[k])
  BY <1>1
<1>4. ASSUME NEW a \in Rnd, NEW u, Unanimous(a, u), NEW b \in Rnd, NEW w, Unanimous(b, w), a < b
      PROVE  u = w
  <2> DEFINE x == [acc |-> n, rnd |-> b, val |-> w]
  <2>1. x \in votes
    BY <1>4 DEF Unanimous
  <2>2. x.rnd = b /\ x.val = w
    OBVIOUS
  <2> HIDE DEF x
  <2>3. PICK p \in Node : Won(p, b) /\ w = WonValue(p, b)
    BY <2>1, <2>2 DEF AcceptInv
  <2>4. QED
    BY <2>3, <1>4, LaterRoundsKeep
<1>5. CASE r = s
  <2> DEFINE x == [acc |-> n, rnd |-> r, val |-> log[n]]
             y == [acc |-> n, rnd |-> s, val |-> log[k]]
  <2>1. x \in votes /\ y \in votes
    BY <1>2, <1>3 DEF Unanimous
  <2>2. x.rnd = y.rnd /\ x.val = log[n] /\ y.val = log[k]
    BY <1>5
  <2> HIDE DEF x, y
  <2>3. QED
    BY <2>1, <2>2, VotesAgree DEF OneValuePerRound
<1>6. r \in Int /\ s \in Int
  BY DEF Rnd
<1>7. QED
  BY <1>2, <1>3, <1>4, <1>5, <1>6

\* In a group of one or two nodes no two logs differ, however many proposals, rounds
\* and reordered messages there are: every promise then reports the chosen value or a
\* later one, so it does not matter which of them the proposer follows.  For three
\* nodes this fails, and the run paxos_three_nodes_disagree shows how.
THEOREM SmallGroupsAgree ==
    ASSUME Cardinality(Node) <= 2
    PROVE  Spec => []Agreement
<1> DEFINE I == IInv /\ VoteInv /\ ReportInv
<1>1. Init => I
  BY TypeInit, PromiseInit, AcceptInit, LearnInit, VoteInit, ReportInit DEF IInv
<1>2. I /\ [Next]_vars => I'
  BY IInvInductive, VoteStep, ReportStep DEF IInv
<1>3. I => Agreement
  BY LogsAgree
<1>4. QED
  BY <1>1, <1>2, <1>3, PTL DEF Spec
=============================================================================
