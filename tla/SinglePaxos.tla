----------------------------- MODULE SinglePaxos -----------------------------
(***************************************************************************)
(* One Paxos instance: the SinglePaxosHandler objects that the members of  *)
(* a Paxos group keep for one index of the Paxos log.                      *)
(*                                                                         *)
(* Every member is proposer, acceptor and learner.  A handler runs to      *)
(* completion on the node's server thread, so it is one action.  Messages  *)
(* between nodes (and a node's messages to itself, which SelfChannel       *)
(* posts to the same thread) are records in msgs until they are handled.   *)
(* They can be handled in any order: channels are only "semi-FIFO", and    *)
(* messages of different channels race.  A message that is lost is one     *)
(* that stays in msgs for ever.  Nothing is duplicated (channels are TCP   *)
(* connections); a node may send the same Prepare twice, but an acceptor   *)
(* answers a round once, so the second copy is the first one handled late. *)
(***************************************************************************)
EXTENDS Integers, Sequences, FiniteSets

CONSTANTS
    Node,      \* the members of the Paxos group (_config_endpoints)
    Proposer,  \* the members that some client asks to propose
    Value,     \* the log entries that clients ask for
    None,      \* "no entry"; also the default PaxosLogEntry of an acceptor
    RandMax,   \* rand_uniform(0, RandMax) is added to the proposal number: 999
    MaxRnd     \* bound on the proposal numbers explored

ASSUME NodeAssumption == IsFiniteSet(Node) /\ Proposer \subseteq Node
ASSUME ValueAssumption == None \notin Value
ASSUME BoundAssumption == RandMax \in Nat /\ MaxRnd \in Nat

VARIABLES
    latest,         \* _proposer_state.latest
    proposal,       \* _proposer_state.proposal: rnd -> entry, None when absent
    prepare_state,  \* _proposer_state.prepare_state: rnd -> promises, in arrival order
    rnd,            \* _acceptor_state.accepted_state<0>
    vrnd,           \* _acceptor_state.accepted_state<1>
    vval,           \* _acceptor_state.accepted_state<2>
    learned,        \* _learner_state.learned
    learned_value,  \* _learner_state.learned_value: rnd -> (entry, count)
    log,            \* what PaxosLog::set_entry was given for this index
    msgs,           \* messages sent and not yet handled
    (* History, read by no action: *)
    promisers,      \* who sent the promises in prepare_state[p][r]
    promisedTo,     \* the proposer that acceptor a sent its promise of round r
    votes,          \* every acceptance [acc, rnd, val] that ever happened
    heardFrom       \* whose Learn messages learned_value[n][r].count counts

proposerVars == <<latest, proposal, prepare_state, promisers>>
acceptorVars == <<rnd, vrnd, vval, promisedTo, votes>>
learnerVars  == <<learned, learned_value, log, heardFrom>>
vars == <<proposerVars, acceptorVars, learnerVars, msgs>>

Rnd == 0..MaxRnd

Entry == Value \cup {None}

Promised == [vrnd : Rnd, vval : Entry]

Message ==
         [type : {"prepare"}, src : Node, dst : Node, rnd : Rnd]
    \cup [type : {"promise"}, src : Node, dst : Node, rnd : Rnd, vrnd : Rnd, vval : Entry]
    \cup [type : {"accept"},  src : Node, dst : Node, rnd : Rnd, val : Value]
    \cup [type : {"learn"},   src : Node, dst : Node, rnd : Rnd, val : Value]

Vote == [acc : Node, rnd : Rnd, val : Value]

Init ==
    /\ latest = [n \in Node |-> 0]
    /\ proposal = [n \in Node |-> [r \in Rnd |-> None]]
    /\ prepare_state = [n \in Node |-> [r \in Rnd |-> << >>]]
    /\ rnd = [n \in Node |-> 0]
    /\ vrnd = [n \in Node |-> 0]
    /\ vval = [n \in Node |-> None]
    /\ learned = [n \in Node |-> FALSE]
    /\ learned_value = [n \in Node |-> [r \in Rnd |-> [val |-> None, count |-> 0]]]
    /\ log = [n \in Node |-> None]
    /\ msgs = {}
    /\ promisers = [n \in Node |-> [r \in Rnd |-> {}]]
    /\ promisedTo = [n \in Node |-> [r \in Rnd |-> None]]
    /\ votes = {}
    /\ heardFrom = [n \in Node |-> [r \in Rnd |-> {}]]

-----------------------------------------------------------------------------
(* Mutations: forms the code could plausibly have had, each refuted by a   *)
(* property below.                                                         *)

\* Off by one: half of the group.
majority_threshold_half == Cardinality(Node) \div 2

\* The slot of a finished proposal number is reused: older proposals are forgotten.
Propose_forgets(n, v) ==
    \E r \in {k \in Rnd : latest[n] <= k /\ k <= latest[n] + RandMax} :
        /\ latest' = [latest EXCEPT ![n] = r]
        /\ proposal' = [proposal EXCEPT ![n] = [k \in Rnd |-> IF k = r THEN v ELSE None]]
        /\ msgs' = msgs \cup [type : {"prepare"}, src : {n}, dst : Node, rnd : {r}]
        /\ UNCHANGED <<prepare_state, promisers, acceptorVars, learnerVars>>

\* >= for >: a round is promised to every proposer that asks for it.
Prepare_again(n, m) ==
    /\ m.type = "prepare" /\ m.dst = n
    /\ IF m.rnd >= rnd[n] /\ m.rnd > 0
       THEN /\ rnd' = [rnd EXCEPT ![n] = m.rnd]
            /\ msgs' = (msgs \ {m}) \cup
                   {[type |-> "promise", src |-> n, dst |-> m.src, rnd |-> m.rnd,
                     vrnd |-> vrnd[n], vval |-> vval[n]]}
            /\ promisedTo' = [promisedTo EXCEPT ![n][m.rnd] = m.src]
       ELSE /\ msgs' = msgs \ {m}
            /\ UNCHANGED <<rnd, promisedTo>>
    /\ UNCHANGED <<vrnd, vval, votes, proposerVars, learnerVars>>

\* What the acceptors report is ignored.
proposal_value_own(own, promises) == own

\* The check against a newer round is missing.
Accept_unchecked(n, m) ==
    /\ m.type = "accept" /\ m.dst = n
    /\ rnd' = [rnd EXCEPT ![n] = m.rnd]
    /\ vrnd' = [vrnd EXCEPT ![n] = m.rnd]
    /\ vval' = [vval EXCEPT ![n] = m.val]
    /\ votes' = votes \cup {[acc |-> n, rnd |-> m.rnd, val |-> m.val]}
    /\ msgs' = (msgs \ {m}) \cup
           [type : {"learn"}, src : {n}, dst : Node, rnd : {m.rnd}, val : {m.val}]
    /\ UNCHANGED <<promisedTo, proposerVars, learnerVars>>

\* > for >=: the round an acceptor promised is not accepted from its proposer.
Accept_strict(n, m) ==
    /\ m.type = "accept" /\ m.dst = n
    /\ IF m.rnd > rnd[n]
       THEN /\ rnd' = [rnd EXCEPT ![n] = m.rnd]
            /\ vrnd' = [vrnd EXCEPT ![n] = m.rnd]
            /\ vval' = [vval EXCEPT ![n] = m.val]
            /\ votes' = votes \cup {[acc |-> n, rnd |-> m.rnd, val |-> m.val]}
            /\ msgs' = (msgs \ {m}) \cup
                   [type : {"learn"}, src : {n}, dst : Node, rnd : {m.rnd}, val : {m.val}]
       ELSE /\ msgs' = msgs \ {m}
            /\ UNCHANGED <<rnd, vrnd, vval, votes>>
    /\ UNCHANGED <<promisedTo, proposerVars, learnerVars>>

-----------------------------------------------------------------------------

majority_threshold == (Cardinality(Node) \div 2) + 1

\* The numbers next_proposal_number may return: the random increment starts at 0.
next_proposal_number(n) == {r \in Rnd : latest[n] <= r /\ r <= latest[n] + RandMax}

\* Connections::broadcast of one message to every endpoint of the group, the
\* sender included.
Prepares(n, r)   == [type : {"prepare"}, src : {n}, dst : Node, rnd : {r}]
Accepts(n, r, v) == [type : {"accept"}, src : {n}, dst : Node, rnd : {r}, val : {v}]
Learns(n, r, v)  == [type : {"learn"}, src : {n}, dst : Node, rnd : {r}, val : {v}]

\* propose: neither map's insert replaces what an earlier proposal with the same
\* number stored.
Propose(n, v) ==
    \E r \in next_proposal_number(n) :
        /\ latest' = [latest EXCEPT ![n] = r]
        /\ proposal' = [proposal EXCEPT ![n][r] = IF @ = None THEN v ELSE @]
        /\ msgs' = msgs \cup Prepares(n, r)
        /\ UNCHANGED <<prepare_state, promisers, acceptorVars, learnerVars>>

\* prepare: a Prepare whose number is not higher is dropped without an answer.
Prepare(n, m) ==
    /\ m.type = "prepare" /\ m.dst = n
    /\ IF m.rnd > rnd[n]
       THEN /\ rnd' = [rnd EXCEPT ![n] = m.rnd]
            /\ msgs' = (msgs \ {m}) \cup
                   {[type |-> "promise", src |-> n, dst |-> m.src, rnd |-> m.rnd,
                     vrnd |-> vrnd[n], vval |-> vval[n]]}
            /\ promisedTo' = [promisedTo EXCEPT ![n][m.rnd] = m.src]
       ELSE /\ msgs' = msgs \ {m}
            /\ UNCHANGED <<rnd, promisedTo>>
    /\ UNCHANGED <<vrnd, vval, votes, proposerVars, learnerVars>>

\* Position i holds the last promise, in arrival order, that carries a value.
IsLastAccepted(promises, i) ==
    /\ promises[i].vrnd > 0
    /\ \A j \in DOMAIN promises : j > i => promises[j].vrnd = 0

\* The value of the Accept message.  The loop compares each vrnd with max_vrnd,
\* which stays 0, so every promise that carries a value replaces the previous
\* choice and the last of them is proposed, whatever its round.
proposal_value(own, promises) ==
    IF \E i \in DOMAIN promises : IsLastAccepted(promises, i)
    THEN promises[CHOOSE i \in DOMAIN promises : IsLastAccepted(promises, i)].vval
    ELSE own

\* promise: the promise that completes the majority sends the Accept messages;
\* later ones are dropped.  The handler asserts that the round was proposed here.
Promise(n, m) ==
    /\ m.type = "promise" /\ m.dst = n
    /\ proposal[n][m.rnd] # None
    /\ IF Len(prepare_state[n][m.rnd]) < majority_threshold
       THEN LET promises == Append(prepare_state[n][m.rnd],
                                   [vrnd |-> m.vrnd, vval |-> m.vval])
            IN /\ prepare_state' = [prepare_state EXCEPT ![n][m.rnd] = promises]
               /\ promisers' = [promisers EXCEPT ![n][m.rnd] = @ \cup {m.src}]
               /\ msgs' = (msgs \ {m}) \cup
                      IF Len(promises) = majority_threshold
                      THEN Accepts(n, m.rnd, proposal_value(proposal[n][m.rnd], promises))
                      ELSE {}
       ELSE /\ msgs' = msgs \ {m}
            /\ UNCHANGED <<prepare_state, promisers>>
    /\ UNCHANGED <<latest, proposal, acceptorVars, learnerVars>>

\* accept: an Accept of a round below the acceptor's is dropped.
Accept(n, m) ==
    /\ m.type = "accept" /\ m.dst = n
    /\ IF m.rnd >= rnd[n]
       THEN /\ rnd' = [rnd EXCEPT ![n] = m.rnd]
            /\ vrnd' = [vrnd EXCEPT ![n] = m.rnd]
            /\ vval' = [vval EXCEPT ![n] = m.val]
            /\ votes' = votes \cup {[acc |-> n, rnd |-> m.rnd, val |-> m.val]}
            /\ msgs' = (msgs \ {m}) \cup Learns(n, m.rnd, m.val)
       ELSE /\ msgs' = msgs \ {m}
            /\ UNCHANGED <<rnd, vrnd, vval, votes>>
    /\ UNCHANGED <<promisedTo, proposerVars, learnerVars>>

\* learn: counts Learn messages per round; the count that reaches the majority
\* sets the entry of the log, and every later Learn is ignored.
Learn(n, m) ==
    /\ m.type = "learn" /\ m.dst = n
    /\ msgs' = msgs \ {m}
    /\ IF learned[n] \/ learned_value[n][m.rnd].count >= majority_threshold
       THEN UNCHANGED learnerVars
       ELSE LET old == learned_value[n][m.rnd]
                val == IF old.count = 0 THEN m.val ELSE old.val
            IN /\ learned_value' = [learned_value EXCEPT
                       ![n][m.rnd] = [val |-> val, count |-> old.count + 1]]
               /\ heardFrom' = [heardFrom EXCEPT ![n][m.rnd] = @ \cup {m.src}]
               /\ IF old.count + 1 = majority_threshold
                  THEN /\ learned' = [learned EXCEPT ![n] = TRUE]
                       /\ log' = [log EXCEPT ![n] = val]
                  ELSE UNCHANGED <<learned, log>>
    /\ UNCHANGED <<proposerVars, acceptorVars>>

Next ==
    \/ \E n \in Proposer, v \in Value : Propose(n, v)
    \/ \E m \in msgs : Prepare(m.dst, m)
    \/ \E m \in msgs : Promise(m.dst, m)
    \/ \E m \in msgs : Accept(m.dst, m)
    \/ \E m \in msgs : Learn(m.dst, m)

Spec == Init /\ [][Next]_vars

\* MultiPaxosHandler::handle_incoming_message hands a delivered message to the
\* handler of its type.
Handle(m) ==
    \/ Prepare(m.dst, m)
    \/ Promise(m.dst, m)
    \/ Accept(m.dst, m)
    \/ Learn(m.dst, m)

\* No message is lost: every connection stays up, no send queue overflows, and
\* the server thread runs each posted handler.  One condition per kind of message,
\* round and pair of nodes, because a resent Prepare may not starve the others.
Delivery ==
    \A t \in {"prepare", "promise", "accept", "learn"}, a, b \in Node, r \in Rnd :
        WF_vars(\E m \in msgs : /\ m.type = t /\ m.src = a /\ m.dst = b /\ m.rnd = r
                                /\ Handle(m))

FairSpec == Spec /\ Delivery

-----------------------------------------------------------------------------
(* Properties.                                                             *)

\* The fields of the handlers and the messages have their types; in particular no
\* Accept or Learn message carries the empty entry an acceptor starts with.
TypeOK ==
    /\ latest \in [Node -> Rnd]
    /\ proposal \in [Node -> [Rnd -> Entry]]
    /\ prepare_state \in [Node -> [Rnd -> Seq(Promised)]]
    /\ rnd \in [Node -> Rnd]
    /\ vrnd \in [Node -> Rnd]
    /\ vval \in [Node -> Entry]
    /\ learned \in [Node -> BOOLEAN]
    /\ learned_value \in [Node -> [Rnd -> [val : Entry, count : Nat]]]
    /\ log \in [Node -> Entry]
    /\ msgs \subseteq Message
    /\ promisers \in [Node -> [Rnd -> SUBSET Node]]
    /\ promisedTo \in [Node -> [Rnd -> Node \cup {None}]]
    /\ votes \subseteq Vote
    /\ heardFrom \in [Node -> [Rnd -> SUBSET Node]]

\* The assertion of SinglePaxosHandler::promise: a Promise that arrives, however
\* late, is for a round its receiver proposed and still remembers.
PromiseExpected ==
    \A m \in msgs : m.type = "promise" => proposal[m.dst][m.rnd] # None

\* Proposal numbers are random and not tied to a node, so two proposers may use
\* the same number.  Still no two acceptances of one round differ, in all of the
\* group and for ever: an acceptor promises a number once, so at most one proposer
\* of that number completes a majority and sends Accept messages.
OneValuePerRound ==
    \A x, y \in votes : x.rnd = y.rnd => x.val = y.val

\* The acceptances of value v in round r.
Voters(r, v) == {a \in Node : [acc |-> a, rnd |-> r, val |-> v] \in votes}

IsMajority(S) == 2 * Cardinality(S) > Cardinality(Node)

\* learn counts messages and neither looks at their senders nor compares their
\* values.  What it puts into the log was nevertheless accepted, in one round, by
\* a majority of the acceptors.
LearnedIsChosen ==
    \A n \in Node :
        log[n] # None => \E r \in Rnd : IsMajority(Voters(r, log[n]))

\* A promise of round r that is on its way names the acceptor's last acceptance
\* below r, and the acceptor makes no acceptance between the two afterwards,
\* although Accept messages of lower rounds can still reach it.
PromiseReportsLastVote ==
    \A m \in msgs : m.type = "promise" =>
        /\ m.vrnd > 0 => [acc |-> m.src, rnd |-> m.vrnd, val |-> m.vval] \in votes
        /\ \A x \in votes : x.acc = m.src => x.rnd <= m.vrnd \/ x.rnd >= m.rnd

\* The Paxos logs agree with one another: no two nodes learn different entries
\* for the same index.
Agreement ==
    \A n, k \in Node : log[n] # None /\ log[k] # None => log[n] = log[k]

\* If no other node ever picks a positive number, a proposal with a positive number
\* ends with the entry in every log of the group, however often its proposer proposes
\* again, provided that no message is lost.
LoneProposerLearned ==
    \A p \in Proposer :
        [](\A q \in Node \ {p} : latest[q] = 0) =>
            (latest[p] > 0 ~> \A n \in Node : log[n] # None)
=============================================================================
