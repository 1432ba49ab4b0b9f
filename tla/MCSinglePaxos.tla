---------------------------- MODULE MCSinglePaxos ----------------------------
(* Finite instances of SinglePaxos. *)
EXTENDS SinglePaxos, TLC

CONSTANTS Learner   \* bound: only these nodes handle Learn messages
CONSTANT  MaxProposals  \* bound: proposals with distinct numbers, over all nodes

\* Nodes that propose and nodes that only accept and learn are interchangeable
\* among themselves, and so are the values.
Symmetry ==
    {f @@ g @@ h : f \in Permutations(Proposer),
                   g \in Permutations(Node \ Proposer),
                   h \in Permutations(Value)}

\* A learner sends nothing, so the learners do not influence one another: it is
\* enough to follow those of Learner.
FewLearners == \A n \in Node \ Learner : heardFrom'[n] = heardFrom[n]

\* A message that a handler drops changes nothing but msgs, and leaving it there
\* for ever is a behaviour too: the steps that drop one need not be explored.
NoDrops == <<proposerVars, acceptorVars, learnerVars>>' # <<proposerVars, acceptorVars, learnerVars>>

\* Bound: every proposer has a value of its own and proposes no other.
OwnValue == CHOOSE f \in [Proposer -> Value] : \A n, k \in Proposer : f[n] = f[k] => n = k
OwnValues == \A n \in Proposer, r \in Rnd : proposal'[n][r] \in {None, OwnValue[n]}

FewProposals ==
    Cardinality({p \in Node \X Rnd : proposal'[p[1]][p[2]] # None}) <= MaxProposals

\* A schedule with slow channels: proposals are made one after the other, with
\* growing numbers, once the previous round got a vote; what a round sends reaches
\* a majority at most, in the order Prepare, Promise, Accept; and Learn messages
\* arrive last, after a majority voted in the last round, to one learner after the
\* other and to each from one round.
Handled(t) == {m \in msgs \ msgs' : m.type = t}
Promisers(r) == {n \in Node : promisedTo'[n][r] # None}
Acceptors(r) == {n \in Node : \E x \in votes' : x.acc = n /\ x.rnd = r}
SlowChannels ==
    /\ \A n \in Node : latest'[n] # latest[n] =>
           /\ \A k \in Node : latest'[n] > latest[k]
           /\ \A k \in Node : latest[k] > 0 => Acceptors(latest[k]) # {}
    /\ \A r \in Rnd : /\ Cardinality(Promisers(r)) <= majority_threshold
                     /\ Cardinality(Acceptors(r)) <= majority_threshold
    /\ \A m \in Handled("promise") : Cardinality(Promisers(m.rnd)) = majority_threshold
    /\ \A m \in msgs \ msgs' : m.type # "learn" => \A n \in Node : m.rnd >= latest[n]
    /\ \A m \in Handled("learn") : \E v \in Value : IsMajority(Voters(MaxRnd, v))
    /\ Cardinality({p \in Node \X Rnd : heardFrom'[p[1]][p[2]] # {} /\ ~learned'[p[1]]}) <= 1
    /\ heardFrom' = heardFrom => \A n \in Node, r \in Rnd : heardFrom[n][r] = {}
=============================================================================
