--------------------------- MODULE PaxosNodeProofs ---------------------------
(***************************************************************************)
(* Proofs about the Paxos objects of one node: its log is a PaxosLog, its  *)
(* ProposerQueue has one job, for the task in front, which asks for one    *)
(* index, and its configurations follow the log.                           *)
(***************************************************************************)
EXTENDS PaxosNode, PaxosLogProofs, FiniteSetTheorems

\* A step of the node is a step of its log, or leaves the log alone.
LEMMA NodeStepsLog == [NodeNext]_nodeVars => [Next]_vars
<1> SUFFICES ASSUME [NodeNext]_nodeVars PROVE [Next]_vars
  OBVIOUS
<1>1. ASSUME NEW i \in Index, NEW e \in Entry, LearnEntry(i, e) \/ SyncEntry(i, e)
      PROVE  Next
  BY <1>1 DEF LearnEntry, SyncEntry, SetEntryAndConfig, Next
<1>2. ASSUME \/ \E i \in Index : HandleMessage(i)
             \/ \E t \in Task : TryInsert(t)
             \/ RunJob
      PROVE  UNCHANGED vars
  BY <1>2 DEF HandleMessage, TryInsert, RunJob
<1> QED BY <1>1, <1>2 DEF NodeNext, nodeVars

\* The log inside a node is a PaxosLog, whatever the configuration manager, the instances
\* and the queue around it do.
THEOREM NodeHasLog == NodeSpec => Spec
<1>1. NodeInit => Init
  BY DEF NodeInit
<1> QED BY <1>1, NodeStepsLog, PTL DEF NodeSpec, Spec

\* So the derived state of a node is that of the abstract log, applied in order.
THEOREM NodeImplements == NodeSpec => ImplementsAppliedLog
BY NodeHasLog, Implements, PTL

THEOREM NodeIndicesExact == NodeSpec => []AvailableIndicesExact
BY NodeHasLog, IndicesExact, PTL

-----------------------------------------------------------------------------
(* The ProposerQueue.  The representation invariant is not inductive: that *)
(* a task asks for one index needs that a job proposes again only while    *)
(* its index is the first available one, that tasks in the queue differ,   *)
(* and that those behind the first have not been proposed.                 *)

Proposal == [task : Task, index : Nat]
Job == [task : Task, index : Nat, tries : 0..(PROPOSAL_RETRIES - 1)]

\* Where the history has the proposals of a task.
Proposed(t) == {k \in DOMAIN proposals : proposals[k].task = t}

QueueTypes ==
    /\ tasks \in Seq(Task) /\ proposals \in Seq(Proposal) /\ failed \in Seq(Task)
    /\ jobs \in SUBSET Job

\* The job is for the task in front, whose last proposal it has made, all of them for
\* its index, and the tries are counted.
JobInFront ==
    /\ \A j, k \in jobs : j = k
    /\ \A job \in jobs :
           /\ Len(tasks) > 0 /\ job.task = tasks[1]
           /\ job.index <= next_available_index(pl)
           /\ Len(proposals) > 0
           /\ proposals[Len(proposals)] = [task |-> job.task, index |-> job.index]
           /\ \A k \in Proposed(job.task) : proposals[k].index = job.index
           /\ Cardinality(Proposed(job.task)) = PROPOSAL_RETRIES - job.tries

\* A queue without a job is empty, or the log has got past what was proposed last.
NoJob ==
    Len(tasks) > 0 /\ jobs = {} =>
        /\ Len(proposals) > 0
        /\ proposals[Len(proposals)].task = tasks[1]
        /\ proposals[Len(proposals)].index < next_available_index(pl)

\* The tasks differ, and only the one in front has been proposed.
InLine(q) ==
    /\ \A j, k \in 1..Len(q) : q[j] = q[k] => j = k
    /\ \A j \in DOMAIN failed : \A k \in 1..Len(q) : failed[j] # q[k]
OthersWait == InLine(tasks) /\ \A k \in 2..Len(tasks) : Proposed(tasks[k]) = {}

OneIndex ==
    \A j, k \in DOMAIN proposals :
        proposals[j].task = proposals[k].task => proposals[j] = proposals[k]

AllTried == \A j \in DOMAIN failed : Cardinality(Proposed(failed[j])) = PROPOSAL_RETRIES
FailedOnce == \A j, k \in DOMAIN failed : failed[j] = failed[k] => j = k

QueueInv ==
    QueueTypes /\ JobInFront /\ NoJob /\ OthersWait /\ OneIndex /\ AllTried /\ FailedOnce

LEMMA FirstIndexType == LogInv => next_available_index(pl) \in Nat
BY DEF LogInv, AppliedIsPrefix

\* The proposals of a task are finitely many; propose adds one of one task.
LEMMA ProposedFinite ==
    ASSUME proposals \in Seq(Proposal), NEW t
    PROVE  IsFiniteSet(Proposed(t)) /\ Cardinality(Proposed(t)) \in Nat
<1>1. Proposed(t) \in SUBSET (1..Len(proposals)) /\ Len(proposals) \in Nat
  BY DEF Proposed
<1>2. IsFiniteSet(1..Len(proposals))
  BY <1>1, FS_Interval
<1>3. IsFiniteSet(Proposed(t))
  BY <1>1, <1>2, FS_Subset
<1> QED BY <1>3, FS_CardinalityType

LEMMA ProposeStep ==
    ASSUME proposals \in Seq(Proposal), NEW t \in Task, NEW i \in Nat,
           proposals' = Append(proposals, [task |-> t, index |-> i])
    PROVE  /\ proposals' \in Seq(Proposal)
           /\ Len(proposals') = Len(proposals) + 1 /\ Len(proposals) \in Nat
           /\ \A k \in 1..Len(proposals) : proposals'[k] = proposals[k]
           /\ proposals'[Len(proposals) + 1] = [task |-> t, index |-> i]
           /\ \A u : u # t => Proposed(u)' = Proposed(u)
           /\ Proposed(t)' = Proposed(t) \cup {Len(proposals) + 1}
           /\ Cardinality(Proposed(t)') = Cardinality(Proposed(t)) + 1
<1>1. [task |-> t, index |-> i] \in Proposal
  BY DEF Proposal
<1>2. /\ proposals' \in Seq(Proposal)
      /\ Len(proposals') = Len(proposals) + 1 /\ Len(proposals) \in Nat
      /\ \A k \in 1..Len(proposals) : proposals'[k] = proposals[k]
      /\ proposals'[Len(proposals) + 1] = [task |-> t, index |-> i]
  BY <1>1
<1>3. DOMAIN proposals = 1..Len(proposals) /\ DOMAIN proposals' = 1..(Len(proposals) + 1)
  BY <1>2
<1>4. \A u : u # t => Proposed(u)' = Proposed(u)
  BY <1>2, <1>3 DEF Proposed
<1>5. Proposed(t)' = Proposed(t) \cup {Len(proposals) + 1}
  BY <1>2, <1>3 DEF Proposed
<1>6. Len(proposals) + 1 \notin Proposed(t)
  BY <1>2, <1>3 DEF Proposed
<1>7. Cardinality(Proposed(t)') = Cardinality(Proposed(t)) + 1
  BY <1>5, <1>6, ProposedFinite, FS_AddElement
<1> QED BY <1>2, <1>4, <1>5, <1>7

LEMMA InitQueue == NodeInit => QueueInv
<1> SUFFICES ASSUME NodeInit PROVE QueueInv
  OBVIOUS
<1>1. tasks = << >> /\ proposals = << >> /\ failed = << >> /\ jobs = {}
  BY DEF NodeInit
<1>2. QueueTypes
  BY <1>1 DEF QueueTypes
<1>3. Len(tasks) = 0 /\ DOMAIN proposals = {} /\ DOMAIN failed = {}
  BY <1>1
<1>4. JobInFront /\ NoJob /\ OneIndex /\ AllTried /\ FailedOnce
  BY <1>1, <1>3 DEF JobInFront, NoJob, OneIndex, AllTried, FailedOnce
<1>5. OthersWait
  BY <1>1, <1>3 DEF OthersWait, InLine
<1> QED BY <1>2, <1>4, <1>5 DEF QueueInv

\* run_task gives the queue the tasks q, of which none has been proposed, in a state
\* without jobs.
LEMMA RunTaskKeeps ==
    ASSUME LogInv, QueueInv, NEW q \in Seq(Task), run_task(q, {}), UNCHANGED pl,
           failed' \in Seq(Task), InLine(q)', FailedOnce',
           \A k \in 1..Len(q) : Proposed(q[k]) = {},
           \A j \in DOMAIN failed' : Cardinality(Proposed(failed'[j])) = PROPOSAL_RETRIES
    PROVE  QueueInv'
<1>0. PICK first \in Nat : first = next_available_index(pl) /\ first = next_available_index(pl)'
  BY FirstIndexType
<1>1. PICK n \in 0..Len(q) :
          /\ tasks' = SubSeq(q, n + 1, Len(q))
          /\ IF n = Len(q) THEN jobs' = {} /\ UNCHANGED <<proposals, paxos_instances>>
             ELSE TryAgain({}, q[n + 1], first, PROPOSAL_RETRIES)
  BY <1>0 DEF run_task
<1>2. /\ tasks' \in Seq(Task) /\ Len(tasks') = Len(q) - n
      /\ \A k \in 1..(Len(q) - n) : tasks'[k] = q[k + n]
  <2>1. \A k \in (n + 1)..Len(q) : q[k] \in Task
    OBVIOUS
  <2>2. /\ SubSeq(q, n + 1, Len(q)) \in Seq(Task)
        /\ Len(SubSeq(q, n + 1, Len(q))) = IF n + 1 <= Len(q) THEN Len(q) - (n + 1) + 1 ELSE 0
        /\ \A k \in 1..(Len(q) - (n + 1) + 1) : SubSeq(q, n + 1, Len(q))[k] = q[n + 1 + k - 1]
    BY <2>1, SubSeqProperties
  <2> QED BY <1>1, <2>2
<1>3. proposals \in Seq(Proposal) /\ OneIndex
  BY DEF QueueInv, QueueTypes
<1>4. InLine(tasks)'
  <2>1. \A k \in 1..Len(tasks') : k + n \in 1..Len(q) /\ tasks'[k] = q[k + n]
    BY <1>2
  <2>2. \A j, k \in 1..Len(q) : q[j] = q[k] => j = k
    BY DEF InLine
  <2>3. \A j \in DOMAIN failed' : \A k \in 1..Len(q) : failed'[j] # q[k]
    BY DEF InLine
  <2>4. \A j, k \in 1..Len(tasks') : tasks'[j] = tasks'[k] => j = k
    <3> SUFFICES ASSUME NEW j \in 1..Len(tasks'), NEW k \in 1..Len(tasks'), tasks'[j] = tasks'[k]
                 PROVE  j = k
      OBVIOUS
    <3>1. j + n = k + n
      BY <2>1, <2>2
    <3> QED BY <1>2, <3>1
  <2>5. \A j \in DOMAIN failed' : \A k \in 1..Len(tasks') : failed'[j] # tasks'[k]
    BY <2>1, <2>3
  <2> QED BY <2>4, <2>5 DEF InLine
<1>5. CASE n = Len(q)
  <2>1. jobs' = {} /\ proposals' = proposals /\ Len(tasks') = 0
    BY <1>1, <1>2, <1>5
  <2>2. \A u : Proposed(u)' = Proposed(u)
    BY <2>1 DEF Proposed
  <2>3. QueueTypes' /\ JobInFront' /\ NoJob' /\ OthersWait'
    BY <1>2, <1>3, <1>4, <2>1 DEF QueueTypes, JobInFront, NoJob, OthersWait
  <2>4. OneIndex' /\ AllTried'
    BY <1>3, <2>1, <2>2 DEF OneIndex, AllTried
  <2> QED BY <2>3, <2>4 DEF QueueInv
<1>6. CASE n # Len(q)
  <2>0. n + 1 \in 1..Len(q)
    BY <1>6
  <2>1. PICK t \in Task : t = q[n + 1] /\ Proposed(t) = {}
    <3>1. q[n + 1] \in Task
      BY <2>0
    <3>2. Proposed(q[n + 1]) = {}
      BY <2>0, Zenon
    <3> QED BY <3>1, <3>2, Zenon
  <2> DEFINE job == [task |-> t, index |-> first, tries |-> PROPOSAL_RETRIES - 1]
  <2>2. jobs' = {job} /\ proposals' = Append(proposals, [task |-> t, index |-> first])
    BY <1>0, <1>1, <1>6, <2>1 DEF TryAgain
  <2>3. Len(tasks') > 0 /\ tasks'[1] = t
    BY <1>2, <2>0, <2>1
  <2>4. /\ proposals' \in Seq(Proposal)
        /\ Len(proposals') = Len(proposals) + 1 /\ Len(proposals) \in Nat
        /\ \A k \in 1..Len(proposals) : proposals'[k] = proposals[k]
        /\ proposals'[Len(proposals) + 1] = [task |-> t, index |-> first]
        /\ \A u : u # t => Proposed(u)' = Proposed(u)
        /\ Proposed(t)' = {Len(proposals) + 1}
        /\ Cardinality(Proposed(t)') = 1
    <3>1. Cardinality(Proposed(t)) = 0
      BY <2>1, FS_EmptySet
    <3>2. /\ Proposed(t)' = Proposed(t) \cup {Len(proposals) + 1}
          /\ Cardinality(Proposed(t)') = Cardinality(Proposed(t)) + 1
      BY <1>0, <1>3, <2>2, ProposeStep
    <3>3. /\ proposals' \in Seq(Proposal)
          /\ Len(proposals') = Len(proposals) + 1 /\ Len(proposals) \in Nat
          /\ \A k \in 1..Len(proposals) : proposals'[k] = proposals[k]
          /\ proposals'[Len(proposals) + 1] = [task |-> t, index |-> first]
          /\ \A u : u # t => Proposed(u)' = Proposed(u)
      BY <1>0, <1>3, <2>2, ProposeStep
    <3> QED BY <2>1, <3>1, <3>2, <3>3
  <2>5. job \in Job /\ job.task = t /\ job.index = first /\ job.tries = PROPOSAL_RETRIES - 1
    BY <1>0, <2>1, RetriesAssumption DEF Job
  <2> HIDE DEF job
  <2>6. QueueTypes'
    BY <1>2, <2>2, <2>4, <2>5 DEF QueueTypes
  <2>7. JobInFront'
    <3>1. PROPOSAL_RETRIES - job.tries = 1 /\ job.index <= next_available_index(pl)'
      BY <1>0, <2>5, RetriesAssumption
    <3>2. \A k \in Proposed(t)' : proposals'[k].index = first
      BY <2>4
    <3>3. \A j \in jobs' : j = job
      BY <2>2
    <3>4. Proposed(job.task)' = Proposed(t)'
      BY <2>5 DEF Proposed
    <3>5. /\ Len(tasks') > 0 /\ job.task = tasks'[1]
          /\ Len(proposals') > 0
          /\ proposals'[Len(proposals')] = [task |-> job.task, index |-> job.index]
      BY <2>3, <2>4, <2>5
    <3>6. /\ \A k \in Proposed(job.task)' : proposals'[k].index = job.index
          /\ Cardinality(Proposed(job.task)') = PROPOSAL_RETRIES - job.tries
      BY <2>4, <2>5, <3>1, <3>2, <3>4
    <3> QED BY <3>1, <3>3, <3>5, <3>6 DEF JobInFront
  <2>8. NoJob'
    BY <2>2 DEF NoJob
  <2>9. OthersWait'
    <3>1. \A k \in 2..Len(tasks') : tasks'[k] # t /\ Proposed(tasks'[k]) = {}
      <4> SUFFICES ASSUME NEW k \in 2..Len(tasks')
                   PROVE  tasks'[k] # t /\ Proposed(tasks'[k]) = {}
        OBVIOUS
      <4>1. k + n \in 1..Len(q) /\ tasks'[k] = q[k + n] /\ 1 \in 1..Len(tasks') /\ k # 1
        BY <1>2
      <4>2. tasks'[k] # t
        BY <1>4, <2>3, <4>1 DEF InLine
      <4>3. Proposed(q[k + n]) = {}
        BY <4>1
      <4> QED BY <4>1, <4>2, <4>3 DEF Proposed
    <3> QED BY <1>4, <2>4, <3>1 DEF OthersWait
  <2>10. OneIndex'
    <3>1. \A k \in 1..Len(proposals) : proposals[k].task # t
      BY <1>3, <2>1 DEF Proposed
    <3>2. DOMAIN proposals' = 1..(Len(proposals) + 1) /\ DOMAIN proposals = 1..Len(proposals)
      BY <1>3, <2>4
    <3>3. proposals'[Len(proposals) + 1].task = t
      BY <2>4
    <3>4. /\ \A j, k \in 1..Len(proposals) :
                 proposals'[j].task = proposals'[k].task => proposals'[j] = proposals'[k]
          /\ \A k \in 1..Len(proposals) : proposals'[k].task # t
      <4>1. \A j, k \in 1..Len(proposals) :
                proposals[j].task = proposals[k].task => proposals[j] = proposals[k]
        BY <1>3, <3>2 DEF OneIndex
      <4>2. \A k \in 1..Len(proposals) : proposals'[k] = proposals[k]
        BY <2>4
      <4> QED BY <3>1, <4>1, <4>2
    <3>5. \A k \in 1..(Len(proposals) + 1) : k \in 1..Len(proposals) \/ k = Len(proposals) + 1
      BY <2>4
    <3> QED BY <3>2, <3>3, <3>4, <3>5 DEF OneIndex
  <2>11. AllTried'
    <3>1. \A j \in DOMAIN failed' : failed'[j] # t
      BY <2>0, <2>1 DEF InLine
    <3> QED BY <2>4, <3>1 DEF AllTried
  <2> QED BY <2>6, <2>7, <2>8, <2>9, <2>10, <2>11 DEF QueueInv
<1> QED BY <1>5, <1>6

\* Entries move the first available index forward only, so the index of a job stays
\* behind it.
LEMMA LogKeepsQueue ==
    ASSUME LogInv, LogInv', QueueInv, UNCHANGED queueVars,
           next_available_index(pl) <= next_available_index(pl)'
    PROVE  QueueInv'
<1>1. UNCHANGED <<tasks, jobs, proposals, failed>>
  BY DEF queueVars
<1>2. next_available_index(pl) \in Nat /\ next_available_index(pl)' \in Nat
  BY FirstIndexType DEF LogInv, AppliedIsPrefix
<1>3. \A u : Proposed(u)' = Proposed(u)
  BY <1>1 DEF Proposed
<1>4. QueueTypes' /\ OneIndex'
  BY <1>1 DEF QueueInv, QueueTypes, OneIndex
<1>5. OthersWait' /\ AllTried' /\ FailedOnce'
  BY <1>1 DEF QueueInv, OthersWait, InLine, AllTried, FailedOnce, Proposed
<1>6. NoJob'
  <2> SUFFICES ASSUME Len(tasks) > 0, jobs = {}
               PROVE  /\ Len(proposals) > 0
                      /\ proposals[Len(proposals)].task = tasks[1]
                      /\ proposals[Len(proposals)].index < next_available_index(pl)'
    BY <1>1 DEF NoJob
  <2>1. /\ Len(proposals) > 0
        /\ proposals[Len(proposals)].task = tasks[1]
        /\ proposals[Len(proposals)].index < next_available_index(pl)
    BY DEF QueueInv, NoJob
  <2>2. proposals[Len(proposals)] \in Proposal
    BY <2>1 DEF QueueInv, QueueTypes
  <2>3. proposals[Len(proposals)].index \in Nat
    BY <2>2 DEF Proposal
  <2> QED BY <1>2, <2>1, <2>3
<1>7. JobInFront'
  <2>1. \A job \in jobs : job.index \in Nat /\ job.index <= next_available_index(pl)
    BY DEF QueueInv, QueueTypes, Job, JobInFront
  <2>2. \A job \in jobs : job.index <= next_available_index(pl)'
    BY <1>2, <2>1
  <2> QED BY <1>1, <2>2 DEF QueueInv, JobInFront, Proposed
<1> QED BY <1>4, <1>5, <1>6, <1>7 DEF QueueInv

\* A task that is inserted has not been proposed.
LEMMA TryInsertKeeps ==
    ASSUME LogInv, QueueInv, NEW t \in Task, TryInsert(t)
    PROVE  QueueInv'
<1>1. failed' = failed /\ pl' = pl
  BY DEF TryInsert, vars
<1>2. \A k \in DOMAIN tasks : tasks[k] # t
  BY DEF TryInsert, IsNew
<1>3. Proposed(t) = {}
  BY DEF TryInsert, IsNew, Proposed
<1>4. failed \in Seq(Task) /\ \A j \in DOMAIN failed : failed[j] # t
  <2>1. \A j \in DOMAIN failed : Cardinality(Proposed(failed[j])) = PROPOSAL_RETRIES
    BY DEF QueueInv, AllTried
  <2>2. Cardinality({}) = 0
    BY FS_EmptySet
  <2>3. PROPOSAL_RETRIES # 0
    BY RetriesAssumption
  <2>4. \A j \in DOMAIN failed : failed[j] # t
    BY <1>3, <2>1, <2>2, <2>3, Zenon
  <2> QED BY <2>4 DEF QueueInv, QueueTypes
<1>5. CASE tasks = << >>
  <2>1. jobs = {}
    BY <1>5 DEF QueueInv, JobInFront
  <2>2. run_task(<<t>>, {})
    BY <1>5, <2>1 DEF TryInsert
  <2>3. <<t>> \in Seq(Task) /\ Len(<<t>>) = 1 /\ <<t>>[1] = t
    OBVIOUS
  <2>4. InLine(<<t>>)'
    BY <1>1, <1>4, <2>3 DEF InLine
  <2>5. \A k \in 1..Len(<<t>>) : Proposed(<<t>>[k]) = {}
    BY <1>3, <2>3
  <2>6. /\ \A j \in DOMAIN failed' : Cardinality(Proposed(failed'[j])) = PROPOSAL_RETRIES
        /\ FailedOnce'
    BY <1>1 DEF QueueInv, AllTried, FailedOnce
  <2> QED BY <1>1, <1>4, <2>2, <2>3, <2>4, <2>5, <2>6, RunTaskKeeps
<1>6. CASE tasks # << >>
  <2>1. tasks' = Append(tasks, t) /\ UNCHANGED <<jobs, proposals>>
    BY <1>6 DEF TryInsert
  <2>2. /\ tasks \in Seq(Task) /\ Len(tasks) > 0
        /\ tasks' \in Seq(Task) /\ Len(tasks') = Len(tasks) + 1 /\ Len(tasks) \in Nat
        /\ \A k \in 1..Len(tasks) : tasks'[k] = tasks[k]
        /\ tasks'[Len(tasks) + 1] = t
    BY <1>6, <2>1 DEF QueueInv, QueueTypes
  <2>3. QueueTypes' /\ OneIndex' /\ AllTried' /\ FailedOnce'
    BY <1>1, <2>1, <2>2 DEF QueueInv, QueueTypes, OneIndex, AllTried, FailedOnce, Proposed
  <2>4. JobInFront'
    <3>1. tasks'[1] = tasks[1] /\ Len(tasks') > 0
      BY <2>2
    <3>2. \A u : Proposed(u)' = Proposed(u)
      BY <2>1 DEF Proposed
    <3>3. JobInFront
      BY DEF QueueInv
    <3> QED BY <1>1, <2>1, <3>1, <3>2, <3>3 DEF JobInFront
  <2>5. NoJob'
    BY <1>1, <2>1, <2>2 DEF QueueInv, NoJob
  <2>6. InLine(tasks)'
    BY <1>1, <1>2, <1>4, <2>2 DEF QueueInv, OthersWait, InLine
  <2>7. \A k \in 2..Len(tasks') : Proposed(tasks'[k]) = {}
    <3> SUFFICES ASSUME NEW k \in 2..Len(tasks') PROVE Proposed(tasks'[k]) = {}
      OBVIOUS
    <3>1. CASE k = Len(tasks) + 1
      BY <1>3, <2>2, <3>1
    <3>2. CASE k # Len(tasks) + 1
      <4>1. k \in 2..Len(tasks) /\ tasks'[k] = tasks[k]
        BY <2>2, <3>2
      <4> QED BY <4>1 DEF QueueInv, OthersWait
    <3> QED BY <3>1, <3>2
  <2>8. OthersWait'
    BY <2>1, <2>6, <2>7 DEF OthersWait, Proposed
  <2> QED BY <2>3, <2>4, <2>5, <2>8 DEF QueueInv
<1> QED BY <1>5, <1>6

\* The timer of a job: it ends because it was overtaken, proposes again, or fails.
LEMMA RunJobKeeps ==
    ASSUME LogInv, QueueInv, RunJob
    PROVE  QueueInv'
<1> DEFINE first == next_available_index(pl)
<1>0. pl' = pl /\ first \in Nat
  BY FirstIndexType DEF RunJob, vars
<1>1. PICK job \in jobs : JobOvertaken(job) \/ JobProposes(job) \/ JobFails(job)
  BY DEF RunJob
<1>2. job \in Job /\ jobs = {job} /\ jobs \ {job} = {}
  BY DEF QueueInv, QueueTypes, JobInFront
<1>3. /\ Len(tasks) > 0 /\ job.task = tasks[1] /\ tasks \in Seq(Task)
      /\ job.index <= first /\ job.index \in Nat /\ job.task \in Task
      /\ Len(proposals) > 0 /\ proposals \in Seq(Proposal)
      /\ proposals[Len(proposals)] = [task |-> job.task, index |-> job.index]
      /\ \A k \in Proposed(job.task) : proposals[k].index = job.index
      /\ Cardinality(Proposed(job.task)) = PROPOSAL_RETRIES - job.tries
      /\ job.tries \in 0..(PROPOSAL_RETRIES - 1)
  BY <1>2 DEF QueueInv, QueueTypes, JobInFront, Job
<1>4. CASE JobOvertaken(job)
  <2>1. jobs' = {} /\ UNCHANGED <<tasks, proposals, failed>> /\ job.index < first
    BY <1>2, <1>4 DEF JobOvertaken, IsOvertaken
  <2>2. QueueTypes' /\ JobInFront' /\ OthersWait' /\ OneIndex' /\ AllTried' /\ FailedOnce'
    BY <2>1 DEF QueueInv, QueueTypes, JobInFront, OthersWait, InLine, OneIndex, AllTried,
                FailedOnce, Proposed
  <2>3. NoJob'
    BY <1>0, <1>3, <2>1 DEF NoJob
  <2> QED BY <2>2, <2>3 DEF QueueInv
<1>5. CASE JobProposes(job)
  <2>1. job.index = first /\ job.tries > 0
    BY <1>0, <1>3, <1>5 DEF JobProposes, IsOvertaken, HasTries
  <2>2. PICK t \in Task, i \in Nat, r \in 1..(PROPOSAL_RETRIES - 1) :
            t = job.task /\ i = job.index /\ r = job.tries
    BY <1>3, <2>1
  <2> DEFINE next == [task |-> t, index |-> i, tries |-> r - 1]
  <2>3. /\ jobs' = {next} /\ UNCHANGED <<tasks, failed>>
        /\ proposals' = Append(proposals, [task |-> t, index |-> i])
    BY <1>2, <1>5, <2>1, <2>2 DEF JobProposes, TryAgain
  <2>4. next \in Job /\ next.task = t /\ next.index = i /\ next.tries = r - 1
    BY <2>2, RetriesAssumption DEF Job
  <2> HIDE DEF next
  <2>5. /\ proposals' \in Seq(Proposal)
        /\ Len(proposals') = Len(proposals) + 1 /\ Len(proposals) \in Nat
        /\ \A k \in 1..Len(proposals) : proposals'[k] = proposals[k]
        /\ proposals'[Len(proposals) + 1] = [task |-> t, index |-> i]
        /\ \A u : u # t => Proposed(u)' = Proposed(u)
        /\ Proposed(t)' = Proposed(t) \cup {Len(proposals) + 1}
        /\ Cardinality(Proposed(t)') = Cardinality(Proposed(t)) + 1
    BY <1>3, <2>3, ProposeStep
  <2>6. DOMAIN proposals' = 1..(Len(proposals) + 1) /\ DOMAIN proposals = 1..Len(proposals)
    BY <1>3, <2>5
  <2>7. QueueTypes' /\ NoJob'
    BY <2>3, <2>4, <2>5 DEF QueueInv, QueueTypes, NoJob
  <2>8. JobInFront'
    <3>1. \A k \in Proposed(t) : k \in 1..Len(proposals) /\ proposals[k].index = i
      BY <1>3, <2>2, <2>6 DEF Proposed
    <3>2. \A k \in Proposed(t)' : proposals'[k].index = i
      BY <2>5, <3>1
    <3>3. Cardinality(Proposed(t)') = PROPOSAL_RETRIES - (r - 1)
      BY <1>3, <2>2, <2>5, RetriesAssumption
    <3>4. \A j \in jobs' : j = next
      BY <2>3
    <3>5. /\ Len(tasks') > 0 /\ t = tasks'[1] /\ i <= next_available_index(pl)'
          /\ Len(proposals') > 0
          /\ proposals'[Len(proposals')] = [task |-> t, index |-> i]
      BY <1>0, <1>3, <2>2, <2>3, <2>5
    <3> QED BY <2>4, <3>2, <3>3, <3>4, <3>5 DEF JobInFront
  <2>9. OneIndex'
    <3>1. \A k \in 1..Len(proposals) : proposals[k].task = t =>
              proposals[k] = [task |-> t, index |-> i]
      BY <1>3, <2>2, <2>6 DEF Proposed, QueueInv, OneIndex
    <3> QED BY <2>5, <2>6, <3>1 DEF QueueInv, OneIndex
  <2>10. tasks[1] = t /\ 1 \in 1..Len(tasks) /\ DOMAIN tasks = 1..Len(tasks)
    BY <1>3, <2>2
  <2>11. OthersWait'
    <3>1. \A k \in 2..Len(tasks) : tasks[k] # t /\ Proposed(tasks[k]) = {}
      BY <2>10 DEF QueueInv, OthersWait, InLine
    <3>2. \A k \in 2..Len(tasks) : Proposed(tasks[k])' = {}
      BY <2>3, <2>5, <3>1 DEF Proposed
    <3> QED BY <2>3, <3>2 DEF QueueInv, OthersWait, InLine
  <2>12. AllTried' /\ FailedOnce'
    <3>1. \A j \in DOMAIN failed : failed[j] # t
      BY <2>10 DEF QueueInv, OthersWait, InLine
    <3>2. \A j \in DOMAIN failed : Proposed(failed[j])' = Proposed(failed[j])
      BY <2>3, <2>5, <3>1 DEF Proposed
    <3> QED BY <2>3, <3>2 DEF QueueInv, AllTried, FailedOnce
  <2> QED BY <2>7, <2>8, <2>9, <2>11, <2>12 DEF QueueInv
<1>6. CASE JobFails(job)
  <2>0. job.tries = 0
    BY <1>3, <1>6 DEF JobFails, HasTries
  <2>1. failed' = Append(failed, job.task) /\ run_task(Tail(tasks), {})
    BY <1>2, <1>6, Zenon DEF JobFails
  <2>2. /\ Tail(tasks) \in Seq(Task) /\ Len(Tail(tasks)) = Len(tasks) - 1
        /\ \A k \in 1..(Len(tasks) - 1) : Tail(tasks)[k] = tasks[k + 1]
    BY <1>3
  <2>3. PICK q \in Seq(Task) : q = Tail(tasks)
    BY <2>2
  <2>4. /\ failed' \in Seq(Task) /\ failed \in Seq(Task)
        /\ DOMAIN failed' = 1..(Len(failed) + 1) /\ DOMAIN failed = 1..Len(failed)
        /\ \A j \in 1..Len(failed) : failed'[j] = failed[j]
        /\ failed'[Len(failed) + 1] = job.task
    BY <1>3, <2>1 DEF QueueInv, QueueTypes
  <2>5. \A k \in 1..Len(q) : k + 1 \in 2..Len(tasks) /\ q[k] = tasks[k + 1]
    BY <1>3, <2>2, <2>3
  <2>6. InLine(tasks)
    BY DEF QueueInv, OthersWait
  <2>7. \A k \in 1..Len(q) : q[k] # job.task
    BY <1>3, <2>5, <2>6 DEF InLine
  <2>8. InLine(q)'
    <3>1. \A j, k \in 1..Len(q) : q[j] = q[k] => j = k
      <4> SUFFICES ASSUME NEW j \in 1..Len(q), NEW k \in 1..Len(q), q[j] = q[k] PROVE j = k
        OBVIOUS
      <4>1. j + 1 = k + 1
        BY <1>3, <2>5, <2>6 DEF InLine
      <4> QED BY <4>1
    <3>2. \A j \in 1..Len(failed) : \A k \in 1..Len(q) : failed[j] # q[k]
      <4>1. \A k \in 2..Len(tasks) : k \in 1..Len(tasks)
        BY <1>3
      <4>2. \A j \in 1..Len(failed) : \A k \in 1..Len(tasks) : failed[j] # tasks[k]
        BY <2>4, <2>6 DEF InLine
      <4> QED BY <2>5, <4>1, <4>2
    <3>3. \A j \in DOMAIN failed' : \A k \in 1..Len(q) : failed'[j] # q[k]
      BY <2>4, <2>7, <3>2
    <3> QED BY <3>1, <3>3 DEF InLine
  <2>9. \A k \in 1..Len(q) : Proposed(q[k]) = {}
    BY <2>5 DEF QueueInv, OthersWait
  <2>10. \A j \in DOMAIN failed' : Cardinality(Proposed(failed'[j])) = PROPOSAL_RETRIES
    <3>1. Cardinality(Proposed(job.task)) = PROPOSAL_RETRIES
      BY <1>3, <2>0, RetriesAssumption
    <3>2. \A j \in 1..Len(failed) : Cardinality(Proposed(failed[j])) = PROPOSAL_RETRIES
      BY <2>4 DEF QueueInv, AllTried
    <3> QED BY <2>4, <3>1, <3>2
  <2>11. FailedOnce'
    <3>1. \A j \in 1..Len(failed) : failed[j] # job.task
      BY <1>3, <2>4, <2>6 DEF InLine
    <3>2. \A j, k \in 1..Len(failed) : failed[j] = failed[k] => j = k
      BY <2>4 DEF QueueInv, FailedOnce
    <3> QED BY <2>4, <3>1, <3>2 DEF FailedOnce
  <2> QED BY <1>0, <2>1, <2>3, <2>4, <2>8, <2>9, <2>10, <2>11, RunTaskKeeps
<1> QED BY <1>1, <1>4, <1>5, <1>6

NodeInv == LogInv /\ QueueInv

LEMMA InitNodeInv == NodeInit => NodeInv
BY LogInit, InitQueue DEF NodeInit, NodeInv

LEMMA NextNodeInv == NodeInv /\ [NodeNext]_nodeVars => NodeInv'
<1> SUFFICES ASSUME NodeInv, [NodeNext]_nodeVars PROVE NodeInv'
  OBVIOUS
<1> USE DEF NodeInv
<1>1. LogInv'
  BY NodeStepsLog, LogStep
<1>2. next_available_index(pl) = Len(applied) /\ next_available_index(pl)' = Len(applied')
  BY <1>1 DEF LogInv, AppliedIsPrefix
<1>3. ASSUME NEW i \in Index, NEW e \in Entry, SetEntryAndConfig(i, e)
      PROVE  QueueInv'
  <2>1. SetEntry(i, e) /\ UNCHANGED queueVars
    BY <1>3 DEF SetEntryAndConfig
  <2>2. Len(applied) <= Len(applied')
    BY <2>1, SetEntryStep, FirstIndexType, <1>2 DEF vars
  <2> QED BY <1>1, <1>2, <2>1, <2>2, LogKeepsQueue
<1>4. ASSUME UNCHANGED <<vars, queueVars>> PROVE QueueInv'
  <2>1. next_available_index(pl)' = next_available_index(pl)
    BY <1>4 DEF vars
  <2>2. next_available_index(pl) <= next_available_index(pl)'
    BY <2>1, FirstIndexType
  <2> QED BY <1>1, <1>4, <2>2, LogKeepsQueue
<1>5. ASSUME NEW i \in Index, HandleMessage(i) PROVE QueueInv'
  BY <1>4, <1>5 DEF HandleMessage
<1>6. ASSUME NEW t \in Task, TryInsert(t) PROVE QueueInv'
  BY <1>6, TryInsertKeeps
<1>7. ASSUME RunJob PROVE QueueInv'
  BY <1>7, RunJobKeeps
<1> QED
  BY <1>1, <1>3, <1>4, <1>5, <1>6, <1>7 DEF NodeNext, LearnEntry, SyncEntry, nodeVars

\* At most one try_proposal is scheduled, for the task in front of the queue of
\* ProposerQueue: however long the queue and whichever tasks turn out to be invalid.
THEOREM QueueHasOneJob == NodeSpec => []OneJobForTheFirst
<1>1. QueueInv => OneJobForTheFirst
  <2> SUFFICES ASSUME QueueInv PROVE OneJobForTheFirst
    OBVIOUS
  <2>1. Cardinality(jobs) <= 1
    <3>1. CASE jobs = {}
      BY <3>1, FS_EmptySet
    <3>2. CASE jobs # {}
      <4>1. \A j, k \in jobs : j = k
        BY DEF QueueInv, JobInFront
      <4>2. PICK job : jobs = {job}
        BY <3>2, <4>1
      <4>3. Cardinality(jobs) = 1
        BY <4>2, FS_Singleton
      <4> QED BY <4>3
    <3> QED BY <3>1, <3>2
  <2>2. tasks \in Seq(Task) /\ (Len(tasks) > 0 => tasks # << >> /\ Head(tasks) = tasks[1])
    BY DEF QueueInv, QueueTypes
  <2>3. \A job \in jobs : tasks # << >> /\ job.task = Head(tasks)
    <3>1. \A job \in jobs : Len(tasks) > 0 /\ job.task = tasks[1]
      BY DEF QueueInv, JobInFront
    <3> QED BY <2>2, <3>1
  <2> QED BY <2>1, <2>3 DEF OneJobForTheFirst
<1> QED BY <1>1, InitNodeInv, NextNodeInv, PTL DEF NodeSpec, NodeInv

\* What is left of the representation invariant of ProposerQueue.h, which the code does
\* not keep (QueueInvariant): a queue with tasks has proposed the one in front, and it
\* has no job only if the log has got past the index that was proposed.
StopsOnlyIfOvertaken ==
    tasks # << >> =>
        /\ proposals # << >> /\ Last(proposals).task = Head(tasks)
        /\ jobs = {} => Last(proposals).index < next_available_index(pl)

\* The queue stops in no other way than by try_proposal's return for an overtaken index.
THEOREM QueueStopsOnlyIfOvertaken == NodeSpec => []StopsOnlyIfOvertaken
<1>1. QueueInv => StopsOnlyIfOvertaken
  <2> SUFFICES ASSUME QueueInv, tasks # << >>
               PROVE  /\ proposals # << >> /\ Last(proposals).task = Head(tasks)
                      /\ jobs = {} => Last(proposals).index < next_available_index(pl)
    BY DEF StopsOnlyIfOvertaken
  <2>1. Len(tasks) > 0 /\ Head(tasks) = tasks[1]
    BY DEF QueueInv, QueueTypes
  <2>2. CASE jobs = {}
    BY <2>1, <2>2 DEF QueueInv, QueueTypes, NoJob, Last
  <2>3. CASE jobs # {}
    <3>1. PICK job \in jobs : TRUE
      BY <2>3
    <3>2. /\ job.task = tasks[1] /\ Len(proposals) > 0
          /\ proposals[Len(proposals)] = [task |-> job.task, index |-> job.index]
      BY <3>1 DEF QueueInv, JobInFront
    <3>3. proposals # << >> /\ Last(proposals) = proposals[Len(proposals)]
      BY <3>2 DEF Last
    <3> QED BY <2>1, <2>3, <3>2, <3>3
  <2> QED BY <2>2, <2>3
<1> QED BY <1>1, InitNodeInv, NextNodeInv, PTL DEF NodeSpec, NodeInv

\* However the log moves, try_proposal asks for one index per task, and a task fails
\* after exactly PROPOSAL_RETRIES proposals, and once.
THEOREM TasksAskOnce == NodeSpec => []TriedForOneIndex
<1>1. QueueInv => TriedForOneIndex
  BY DEF QueueInv, OneIndex, AllTried, FailedOnce, Proposed, TriedForOneIndex
<1> QED BY <1>1, InitNodeInv, NextNodeInv, PTL DEF NodeSpec, NodeInv

\* A non-empty set of numbers up to n has a greatest one, which Max returns.
LEMMA GreatestNumber ==
    ASSUME NEW n \in Nat, NEW T \in SUBSET (0..n), T # {}
    PROVE  Max(T) \in T /\ \A y \in T : y <= Max(T)
<1> DEFINE U == {n - x : x \in T}
<1>1. U \in SUBSET Nat /\ U # {}
  OBVIOUS
<1> HIDE DEF U
<1>2. PICK u \in U : \A v \in U : u <= v
  BY <1>1, LeastNumber
<1>3. PICK x \in T : u = n - x
  BY <1>2 DEF U
<1>4. \A y \in T : n - y \in U /\ y \in 0..n
  BY DEF U
<1>5. \A y \in T : x >= y
  BY <1>2, <1>3, <1>4
<1>6. Max(T) \in T /\ \A y \in T : Max(T) >= y
  BY <1>5 DEF Max
<1>7. QED
  BY <1>6

-----------------------------------------------------------------------------
(* The timeline of configurations.                                         *)

Config == [index : Nat, slaves : {FirstSlaves} \cup {NewSlaves[e] : e \in DOMAIN NewSlaves}]
ConfigState == [timeline : Seq(Config), aborted : BOOLEAN]
IsReconfig(call) == call[2] \in DOMAIN NewSlaves

\* Two of the first m calls for ReconfigStarted entries follow each other, or one is the
\* first call.
Adjacent(A, m) == \E k \in 1..m : IsReconfig(A[k]) /\ (k = 1 \/ IsReconfig(A[k - 1]))

\* The timeline has, after the configuration it starts with, those of the ReconfigStarted
\* entries among the first m calls, in ascending order.
Starts(tl) == tl \in Seq(Config) /\ Len(tl) > 0 /\ tl[1] = [index |-> 0, slaves |-> FirstSlaves]
Ascending(tl) == \A j, k \in 1..Len(tl) : j < k => tl[j].index < tl[k].index
Sound(tl, A, m) ==
    \A k \in 2..Len(tl) :
        /\ tl[k].index \in 1..m /\ IsReconfig(A[tl[k].index])
        /\ tl[k].slaves = NewSlaves[A[tl[k].index][2]]
Complete(tl, A, m) ==
    \A j \in 1..m : IsReconfig(A[j]) => \E k \in 2..Len(tl) : tl[k].index = j
Tracks(tl, A, m) == Starts(tl) /\ Ascending(tl) /\ Sound(tl, A, m) /\ Complete(tl, A, m)

\* The calls of the callbacks have the indices of the log, from 0.
Numbered(A, n) == \A k \in 1..n : A[k][1] = k - 1

\* After the first m calls.
After(st, A, m) ==
    /\ st \in ConfigState
    /\ st.aborted <=> Adjacent(A, m)
    /\ ~st.aborted => Tracks(st.timeline, A, m)

\* The last configuration of a timeline starts at m exactly if call m was a
\* ReconfigStarted entry or there was none.
LEMMA LastConfig ==
    ASSUME NEW m \in Nat, NEW A, NEW tl, Tracks(tl, A, m)
    PROVE  /\ Last(tl).index \in 0..m
           /\ \A k \in 1..Len(tl) : tl[k].index \in Nat /\ tl[k].index <= Last(tl).index
           /\ Last(tl).index = m <=> (m = 0 \/ IsReconfig(A[m]))
<1> DEFINE n == Len(tl)
<1>1. n \in Nat /\ n > 0 /\ (\A k \in 1..n : tl[k] \in Config) /\ Last(tl) = tl[n] /\ tl[1].index = 0
  BY DEF Tracks, Starts, Last
<1>2. \A k \in 1..n : tl[k].index \in Nat
  BY <1>1 DEF Config
<1>a. /\ \A j, k \in 1..n : j < k => tl[j].index < tl[k].index
      /\ \A k \in 2..n : tl[k].index \in 1..m /\ IsReconfig(A[tl[k].index])
      /\ \A j \in 1..m : IsReconfig(A[j]) => \E k \in 2..n : tl[k].index = j
  BY DEF Tracks, Ascending, Sound, Complete
<1> HIDE DEF n
<1>3. \A k \in 1..n : tl[k].index <= tl[n].index
  <2> SUFFICES ASSUME NEW k \in 1..n PROVE tl[k].index <= tl[n].index
    OBVIOUS
  <2>1. n \in 1..n /\ (k = n \/ k < n)
    BY <1>1
  <2> QED BY <1>2, <1>a, <2>1
<1>4. tl[n].index \in 0..m
  <2>1. n = 1 \/ n \in 2..n
    BY <1>1
  <2> QED BY <1>1, <1>a, <2>1
<1>5. ASSUME m = 0 \/ IsReconfig(A[m]) PROVE tl[n].index = m
  <2>1. CASE m = 0
    BY <1>4, <2>1
  <2>2. CASE m # 0
    <3>1. m \in 1..m /\ IsReconfig(A[m])
      BY <1>5, <2>2
    <3>2. PICK k \in 2..n : tl[k].index = m
      BY <1>a, <3>1
    <3>3. m <= tl[n].index
      BY <1>3, <3>2
    <3> QED BY <1>4, <3>3
  <2> QED BY <2>1, <2>2
<1>6. ASSUME tl[n].index = m PROVE m = 0 \/ IsReconfig(A[m])
  <2>1. n = 1 \/ n \in 2..n
    BY <1>1
  <2> QED BY <1>1, <1>6, <1>a, <2>1
<1>7. QED
  BY <1>1, <1>2, <1>3, <1>4, <1>5, <1>6 DEF n

\* One call of the callback.
LEMMA ReconfigStep ==
    ASSUME NEW m \in Nat, NEW A, Numbered(A, m + 1), NEW st, After(st, A, m)
    PROVE  After(reconfig(st, A[m + 1]), A, m + 1)
<1> DEFINE call == A[m + 1]
           new == reconfig(st, call)
           tl == st.timeline
<1>1. st \in ConfigState /\ call[1] = m
  BY DEF After, Numbered
<1>2. Adjacent(A, m + 1) <=> Adjacent(A, m) \/ (IsReconfig(call) /\ (m = 0 \/ IsReconfig(A[m])))
  <2>1. \A k : k \in 1..(m + 1) <=> (k \in 1..m \/ k = m + 1)
    OBVIOUS
  <2>2. m + 1 - 1 = m /\ (m + 1 = 1 <=> m = 0)
    OBVIOUS
  <2> QED BY <2>1, <2>2 DEF Adjacent
<1> HIDE DEF call
<1>3. CASE st.aborted
  <2>1. new = st
    BY <1>3 DEF reconfig
  <2>2. Adjacent(A, m + 1)
    BY <1>2, <1>3 DEF After
  <2> QED BY <1>1, <1>3, <2>1, <2>2 DEF After, call
<1>4. CASE ~st.aborted /\ ~IsReconfig(call)
  <2>1. new = st
    BY <1>4 DEF reconfig, IsReconfig
  <2>2. ~Adjacent(A, m + 1) /\ Tracks(tl, A, m)
    BY <1>2, <1>4 DEF After
  <2>3. Tracks(tl, A, m + 1)
    <3>1. Sound(tl, A, m + 1)
      BY <2>2 DEF Tracks, Sound
    <3>2. Complete(tl, A, m + 1)
      <4>1. \A k : k \in 1..(m + 1) <=> (k \in 1..m \/ k = m + 1)
        OBVIOUS
      <4> QED BY <1>4, <2>2, <4>1 DEF Tracks, Complete, call
    <3> QED BY <2>2, <3>1, <3>2 DEF Tracks
  <2> QED BY <1>1, <1>4, <2>1, <2>2, <2>3 DEF After, call
<1>5. CASE ~st.aborted /\ IsReconfig(call)
  <2>1. Tracks(tl, A, m) /\ ~Adjacent(A, m)
    BY <1>5 DEF After
  <2>2. /\ Last(tl).index \in 0..m
        /\ \A k \in 1..Len(tl) : tl[k].index \in Nat /\ tl[k].index <= Last(tl).index
        /\ Last(tl).index = m <=> (m = 0 \/ IsReconfig(A[m]))
    BY <2>1, LastConfig
  <2>3. IsAscending(tl, m) <=> ~(m = 0 \/ IsReconfig(A[m]))
    BY <2>2 DEF IsAscending
  <2>4. CASE ~IsAscending(tl, m)
    <3>1. new = [st EXCEPT !.aborted = TRUE]
      BY <1>1, <1>5, <2>4 DEF reconfig, IsReconfig
    <3>2. new \in ConfigState /\ new.aborted
      BY <1>1, <3>1 DEF ConfigState
    <3>3. Adjacent(A, m + 1)
      BY <1>2, <1>5, <2>3, <2>4
    <3> QED BY <3>2, <3>3 DEF After, call
  <2>5. CASE IsAscending(tl, m)
    <3> DEFINE c == [index |-> m + 1, slaves |-> NewSlaves[call[2]]]
               tl2 == Append(tl, c)
               n == Len(tl)
    <3>1. new = [st EXCEPT !.timeline = tl2]
      BY <1>1, <1>5, <2>5 DEF reconfig, IsReconfig, Effective
    <3>2. c \in Config /\ c.index = m + 1 /\ c.slaves = NewSlaves[call[2]]
      BY <1>5 DEF Config, IsReconfig
    <3> HIDE DEF c
    <3>3. tl \in Seq(Config) /\ n \in Nat /\ n > 0
      BY <1>1, <2>1 DEF ConfigState, Tracks, Starts
    <3> HIDE DEF tl
    <3>4. /\ tl2 \in Seq(Config) /\ Len(tl2) = n + 1 /\ tl2[n + 1] = c
          /\ \A k \in 1..n : tl2[k] = tl[k]
      BY <3>2, <3>3
    <3>5. /\ new \in ConfigState /\ ~new.aborted /\ new.timeline = tl2
      BY <1>1, <1>5, <3>1, <3>4 DEF ConfigState
    <3> HIDE DEF tl2
    <3>6. ~Adjacent(A, m + 1)
      BY <1>2, <2>1, <2>3, <2>5
    <3>7. \A k : k \in 1..(n + 1) <=> (k \in 1..n \/ k = n + 1)
      BY <3>3
    <3>8. \A k : k \in 2..(n + 1) <=> (k \in 2..n \/ k = n + 1)
      BY <3>3
    <3>8a. \A k \in 2..n : k \in 1..n
      BY <3>3
    <3>9. Starts(tl2)
      BY <2>1, <3>3, <3>4 DEF Tracks, Starts
    <3>10. Ascending(tl2)
      <4> SUFFICES ASSUME NEW j \in 1..(n + 1), NEW k \in 1..(n + 1), j < k
                   PROVE  tl2[j].index < tl2[k].index
        BY <3>4 DEF Ascending
      <4>1. j \in 1..n /\ tl2[j] = tl[j] /\ tl[j].index \in Nat /\ tl[j].index <= m
        BY <2>2, <3>3, <3>4
      <4>2. CASE k = n + 1
        BY <3>2, <3>4, <4>1, <4>2
      <4>3. CASE k # n + 1
        BY <2>1, <3>3, <3>4, <4>1, <4>3 DEF Tracks, Ascending
      <4> QED BY <4>2, <4>3
    <3>11. Sound(tl2, A, m + 1)
      <4> SUFFICES ASSUME NEW k \in 2..(n + 1)
                   PROVE  /\ tl2[k].index \in 1..(m + 1) /\ IsReconfig(A[tl2[k].index])
                          /\ tl2[k].slaves = NewSlaves[A[tl2[k].index][2]]
        BY <3>4 DEF Sound
      <4>1. CASE k = n + 1
        <5>1. tl2[k].index = m + 1 /\ A[m + 1] = call /\ m + 1 \in 1..(m + 1)
          BY <3>2, <3>4, <4>1 DEF call
        <5> QED BY <1>5, <3>2, <3>4, <4>1, <5>1
      <4>2. CASE k \in 2..n
        BY <2>1, <3>4, <3>8a, <4>2 DEF Tracks, Sound
      <4> QED BY <3>8, <4>1, <4>2
    <3>12. Complete(tl2, A, m + 1)
      <4> SUFFICES ASSUME NEW j \in 1..(m + 1), IsReconfig(A[j])
                   PROVE  \E k \in 2..(n + 1) : tl2[k].index = j
        BY <3>4 DEF Complete
      <4>1. CASE j = m + 1
        <5>1. n + 1 \in 2..(n + 1) /\ tl2[n + 1].index = j
          BY <3>2, <3>3, <3>4, <4>1
        <5> QED BY <5>1
      <4>2. CASE j # m + 1
        <5>1. j \in 1..m
          BY <4>2
        <5>2. PICK k \in 2..n : tl[k].index = j
          BY <2>1, <5>1 DEF Tracks, Complete
        <5> QED BY <3>4, <3>8, <3>8a, <5>2
      <4> QED BY <4>1, <4>2
    <3>13. Tracks(tl2, A, m + 1)
      BY <3>9, <3>10, <3>11, <3>12 DEF Tracks
    <3> QED BY <3>5, <3>6, <3>13 DEF After, call
  <2> QED BY <2>4, <2>5
<1>6. QED
  BY <1>3, <1>4, <1>5

-----------------------------------------------------------------------------
(* The loop over the callbacks.                                            *)

ConfigIteration(f, timeline, calls) ==
    [k \in 0..Len(calls) |-> IF k = 0 THEN [timeline |-> timeline, aborted |-> FALSE]
                             ELSE reconfig(f[k - 1], calls[k])]

\* The callback keeps the types.
LEMMA ReconfigType ==
    ASSUME NEW st \in ConfigState, NEW call \in Nat \X Entry
    PROVE  reconfig(st, call) \in ConfigState
<1>1. st.timeline \in Seq(Config) /\ st.aborted \in BOOLEAN /\ call[1] \in Nat
  BY DEF ConfigState
<1>2. CASE st.aborted \/ call[2] \notin DOMAIN NewSlaves
  BY <1>2 DEF reconfig
<1>3. CASE ~st.aborted /\ call[2] \in DOMAIN NewSlaves /\ ~IsAscending(st.timeline, call[1])
  <2>1. reconfig(st, call) = [st EXCEPT !.aborted = TRUE]
    BY <1>3 DEF reconfig
  <2> QED BY <1>1, <2>1 DEF ConfigState
<1>4. CASE ~st.aborted /\ call[2] \in DOMAIN NewSlaves /\ IsAscending(st.timeline, call[1])
  <2> DEFINE c == [index |-> Effective(call[1]), slaves |-> NewSlaves[call[2]]]
  <2>1. c \in Config
    BY <1>1, <1>4 DEF Config, Effective
  <2> HIDE DEF c
  <2>2. Append(st.timeline, c) \in Seq(Config)
    BY <1>1, <2>1
  <2>3. reconfig(st, call) = [st EXCEPT !.timeline = Append(st.timeline, c)]
    BY <1>4 DEF reconfig, c
  <2> QED BY <1>1, <2>2, <2>3 DEF ConfigState
<1>5. QED
  BY <1>2, <1>3, <1>4

\* The function that reconfigs chooses exists.
LEMMA ConfigIterationExists ==
    ASSUME NEW timeline \in Seq(Config), NEW calls \in Seq(Nat \X Entry)
    PROVE  \E f : f = ConfigIteration(f, timeline, calls)
<1> DEFINE n == Len(calls)
           base == [timeline |-> timeline, aborted |-> FALSE]
           g == [k \in 1..n |-> [st \in ConfigState |-> reconfig(st, calls[k])]]
<1>1. n \in Nat /\ base \in ConfigState /\ \A k \in 1..n : calls[k] \in Nat \X Entry
  BY DEF ConfigState
<1>2. g \in Steps(ConfigState, n)
  <2>1. \A k \in 1..n, st \in ConfigState : reconfig(st, calls[k]) \in ConfigState
    BY <1>1, ReconfigType
  <2> QED BY <2>1 DEF Steps
<1>3. \A st \in ConfigState, k \in 1..n : g[k][st] = reconfig(st, calls[k])
  OBVIOUS
<1> HIDE DEF g, n, base
<1>4. PICK f \in [0..n -> ConfigState] : f[0] = base /\ \A k \in 1..n : f[k] = g[k][f[k - 1]]
  <2>1. n \in Nat /\ base \in ConfigState
    BY <1>1
  <2>2. \E f : Solution(f, ConfigState, base, n, g)
    BY <1>2, <2>1, Recursion
  <2> QED BY <2>2 DEF Solution
<1> USE DEF n
<1> DEFINE h == ConfigIteration(f, timeline, calls)
<1>5. \A k \in 0..n : f[k] = h[k]
  <2> SUFFICES ASSUME NEW k \in 0..n PROVE f[k] = h[k]
    OBVIOUS
  <2>1. CASE k = 0
    BY <2>1, <1>4 DEF ConfigIteration, base
  <2>2. CASE k # 0
    <3>1. k \in 1..n /\ k - 1 \in 0..n
      BY <2>2, <1>1
    <3>2. f[k] = reconfig(f[k - 1], calls[k])
      BY <1>3, <1>4, <3>1
    <3>3. QED
      BY <2>2, <3>2 DEF ConfigIteration
  <2>3. QED
    BY <2>1, <2>2
<1>6. h = [k \in 0..n |-> h[k]]
  BY DEF ConfigIteration
<1> HIDE DEF h
<1>7. f = h
  BY <1>4, <1>5, <1>6
<1>8. QED
  BY <1>7 DEF h

\* The callbacks for the calls after the first m.
LEMMA ReconfigsStep ==
    ASSUME NEW m \in Nat, NEW A, NEW timeline \in Seq(Config), NEW calls \in Seq(Nat \X Entry),
           Numbered(A, m + Len(calls)), \A k \in 1..Len(calls) : calls[k] = A[m + k],
           After([timeline |-> timeline, aborted |-> FALSE], A, m)
    PROVE  After(reconfigs(timeline, calls), A, m + Len(calls))
<1> DEFINE F == CHOOSE f : f = ConfigIteration(f, timeline, calls)
           n == Len(calls)
<1>1. F = ConfigIteration(F, timeline, calls)
  BY ConfigIterationExists
<1>2. reconfigs(timeline, calls) = F[Len(calls)]
  BY Zenon DEF reconfigs, ConfigIteration
<1> HIDE DEF F
<1>3. n \in Nat
  OBVIOUS
<1>4. F[0] = [timeline |-> timeline, aborted |-> FALSE]
  BY <1>1, <1>3 DEF ConfigIteration
<1>5. \A k \in 1..n : F[k] = reconfig(F[k - 1], calls[k])
  <2>1. \A k \in 1..n : ConfigIteration(F, timeline, calls)[k] = reconfig(F[k - 1], calls[k])
    BY DEF ConfigIteration
  <2> QED BY <1>1, <2>1
<1>n. Numbered(A, m + n) /\ \A k \in 1..n : calls[k] = A[m + k]
  OBVIOUS
<1> HIDE DEF n
<1> DEFINE G == {k \in 0..n : After(F[k], A, m + k)}
<1>6. 0 \in G
  BY <1>3, <1>4
<1>7. ASSUME NEW k \in 1..n, k - 1 \in G PROVE k \in G
  <2>1. m + (k - 1) \in Nat /\ m + (k - 1) + 1 = m + k /\ k \in 0..n
    BY <1>3
  <2>2. After(F[k - 1], A, m + (k - 1))
    BY <1>7
  <2>3. Numbered(A, m + k)
    BY <1>3, <1>n DEF Numbered
  <2>4. F[k] = reconfig(F[k - 1], A[m + k])
    BY <1>5, <1>n
  <2>5. After(reconfig(F[k - 1], A[m + (k - 1) + 1]), A, m + (k - 1) + 1)
    <3> DEFINE j == m + (k - 1)
    <3>1. j \in Nat /\ Numbered(A, j + 1) /\ After(F[k - 1], A, j)
      BY <2>1, <2>2, <2>3
    <3> HIDE DEF j
    <3>2. After(reconfig(F[k - 1], A[j + 1]), A, j + 1)
      BY <3>1, ReconfigStep
    <3> QED BY <3>2 DEF j
  <2> QED BY <2>1, <2>4, <2>5
<1> HIDE DEF G
<1>8. n \in G
  <2>1. \A k \in 0..n : k \in G
    BY <1>3, <1>6, <1>7, Induction
  <2> QED BY <1>3, <2>1
<1>9. QED
  BY <1>2, <1>8 DEF G, n

-----------------------------------------------------------------------------
(* The configurations of the node.                                         *)

\* An instance that was made when all entries before it had been applied.
InstancesFollow ==
    \A i \in DOMAIN paxos_instances : paxos_instances[i].current =>
        i \in 0..next_available_index(pl) /\ paxos_instances[i].slaves = Prescribed(i)

TimelineFollows ==
    After([timeline |-> config_timeline, aborted |-> aborted], applied, Len(applied))

ConfigInv == TimelineFollows /\ InstancesFollow

\* What was applied are the entries of the log before its first hole.
LEMMA AppliedFacts ==
    ASSUME LogInv
    PROVE  /\ next_available_index(pl) \in Nat /\ Len(applied) = next_available_index(pl)
           /\ \A k \in 0..(next_available_index(pl) - 1) :
                  k \in DOMAIN pl.log /\ applied[k + 1] = <<k, pl.log[k]>>
           /\ Numbered(applied, Len(applied))
<1>1. /\ next_available_index(pl) \in Nat /\ Len(applied) = next_available_index(pl)
      /\ \A k \in 1..Len(applied) : k - 1 \in DOMAIN pl.log /\ applied[k] = <<k - 1, pl.log[k - 1]>>
  BY FirstIndexType DEF LogInv, AppliedIsPrefix
<1>2. ASSUME NEW k \in 0..(next_available_index(pl) - 1)
      PROVE  k \in DOMAIN pl.log /\ applied[k + 1] = <<k, pl.log[k]>>
  <2>1. k + 1 \in 1..Len(applied) /\ k + 1 - 1 = k
    BY <1>1
  <2> QED BY <1>1, <2>1
<1>3. Numbered(applied, Len(applied))
  BY <1>1 DEF Numbered
<1>4. QED
  BY <1>1, <1>2, <1>3

\* A timeline that tracks what was applied gives every index up to the first hole the
\* configuration that the log prescribes.
LEMMA ConfigIsPrescribed ==
    ASSUME LogInv, Tracks(config_timeline, applied, Len(applied)), NEW i \in 0..next_available_index(pl)
    PROVE  config(config_timeline, i) = Prescribed(i)
<1> DEFINE tl == config_timeline
           n == Len(tl)
           m == next_available_index(pl)
           T == {k \in DOMAIN tl : tl[k].index <= i}
           B == {b \in DOMAIN pl.log : b < i /\ pl.log[b] \in DOMAIN NewSlaves}
           K == Max(T)
<1>1. /\ m \in Nat /\ Len(applied) = m
      /\ \A k \in 0..(m - 1) : k \in DOMAIN pl.log /\ applied[k + 1] = <<k, pl.log[k]>>
  BY AppliedFacts
<1>2. /\ n \in Nat /\ n > 0 /\ DOMAIN tl = 1..n /\ (\A k \in 1..n : tl[k].index \in Nat)
      /\ tl[1].index = 0 /\ tl[1].slaves = FirstSlaves
      /\ \A j, k \in 1..n : j < k => tl[j].index < tl[k].index
  <2>1. tl \in Seq(Config) /\ n > 0 /\ tl[1] = [index |-> 0, slaves |-> FirstSlaves]
    BY DEF Tracks, Starts
  <2>2. \A j, k \in 1..n : j < k => tl[j].index < tl[k].index
    BY DEF Tracks, Ascending
  <2>3. n \in Nat /\ DOMAIN tl = 1..n /\ \A k \in 1..n : tl[k] \in Config
    BY <2>1
  <2>4. \A k \in 1..n : tl[k].index \in Nat
    BY <2>3 DEF Config
  <2> HIDE DEF tl, n
  <2> QED BY <2>1, <2>2, <2>3, <2>4
<1>3. \A k \in 2..n : /\ tl[k].index \in 1..m /\ IsReconfig(applied[tl[k].index])
                      /\ tl[k].slaves = NewSlaves[applied[tl[k].index][2]]
  BY <1>1 DEF Tracks, Sound
<1>4. \A j \in 1..m : IsReconfig(applied[j]) => \E k \in 2..n : tl[k].index = j
  BY <1>1 DEF Tracks, Complete
<1>b. \A b \in DOMAIN pl.log : b \in Nat
  BY MaxIndexAssumption DEF LogInv, Index
<1>5. config(tl, i) = tl[K].slaves
  BY DEF config
<1>6. Prescribed(i) = IF B = {} THEN FirstSlaves ELSE NewSlaves[pl.log[Max(B)]]
  BY DEF Prescribed
<1> HIDE DEF m, tl, n
<1>i. i \in Nat /\ i <= m
  BY <1>1 DEF m
<1>7. K \in T /\ \A k \in T : k <= K
  <2>1. T \in SUBSET (0..n) /\ T # {}
    BY <1>2, <1>i
  <2> HIDE DEF T
  <2> QED BY <1>2, <2>1, GreatestNumber
<1>8. K \in 1..n /\ tl[K].index <= i /\ \A k \in 1..n : tl[k].index <= i => k <= K
  BY <1>2, <1>7
<1>9. ASSUME NEW b \in B PROVE b \in Nat /\ b < i /\ \E k \in 2..n : tl[k].index = b + 1 /\ k <= K
  <2>1. b \in Nat /\ b < i /\ b \in 0..(m - 1) /\ b + 1 \in 1..m /\ pl.log[b] \in DOMAIN NewSlaves
    BY <1>1, <1>b, <1>i
  <2>2. IsReconfig(applied[b + 1])
    BY <1>1, <2>1 DEF IsReconfig
  <2>3. PICK k \in 2..n : tl[k].index = b + 1
    BY <1>4, <2>1, <2>2
  <2>4. k \in 1..n /\ tl[k].index <= i
    BY <1>2, <1>i, <2>1, <2>3
  <2> QED BY <1>8, <2>1, <2>3, <2>4
<1> HIDE DEF K, T
<1>10. CASE K = 1
  <2>1. B = {}
    <3> SUFFICES ASSUME NEW b \in B PROVE FALSE
      OBVIOUS
    <3> HIDE DEF B
    <3> QED BY <1>2, <1>9, <1>10
  <2> QED BY <1>2, <1>5, <1>6, <1>10, <2>1 DEF tl
<1>11. CASE K # 1
  <2> DEFINE j == tl[K].index
             b == j - 1
  <2>1. K \in 2..n
    BY <1>2, <1>8, <1>11
  <2>2. j \in 1..m /\ IsReconfig(applied[j]) /\ tl[K].slaves = NewSlaves[applied[j][2]] /\ j <= i
    BY <1>3, <1>8, <2>1
  <2> HIDE DEF j
  <2>3. b \in 0..(m - 1) /\ b + 1 = j /\ b < i
    BY <1>1, <1>i, <2>2
  <2>4. b \in DOMAIN pl.log /\ applied[j][2] = pl.log[b]
    BY <1>1, <2>3
  <2>5. b \in B
    BY <2>2, <2>3, <2>4 DEF IsReconfig
  <2> HIDE DEF b
  <2>6. \A c \in B : c <= b
    <3> SUFFICES ASSUME NEW c \in B PROVE c <= b
      OBVIOUS
    <3> HIDE DEF B
    <3>1. PICK k \in 2..n : tl[k].index = c + 1 /\ k <= K /\ c \in Nat
      BY <1>9
    <3>2. k \in 1..n /\ (k = K \/ k < K)
      BY <1>2, <1>8, <3>1
    <3>3. c + 1 <= j
      BY <1>2, <1>8, <3>1, <3>2 DEF j
    <3> QED BY <2>2, <3>1, <3>3 DEF b
  <2>7. B \in SUBSET (0..i) /\ B # {}
    BY <1>9, <1>i, <2>5
  <2> HIDE DEF B
  <2>8. Max(B) \in B /\ \A c \in B : c <= Max(B)
    BY <1>i, <2>7, GreatestNumber
  <2>9. b <= Max(B) /\ Max(B) <= b /\ Max(B) \in 0..i
    BY <2>5, <2>6, <2>7, <2>8
  <2>10. b \in 0..i
    BY <2>5, <2>7
  <2>11. Max(B) = b
    BY <2>9, <2>10
  <2> QED BY <1>5, <1>6, <2>2, <2>4, <2>7, <2>11 DEF tl
<1>12. QED
  BY <1>10, <1>11

\* What the log prescribes up to its first hole is settled.
LEMMA PrescribedKept ==
    ASSUME LogInv, NEW a \in Index, NEW e \in Entry, SetEntry(a, e), NEW i \in 0..next_available_index(pl)
    PROVE  Prescribed(i)' = Prescribed(i)
<1> DEFINE B(log) == {b \in DOMAIN log : b < i /\ log[b] \in DOMAIN NewSlaves}
           P(log) == IF B(log) = {} THEN FirstSlaves ELSE NewSlaves[log[Max(B(log))]]
           m == next_available_index(pl)
<1>1. Prescribed(i) = P(pl.log) /\ Prescribed(i)' = P(pl'.log)
  BY DEF Prescribed
<1>2. CASE pl' = pl
  BY <1>1, <1>2
<1>3. CASE a \notin DOMAIN pl.log /\ pl'.log = insert(pl.log, a, e)
  <2>1. m \in Nat /\ (\A k \in 0..(m - 1) : k \in DOMAIN pl.log) /\ a \in Nat
    BY AppliedFacts, MaxIndexAssumption DEF Index
  <2>2. DOMAIN pl'.log = DOMAIN pl.log \cup {a} /\ \A b \in DOMAIN pl.log : pl'.log[b] = pl.log[b]
    BY <1>3 DEF insert
  <2>3. ~(a < i)
    BY <1>3, <2>1
  <2>4. B(pl'.log) = B(pl.log)
    BY <2>2, <2>3
  <2>5. CASE B(pl.log) = {}
    BY <1>1, <2>4, <2>5
  <2>6. CASE B(pl.log) # {}
    <3>1. B(pl.log) \in SUBSET (0..i)
      BY MaxIndexAssumption DEF LogInv, Index
    <3>2. i \in Nat
      BY <2>1
    <3> DEFINE S == B(pl.log)
    <3> HIDE DEF S
    <3>3. Max(S) \in S
      BY <2>6, <3>1, <3>2, GreatestNumber DEF S
    <3>4. Max(S) \in DOMAIN pl.log
      BY <3>3 DEF S
    <3>5. pl'.log[Max(S)] = pl.log[Max(S)]
      BY <2>2, <3>4
    <3> QED BY <1>1, <2>4, <2>6, <3>5 DEF S
  <2> QED BY <2>5, <2>6
<1>4. QED
  BY <1>2, <1>3, SetEntryStep DEF vars

\* A node starts with one configuration.
LEMMA InitConfig == NodeInit => ConfigInv
<1> SUFFICES ASSUME NodeInit PROVE ConfigInv
  OBVIOUS
<1> DEFINE c == [index |-> 0, slaves |-> FirstSlaves]
           tl == <<c>>
<1>1. config_timeline = tl /\ aborted = FALSE /\ applied = << >> /\ Len(applied) = 0
  BY DEF NodeInit, Init
<1>2. c \in Config
  BY DEF Config
<1> HIDE DEF c
<1>3. tl \in Seq(Config) /\ Len(tl) = 1 /\ tl[1] = c
  BY <1>2
<1> HIDE DEF tl
<1>4. Tracks(tl, applied, 0)
  BY <1>3 DEF Tracks, Starts, Ascending, Sound, Complete, c
<1>5. ~Adjacent(applied, 0)
  BY DEF Adjacent
<1>6. [timeline |-> tl, aborted |-> FALSE] \in ConfigState
  BY <1>3 DEF ConfigState
<1>7. TimelineFollows
  BY <1>1, <1>4, <1>5, <1>6 DEF TimelineFollows, After
<1>8. InstancesFollow
  BY DEF NodeInit, InstancesFollow
<1>9. QED
  BY <1>7, <1>8 DEF ConfigInv

\* A new instance gets the configuration of the timeline.
LEMMA GetInstanceKeeps ==
    ASSUME LogInv, ConfigInv, ~aborted, NEW index \in Nat, NEW i \in DOMAIN get_instance(paxos_instances, index),
           get_instance(paxos_instances, index)[i].current
    PROVE  /\ i \in 0..next_available_index(pl)
           /\ get_instance(paxos_instances, index)[i].slaves = Prescribed(i)
<1> DEFINE P == get_instance(paxos_instances, index)
<1>1. Tracks(config_timeline, applied, Len(applied))
  BY DEF ConfigInv, TimelineFollows, After
<1>2. CASE index \in DOMAIN paxos_instances
  BY <1>2 DEF get_instance, ConfigInv, InstancesFollow
<1>3. CASE index \notin DOMAIN paxos_instances
  <2>1. P = [j \in DOMAIN paxos_instances \cup {index} |->
                IF j = index THEN instance_provider(index) ELSE paxos_instances[j]]
    BY <1>3 DEF get_instance
  <2>2. CASE i = index
    <3>1. P[i] = instance_provider(index)
      BY <2>1, <2>2
    <3>2. /\ instance_provider(index).current = (index <= next_available_index(pl))
          /\ instance_provider(index).slaves = config(config_timeline, index)
      BY DEF instance_provider
    <3>3. index <= next_available_index(pl)
      BY <3>1, <3>2
    <3>4. i \in 0..next_available_index(pl)
      BY <2>2, <3>3, AppliedFacts
    <3> QED BY <1>1, <2>2, <3>1, <3>2, <3>4, ConfigIsPrescribed
  <2>3. CASE i # index
    <3>1. i \in DOMAIN paxos_instances /\ P[i] = paxos_instances[i]
      BY <2>1, <2>3
    <3> QED BY <3>1 DEF ConfigInv, InstancesFollow
  <2> QED BY <2>2, <2>3
<1>4. QED
  BY <1>2, <1>3

\* set_entry applies entries to the timeline.
LEMMA SetEntryKeepsTimeline ==
    ASSUME LogInv, LogInv', TimelineFollows, NEW i \in Index, NEW e \in Entry, SetEntryAndConfig(i, e)
    PROVE  TimelineFollows' /\ next_available_index(pl) <= next_available_index(pl)'
<1> DEFINE m == Len(applied)
           n == Len(applied') - Len(applied)
           c == callbacks(pl, pl')
           S == Nat \X Entry
<1>1. /\ ~aborted /\ SetEntry(i, e)
      /\ config_timeline' = reconfigs(config_timeline, c).timeline
      /\ aborted' = reconfigs(config_timeline, c).aborted
  BY DEF SetEntryAndConfig
<1>2. /\ next_available_index(pl) \in Nat /\ m = next_available_index(pl)
      /\ next_available_index(pl') \in Nat /\ Len(applied') = next_available_index(pl')
  BY AppliedFacts DEF LogInv, AppliedIsPrefix
<1>3. m <= Len(applied') /\ \A k \in 1..m : applied'[k] = applied[k]
  BY <1>1, <1>2, SetEntryStep DEF vars
<1>4. \A k \in 1..Len(applied') : applied'[k] = <<k - 1, pl'.log[k - 1]>> /\ applied'[k] \in S
  <2>1. applied' \in Seq(Index \X Entry)
    BY DEF LogInv
  <2>2. \A k \in 1..Len(applied') : applied'[k] \in Index \X Entry
    BY <2>1
  <2>3. \A x \in Index \X Entry : x \in S
    BY MaxIndexAssumption DEF Index
  <2>4. \A k \in 1..Len(applied') : applied'[k] = <<k - 1, pl'.log[k - 1]>>
    BY DEF LogInv, AppliedIsPrefix
  <2> QED BY <2>2, <2>3, <2>4
<1>5. \A k \in m..(Len(applied') - 1) : <<k, pl'.log[k]>> \in S
  <2> SUFFICES ASSUME NEW k \in m..(Len(applied') - 1) PROVE <<k, pl'.log[k]>> \in S
    OBVIOUS
  <2>1. PICK j \in 1..Len(applied') : j - 1 = k
    <3>1. k + 1 \in 1..Len(applied') /\ k + 1 - 1 = k
      BY <1>2
    <3> QED BY <3>1
  <2> HIDE DEF S
  <2>2. applied'[j] = <<j - 1, pl'.log[j - 1]>> /\ applied'[j] \in S
    BY <1>4
  <2> QED BY <2>1, <2>2
<1>6. /\ c \in Seq(S) /\ Len(c) = n
      /\ \A k \in 1..n : c[k] = <<m + k - 1, pl'.log[m + k - 1]>>
  <2> DEFINE f == Len(applied)
             g == Len(applied')
  <2>1. Advances(pl, pl', f, g)
    BY <1>2, <1>3 DEF Advances
  <2>2. EntriesIn(pl'.log, f, g, S)
    BY <1>5 DEF EntriesIn
  <2> HIDE DEF S, f, g
  <2>3. CallsFor(callbacks(pl, pl'), pl'.log, f, g, S)
    BY <2>1, <2>2, CallbackFacts
  <2> QED BY <2>3 DEF f, g, CallsFor
<1>7. m \in Nat /\ n \in Nat /\ m + n = Len(applied')
  BY <1>2, <1>3
<1>8. \A k \in 1..n : c[k] = applied'[m + k]
  <2> SUFFICES ASSUME NEW k \in 1..n PROVE c[k] = applied'[m + k]
    OBVIOUS
  <2> HIDE DEF c, n, m
  <2>1. PICK j \in 1..Len(applied') : j = m + k /\ j - 1 = m + k - 1
    <3>1. m + k \in 1..Len(applied')
      BY <1>7
    <3> QED BY <1>7, <3>1
  <2> HIDE DEF S
  <2>2. applied'[j] = <<j - 1, pl'.log[j - 1]>>
    BY <1>4
  <2>3. c[k] = <<m + k - 1, pl'.log[m + k - 1]>>
    BY <1>6
  <2> QED BY <2>1, <2>2, <2>3
<1> HIDE DEF c, S
<1>9. Numbered(applied', m + n)
  BY <1>4, <1>7 DEF Numbered
<1> HIDE DEF n, m
<1> DEFINE base == [timeline |-> config_timeline, aborted |-> FALSE]
<1>10. config_timeline \in Seq(Config) /\ Tracks(config_timeline, applied, m) /\ ~Adjacent(applied, m)
  BY <1>1 DEF TimelineFollows, After, Tracks, Starts, m
<1>11. After(base, applied', m)
  <2>1. base \in ConfigState /\ ~base.aborted /\ base.timeline = config_timeline
    BY <1>10 DEF ConfigState
  <2>2. ~Adjacent(applied', m)
    BY <1>3, <1>7, <1>10 DEF Adjacent
  <2>3. Tracks(config_timeline, applied', m)
    BY <1>3, <1>10 DEF Tracks, Sound, Complete
  <2> QED BY <2>1, <2>2, <2>3 DEF After
<1> DEFINE st == reconfigs(config_timeline, c)
<1>12. After(st, applied', m + n)
  <2> DEFINE A == applied'
             tl == config_timeline
  <2>1. m \in Nat /\ tl \in Seq(Config) /\ c \in Seq(Nat \X Entry) /\ n = Len(c)
    BY <1>6, <1>7, <1>10 DEF S
  <2>2. Numbered(A, m + Len(c)) /\ (\A k \in 1..Len(c) : c[k] = A[m + k]) /\ After([timeline |-> tl, aborted |-> FALSE], A, m)
    BY <1>8, <1>9, <1>11, <2>1
  <2> HIDE DEF A, tl
  <2>3. After(reconfigs(tl, c), A, m + Len(c))
    BY <2>1, <2>2, ReconfigsStep
  <2> QED BY <2>1, <2>3 DEF A, tl
<1> HIDE DEF st
<1>13. [timeline |-> config_timeline', aborted |-> aborted'] = st
  <2>1. st \in ConfigState /\ config_timeline' = st.timeline /\ aborted' = st.aborted
    BY <1>1, <1>12 DEF After, st
  <2> QED BY <2>1 DEF ConfigState
<1>14. TimelineFollows'
  BY <1>7, <1>12, <1>13 DEF TimelineFollows
<1>15. QED
  BY <1>2, <1>3, <1>14 DEF m

\* The other actions leave the log and the timeline alone and make at most one instance.
LEMMA InstanceStep ==
    ASSUME LogInv, ConfigInv, ~aborted, UNCHANGED <<vars, config_timeline, aborted>>, NEW index \in Nat,
           paxos_instances' = paxos_instances \/ paxos_instances' = get_instance(paxos_instances, index)
    PROVE  ConfigInv'
<1>1. UNCHANGED <<pl, applied, config_timeline, aborted>>
  BY DEF vars
<1>2. TimelineFollows'
  BY <1>1 DEF ConfigInv, TimelineFollows
<1>3. \A i : Prescribed(i)' = Prescribed(i)
  BY <1>1 DEF Prescribed
<1>4. ASSUME NEW i \in DOMAIN paxos_instances', paxos_instances'[i].current
      PROVE  i \in 0..next_available_index(pl) /\ paxos_instances'[i].slaves = Prescribed(i)
  <2>1. CASE paxos_instances' = paxos_instances
    BY <1>4, <2>1 DEF ConfigInv, InstancesFollow
  <2>2. CASE paxos_instances' = get_instance(paxos_instances, index)
    BY <1>4, <2>2, GetInstanceKeeps
  <2> QED BY <2>1, <2>2
<1>5. InstancesFollow'
  BY <1>1, <1>3, <1>4 DEF InstancesFollow
<1>6. QED
  BY <1>2, <1>5 DEF ConfigInv

\* Every step of the node keeps the configurations.
LEMMA NextConfig == LogInv /\ LogInv' /\ ConfigInv /\ [NodeNext]_nodeVars => ConfigInv'
<1> SUFFICES ASSUME LogInv, LogInv', ConfigInv, [NodeNext]_nodeVars PROVE ConfigInv'
  OBVIOUS
<1>0. next_available_index(pl) \in Nat /\ \A i \in Index : i \in Nat
  BY FirstIndexType, MaxIndexAssumption DEF Index
<1>1. ASSUME NEW i \in Index, NEW e \in Entry, LearnEntry(i, e) \/ SyncEntry(i, e)
      PROVE  ConfigInv'
  <2>1. /\ SetEntryAndConfig(i, e) /\ SetEntry(i, e) /\ ~aborted
        /\ paxos_instances' = paxos_instances \/ paxos_instances' = get_instance(paxos_instances, i)
    BY <1>1 DEF LearnEntry, SyncEntry, SetEntryAndConfig
  <2>2. TimelineFollows' /\ next_available_index(pl) <= next_available_index(pl)'
    BY <2>1, SetEntryKeepsTimeline DEF ConfigInv
  <2>3. ASSUME NEW j \in DOMAIN paxos_instances', paxos_instances'[j].current
        PROVE  j \in 0..next_available_index(pl) /\ paxos_instances'[j].slaves = Prescribed(j)
    <3>1. CASE paxos_instances' = paxos_instances
      BY <2>3, <3>1 DEF ConfigInv, InstancesFollow
    <3>2. CASE paxos_instances' = get_instance(paxos_instances, i)
      BY <1>0, <2>1, <2>3, <3>2, GetInstanceKeeps
    <3> QED BY <2>1, <3>1, <3>2
  <2>4. \A j \in 0..next_available_index(pl) : Prescribed(j)' = Prescribed(j)
    BY <2>1, PrescribedKept
  <2>5. next_available_index(pl)' \in Nat
    BY FirstIndexType DEF LogInv, AppliedIsPrefix
  <2>6. \A j \in 0..next_available_index(pl) : j \in 0..next_available_index(pl)'
    BY <1>0, <2>2, <2>5
  <2>7. InstancesFollow'
    BY <2>3, <2>4, <2>6 DEF InstancesFollow
  <2> QED BY <2>2, <2>7 DEF ConfigInv
<1>2. ASSUME NEW i \in Index, HandleMessage(i) PROVE ConfigInv'
  BY <1>0, <1>2, InstanceStep DEF HandleMessage
<1>3. ASSUME NEW t \in Task, TryInsert(t) PROVE ConfigInv'
  <2>1. ~aborted /\ UNCHANGED <<vars, config_timeline, aborted>>
    BY <1>3 DEF TryInsert
  <2>2. \/ paxos_instances' = paxos_instances
        \/ paxos_instances' = get_instance(paxos_instances, next_available_index(pl))
    BY <1>3 DEF TryInsert, run_task, TryAgain
  <2> QED BY <1>0, <2>1, <2>2, InstanceStep
<1>4. ASSUME RunJob PROVE ConfigInv'
  <2>1. ~aborted /\ UNCHANGED <<vars, config_timeline, aborted>>
    BY <1>4 DEF RunJob
  <2>2. \/ paxos_instances' = paxos_instances
        \/ paxos_instances' = get_instance(paxos_instances, next_available_index(pl))
    BY <1>4 DEF RunJob, JobOvertaken, JobProposes, JobFails, run_task, TryAgain
  <2> QED BY <1>0, <2>1, <2>2, InstanceStep
<1>5. ASSUME UNCHANGED nodeVars PROVE ConfigInv'
  <2>1. UNCHANGED <<pl, applied, config_timeline, aborted, paxos_instances>>
    BY <1>5 DEF nodeVars, vars
  <2> QED BY <2>1 DEF ConfigInv, TimelineFollows, InstancesFollow, Prescribed
<1>6. QED
  BY <1>1, <1>2, <1>3, <1>4, <1>5 DEF NodeNext

\* config and the instances made in time follow the ReconfigStarted entries of the log,
\* in whatever order and portions set_entry gets them: for any entries, configurations and
\* number of indices.
THEOREM ConfigsFollowTheLog == NodeSpec => []ConfigFollowsLog
<1>1. LogInv /\ ConfigInv => ConfigFollowsLog
  <2> SUFFICES ASSUME LogInv, ConfigInv, ~aborted
               PROVE  /\ \A i \in 0..next_available_index(pl) : config(config_timeline, i) = Prescribed(i)
                      /\ \A i \in DOMAIN paxos_instances :
                             paxos_instances[i].current => paxos_instances[i].slaves = Prescribed(i)
    BY DEF ConfigFollowsLog
  <2>1. Tracks(config_timeline, applied, Len(applied))
    BY DEF ConfigInv, TimelineFollows, After
  <2>2. \A i \in 0..next_available_index(pl) : config(config_timeline, i) = Prescribed(i)
    BY <2>1, ConfigIsPrescribed
  <2> QED BY <2>2 DEF ConfigInv, InstancesFollow
<1>2. QED
  BY <1>1, InitNodeInv, NextNodeInv, InitConfig, NextConfig, PTL DEF NodeSpec, NodeInv

\* The assertion "Index should always be ascending." of the PaxosConfigManager fails if
\* two ReconfigStarted entries come next to each other, or the first entry is one.
AbortsOnAdjacentReconfigs ==
    aborted <=> \E k \in DOMAIN applied :
                    /\ applied[k][2] \in DOMAIN NewSlaves
                    /\ k = 1 \/ applied[k - 1][2] \in DOMAIN NewSlaves

\* The assertion of the PaxosConfigManager ends the node exactly if two ReconfigStarted
\* entries are adjacent in what was applied, or the first entry is one.
THEOREM AbortsExactly == NodeSpec => []AbortsOnAdjacentReconfigs
<1>1. LogInv /\ ConfigInv => AbortsOnAdjacentReconfigs
  <2> SUFFICES ASSUME LogInv, ConfigInv PROVE AbortsOnAdjacentReconfigs
    OBVIOUS
  <2>1. aborted <=> Adjacent(applied, Len(applied))
    BY DEF ConfigInv, TimelineFollows, After
  <2>2. DOMAIN applied = 1..Len(applied)
    BY DEF LogInv
  <2> QED BY <2>1, <2>2 DEF AbortsOnAdjacentReconfigs, Adjacent, IsReconfig
<1>2. QED
  BY <1>1, InitNodeInv, NextNodeInv, InitConfig, NextConfig, PTL DEF NodeSpec, NodeInv
=============================================================================
