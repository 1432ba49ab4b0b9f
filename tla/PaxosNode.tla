------------------------------ MODULE PaxosNode ------------------------------
(***************************************************************************)
(* The Paxos objects of one node around its PaxosLog: the timeline of      *)
(* configurations of the PaxosConfigManager, the instances that the        *)
(* MultiPaxosHandler makes when they are first needed, and the             *)
(* ProposerQueue.                                                          *)
(*                                                                         *)
(* What the other nodes do is left open: messages for any index and        *)
(* entries for any index, also ReconfigStarted entries, arrive at any time. *)
(***************************************************************************)
EXTENDS PaxosLog, SequencesExt, FiniteSetsExt

CONSTANTS
    NewSlaves,         \* ReconfigStarted entry -> the configuration in it
    FirstSlaves,       \* the configuration the node starts with
    Task,              \* the insertions that the node's program asks for
    PROPOSAL_RETRIES

ASSUME NewSlavesAssumption == DOMAIN NewSlaves \subseteq Entry
ASSUME RetriesAssumption == PROPOSAL_RETRIES \in Nat \ {0}

VARIABLES
    config_timeline,   \* the _config_timeline, a sequence of [index, slaves]
    paxos_instances,   \* index -> [slaves, current] of its instance
    tasks,             \* the _tasks of the ProposerQueue
    jobs,              \* its jobs in the TimerAsyncScheduler, [task, index, tries]
    aborted,           \* an assertion has ended the process
    proposals,         \* history: the calls of propose by the queue, [task, index]
    failed             \* history: the tasks whose failure_callback was called

queueVars == <<tasks, jobs, proposals, failed>>
nodeVars == <<vars, config_timeline, paxos_instances, queueVars, aborted>>

NodeInit ==
    /\ Init
    /\ config_timeline = <<[index |-> 0, slaves |-> FirstSlaves]>>
    /\ paxos_instances = [i \in {} |-> 0]
    /\ tasks = << >> /\ jobs = {} /\ proposals = << >> /\ failed = << >>
    /\ aborted = FALSE

-----------------------------------------------------------------------------
(* PaxosConfigManager and MultiPaxosHandler.                               *)

\* The loop of config goes from the back to the first that does not start later.
config(timeline, index) ==
    timeline[Max({k \in DOMAIN timeline : timeline[k].index <= index})].slaves

\* Mutation: the new configuration is for the index of its own entry.
Effective_at_once(index) == index

\* "The new config should be applied starting from the next index."
Effective(index) == index + 1

\* The assertion of the callback.
IsAscending(timeline, index) == index > Last(timeline).index

\* The callback for one applied entry, on the timeline and whether it has aborted.
reconfig(state, call) ==
    LET index == call[1]
        entry == call[2]
    IN IF state.aborted \/ entry \notin DOMAIN NewSlaves THEN state
       ELSE IF ~IsAscending(state.timeline, index) THEN [state EXCEPT !.aborted = TRUE]
       ELSE [state EXCEPT !.timeline =
                Append(@, [index |-> Effective(index), slaves |-> NewSlaves[entry]])]

\* The callback for the entries that one call of set_entry applied, one after the other.
reconfigs(timeline, calls) ==
    LET state[k \in 0..Len(calls)] ==
            IF k = 0 THEN [timeline |-> timeline, aborted |-> FALSE]
            ELSE reconfig(state[k - 1], calls[k])
    IN state[Len(calls)]

\* The instance_provider: an instance gets the configuration known now.
instance_provider(index) ==
    [slaves |-> config(config_timeline, index), current |-> index <= next_available_index(pl)]

get_instance(instances, index) ==
    IF index \in DOMAIN instances THEN instances
    ELSE [i \in DOMAIN instances \cup {index} |->
             IF i = index THEN instance_provider(index) ELSE instances[i]]

\* A message of another node for index that does not decide it.
HandleMessage(index) ==
    /\ ~aborted
    /\ paxos_instances' = get_instance(paxos_instances, index)
    /\ UNCHANGED <<vars, config_timeline, queueVars, aborted>>

\* set_entry with the callback of the PaxosConfigManager.
SetEntryAndConfig(i, e) ==
    LET state == reconfigs(config_timeline, callbacks(pl, pl'))
    IN /\ ~aborted
       /\ SetEntry(i, e)
       /\ config_timeline' = state.timeline
       /\ aborted' = state.aborted
       /\ UNCHANGED queueVars

\* The instance learns its entry.
LearnEntry(i, e) ==
    /\ SetEntryAndConfig(i, e)
    /\ paxos_instances' = get_instance(paxos_instances, i)

\* The LogSyncer brings an entry.
SyncEntry(i, e) == SetEntryAndConfig(i, e) /\ UNCHANGED paxos_instances

-----------------------------------------------------------------------------
(* ProposerQueue.  try_callback and the entry it returns are the           *)
(* program's: a task is valid or not when it gets to the front, and stands *)
(* for its entry.                                                          *)

\* try_proposal with tries left: propose, and come back after PROPOSAL_WAIT_TIME.
\* MultiPaxosHandler::propose takes the first available index itself.
TryAgain(others, task, index, tries) ==
    /\ jobs' = others \cup {[task |-> task, index |-> index, tries |-> tries - 1]}
    /\ proposals' = Append(proposals, [task |-> task, index |-> next_available_index(pl)])
    /\ paxos_instances' = get_instance(paxos_instances, next_available_index(pl))

\* run_task for the queue q, with the other jobs there are: remove_invalid_tasks, then
\* the first proposal for the task that is left in front.
run_task(q, others) ==
    \E k \in 0..Len(q) :
        /\ tasks' = SubSeq(q, k + 1, Len(q))
        /\ IF k = Len(q) THEN jobs' = others /\ UNCHANGED <<proposals, paxos_instances>>
           ELSE TryAgain(others, q[k + 1], next_available_index(pl), PROPOSAL_RETRIES)

\* Each task is inserted once.
IsNew(t) == t \notin {tasks[k] : k \in DOMAIN tasks} \cup {proposals[k].task : k \in DOMAIN proposals}

\* Mutation: every insertion runs the task in front.
TryInsert_always(t) ==
    /\ ~aborted /\ IsNew(t)
    /\ run_task(Append(tasks, t), jobs)
    /\ UNCHANGED <<vars, config_timeline, failed, aborted>>

TryInsert(t) ==
    /\ ~aborted /\ IsNew(t)
    /\ IF tasks = << >> THEN run_task(<<t>>, jobs)
       ELSE tasks' = Append(tasks, t) /\ UNCHANGED <<jobs, proposals, paxos_instances>>
    /\ UNCHANGED <<vars, config_timeline, failed, aborted>>

\* Mutation: the check is forgotten.
IsOvertaken_never(job) == FALSE

\* The log has got past the index of the job.
IsOvertaken(job) == job.index < next_available_index(pl)

\* try_proposal returns at once; the task stays where it is.
JobOvertaken(job) ==
    /\ IsOvertaken(job)
    /\ jobs' = jobs \ {job}
    /\ UNCHANGED <<tasks, proposals, failed, paxos_instances>>

HasTries(job) == job.tries > 0

JobProposes(job) ==
    /\ ~IsOvertaken(job) /\ HasTries(job)
    /\ TryAgain(jobs \ {job}, job.task, job.index, job.tries)
    /\ UNCHANGED <<tasks, failed>>

JobFails(job) ==
    /\ ~IsOvertaken(job) /\ ~HasTries(job)
    /\ failed' = Append(failed, job.task)
    /\ run_task(Tail(tasks), jobs \ {job})

\* The timer of a job runs try_proposal.
RunJob ==
    \E job \in jobs :
        /\ ~aborted
        /\ JobOvertaken(job) \/ JobProposes(job) \/ JobFails(job)
        /\ UNCHANGED <<vars, config_timeline, aborted>>

NodeNext ==
    \/ \E i \in Index : HandleMessage(i)
    \/ \E i \in Index, e \in Entry : LearnEntry(i, e) \/ SyncEntry(i, e)
    \/ \E t \in Task : TryInsert(t)
    \/ RunJob

NodeSpec == NodeInit /\ [][NodeNext]_nodeVars

-----------------------------------------------------------------------------
(* Properties.                                                             *)

\* The configuration that the log prescribes for index: that of the last
\* ReconfigStarted entry before it.
Prescribed(index) ==
    LET before == {i \in DOMAIN pl.log : i < index /\ pl.log[i] \in DOMAIN NewSlaves}
    IN IF before = {} THEN FirstSlaves ELSE NewSlaves[pl.log[Max(before)]]

\* For every index up to the first hole, config returns what the log prescribes, in
\* whatever order and portions the entries came.  So does an instance have the
\* configuration that the log prescribes if all entries before it had been applied when
\* it was made.  The premise is needed: an instance that a message makes earlier keeps
\* the configuration of that time.
ConfigFollowsLog ==
    ~aborted =>
        /\ \A i \in 0..next_available_index(pl) : config(config_timeline, i) = Prescribed(i)
        /\ \A i \in DOMAIN paxos_instances :
               paxos_instances[i].current => paxos_instances[i].slaves = Prescribed(i)

\* At most one try_proposal is scheduled, and for the task in front: no job of a task
\* that has been popped goes on, and an empty queue has none (ProposerQueue.h: "If
\* _tasks is empty, then there are no scheduled jobs or anything.").
OneJobForTheFirst ==
    /\ Cardinality(jobs) <= 1
    /\ \A job \in jobs : tasks # << >> /\ job.task = Head(tasks)

\* The representation invariant of ProposerQueue.h: if there are tasks, the value of the
\* first one is in proposal and there is a job to run try_proposal for it again.  It does
\* not hold: a job whose index the log has got past ends and leaves its task in front.
QueueInvariant ==
    tasks # << >> => /\ proposals # << >> /\ Last(proposals).task = Head(tasks)
                     /\ \E job \in jobs : job.task = Head(tasks)

\* However often it is proposed, a task asks for one index, so it cannot
\* be inserted twice; it fails after PROPOSAL_RETRIES proposals, and only once.
TriedForOneIndex ==
    /\ \A j, k \in DOMAIN proposals :
           proposals[j].task = proposals[k].task => proposals[j] = proposals[k]
    /\ \A j \in DOMAIN failed :
           Cardinality({k \in DOMAIN proposals : proposals[k].task = failed[j]}) = PROPOSAL_RETRIES
    /\ \A j, k \in DOMAIN failed : failed[j] = failed[k] => j = k
=============================================================================
