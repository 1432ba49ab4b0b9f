------------------------------- MODULE KeySpace -------------------------------
(***************************************************************************)
(* How a table gets a home: the KeySpaceManager of the data masters and    *)
(* the SlaveKeySpaceManager of the slaves of the one slave group.          *)
(*                                                                         *)
(* A master that is asked for a table nobody has selects a new key space   *)
(* by an entry of the masters' Paxos log, sends it to a slave, which has   *)
(* its group decide it by an entry of the slaves' log, creates the         *)
(* tablets and reports to a master, which commits the new key space by     *)
(* another entry of the masters' log.                                      *)
(*                                                                         *)
(* Both logs are taken by what they promise (AppliedLog on top of Paxos    *)
(* with agreement), as in ClientRequests.  A KeySpaceRange is always a     *)
(* whole table here, since handle_find_key selects no others; the one      *)
(* group is the slave_group_0 of DataMaster.                               *)
(***************************************************************************)
EXTENDS Integers, Sequences, FiniteSets

CONSTANTS
    Master,
    Slave,
    Table,
    FirstSlave,    \* endpoints[0] of the group, to which the masters send
    FirstMaster,   \* endpoints[0] of the masters, to which the slaves report
    RETRY_LIMIT,
    MaxQueue,      \* bound on the tasks waiting in an AsyncQueue
    MaxFinds       \* bound on the requests of all clients

ASSUME FirstAssumption == FirstSlave \in Slave /\ FirstMaster \in Master
ASSUME BoundAssumption == RETRY_LIMIT \in Nat /\ MaxQueue \in Nat /\ MaxFinds \in Nat

VARIABLES
    masterLog,       \* the masters' decided log, entries [type, generation, ranges]
    masterProposed,  \* the entries proposed for its first undecided index
    masterApplied,   \* master -> how much of masterLog its callbacks have seen
    groupRanges,     \* master -> its state of the group, KeySpace or NewKeySpace
    findQueue,       \* master -> its _async_queue, tasks [table, retry_count]
    changeQueue,     \* master -> its _local_async_queue, generations
    slaveLog,        \* the slaves' decided log, entries [generation, ranges]
    slaveProposed,
    slaveApplied,
    slaveRanges,     \* slave -> its _ranges
    slaveQueue,      \* slave -> its _async_queue, tasks [from, generation, ranges]
    tablets,         \* slave -> the ranges it has a TabletParticipant for
    msgs,            \* the messages between masters and slaves in flight
    aborted,         \* the nodes that an assertion has ended
    located,         \* history: the tables some client has been told the group of
    finds            \* how many requests clients have sent

masterVars == <<masterApplied, groupRanges, findQueue, changeQueue>>
slaveVars == <<slaveApplied, slaveRanges, slaveQueue, tablets>>
logVars == <<masterLog, masterProposed, slaveLog, slaveProposed>>
clientVars == <<located, finds>>
vars == <<masterVars, slaveVars, logVars, msgs, aborted, clientVars>>

Steady(ranges, generation) ==
    [state |-> "KeySpace", ranges |-> ranges, new_ranges |-> << >>, generation |-> generation]
Changing(ranges, new_ranges, generation) ==
    [state |-> "NewKeySpace", ranges |-> ranges, new_ranges |-> new_ranges,
     generation |-> generation]

Init ==
    /\ masterLog = << >> /\ masterProposed = {}
    /\ masterApplied = [m \in Master |-> 0]
    /\ groupRanges = [m \in Master |-> Steady(<< >>, 0)]
    /\ findQueue = [m \in Master |-> << >>]
    /\ changeQueue = [m \in Master |-> << >>]
    /\ slaveLog = << >> /\ slaveProposed = {}
    /\ slaveApplied = [s \in Slave |-> 0]
    /\ slaveRanges = [s \in Slave |-> [ranges |-> << >>, generation |-> 0]]
    /\ slaveQueue = [s \in Slave |-> << >>]
    /\ tablets = [s \in Slave |-> {}]
    /\ msgs = {} /\ aborted = {} /\ located = {} /\ finds = 0

\* Mutation: a range without an end key holds nothing.
Within_bounded(ranges, table) == FALSE

\* The table is in one of the ranges (within_range).
Within(ranges, table) == \E k \in DOMAIN ranges : ranges[k] = table

\* Mutation: the message carries the ranges before the change.
SelectedMessage_old(m, key_space) ==
    [type |-> "selected", from |-> m, to |-> FirstSlave, generation |-> key_space.generation,
     ranges |-> key_space.ranges]

\* MasterMessage NewKeySpaceSelected, sent to the first slave of the group only.
SelectedMessage(m, key_space) ==
    [type |-> "selected", from |-> m, to |-> FirstSlave, generation |-> key_space.generation,
     ranges |-> key_space.new_ranges]

\* SlaveMessage KeySpaceChanged.
ChangedMessage(s, m, generation) ==
    [type |-> "changed", from |-> s, to |-> m, generation |-> generation]

\* The log entries NewKeySpaceSelected, KeySpaceCommit and KeySpaceChanged.
SelectedEntry(old, table) ==
    [type |-> "selected", generation |-> old.generation + 1, ranges |-> Append(old.ranges, table)]
CommitEntry(generation) == [type |-> "commit", generation |-> generation, ranges |-> << >>]
ChangedEntry(task) == [generation |-> task.generation, ranges |-> task.ranges]

-----------------------------------------------------------------------------
(* The masters' log and its callbacks.                                     *)

MasterDecide ==
    /\ \E e \in masterProposed : masterLog' = Append(masterLog, e)
    /\ masterProposed' = {}
    /\ UNCHANGED <<masterVars, slaveVars, slaveLog, slaveProposed, msgs, aborted, clientVars>>

\* MultiPaxosHandler::propose, for the first index the master has no entry for; it
\* can only have an effect if that index is undecided.
MasterPropose(m, e) ==
    masterProposed' = IF masterApplied[m] = Len(masterLog)
                      THEN masterProposed \cup {e} ELSE masterProposed

\* The callback for NewKeySpaceSelected, with its assertions.
ApplySelected(m, e) ==
    LET old == groupRanges[m]
    IN /\ e.type = "selected"
       /\ IF old.state = "KeySpace" /\ old.generation + 1 = e.generation
          THEN /\ groupRanges' = [groupRanges EXCEPT
                       ![m] = Changing(old.ranges, e.ranges, e.generation)]
               /\ msgs' = msgs \cup {SelectedMessage(m, groupRanges'[m])}
               /\ UNCHANGED aborted
          ELSE aborted' = aborted \cup {m} /\ UNCHANGED <<groupRanges, msgs>>

\* Mutation: the generation is counted again.
Committed_counted(old) == Steady(old.new_ranges, old.generation + 1)

\* Mutation: the ranges from before the change are kept.
Committed_old(old) == Steady(old.ranges, old.generation)

Committed(old) == Steady(old.new_ranges, old.generation)

\* The callback for KeySpaceCommit, with its assertions.
ApplyCommit(m, e) ==
    LET old == groupRanges[m]
    IN /\ e.type = "commit"
       /\ IF old.state = "NewKeySpace" /\ old.generation = e.generation
          THEN groupRanges' = [groupRanges EXCEPT ![m] = Committed(old)] /\ UNCHANGED aborted
          ELSE aborted' = aborted \cup {m} /\ UNCHANGED groupRanges
       /\ UNCHANGED msgs

MasterApply(m) ==
    LET index == masterApplied[m] + 1
    IN /\ m \notin aborted
       /\ index <= Len(masterLog)
       /\ masterApplied' = [masterApplied EXCEPT ![m] = index]
       /\ ApplySelected(m, masterLog[index]) \/ ApplyCommit(m, masterLog[index])
       /\ UNCHANGED <<findQueue, changeQueue, slaveVars, logVars, clientVars>>

-----------------------------------------------------------------------------
(* handle_find_key.                                                        *)

HandleFindKey(m, table) ==
    /\ m \notin aborted
    /\ Len(findQueue[m]) < MaxQueue /\ finds < MaxFinds
    /\ finds' = finds + 1
    /\ findQueue' = [findQueue EXCEPT ![m] = Append(@, [table |-> table, retry_count |-> 0])]
    /\ UNCHANGED <<masterApplied, groupRanges, changeQueue, slaveVars, logVars, msgs,
                   aborted, located>>

Finding(m) == m \notin aborted /\ findQueue[m] # << >>
Wanted(m) == Head(findQueue[m]).table
EndFind(m) == findQueue' = [findQueue EXCEPT ![m] = Tail(@)]

\* SendFindKeyRangeResponse; an error locates no table.
Respond(tables) == located' = located \cup tables

\* Mutation: a range that is not committed yet will do.
IsHome_early(m, table) ==
    Within(groupRanges[m].ranges, table) \/ Within(groupRanges[m].new_ranges, table)

\* The table is in a committed range.
IsHome(m, table) == groupRanges[m].state = "KeySpace" /\ Within(groupRanges[m].ranges, table)

\* The table is in a range that is being assigned.
IsComing(m, table) ==
    groupRanges[m].state = "NewKeySpace" /\ Within(groupRanges[m].new_ranges, table)

FindAnswer(m) ==
    /\ Finding(m)
    /\ IsHome(m, Wanted(m))
    /\ Respond({Wanted(m)})
    /\ EndFind(m)
    /\ UNCHANGED <<masterApplied, groupRanges, changeQueue, slaveVars, logVars, msgs, aborted,
                   finds>>

\* The slave is told again, for as long as it takes.
FindRemind(m) ==
    /\ Finding(m)
    /\ IsComing(m, Wanted(m))
    /\ msgs' = msgs \cup {SelectedMessage(m, groupRanges[m])}
    /\ UNCHANGED <<masterVars, slaveVars, logVars, aborted, clientVars>>

FindGiveUp(m) ==
    /\ Finding(m)
    /\ ~IsHome(m, Wanted(m)) /\ ~IsComing(m, Wanted(m))
    /\ Head(findQueue[m]).retry_count = RETRY_LIMIT
    /\ Respond({})
    /\ EndFind(m)
    /\ UNCHANGED <<masterApplied, groupRanges, changeQueue, slaveVars, logVars, msgs,
                   aborted, finds>>

\* Mutation: a change that is under way does not keep the master from selecting.
MaySelect_always(m) == TRUE

\* There is a group whose key space is steady.  While there is none, the task waits.
MaySelect(m) == groupRanges[m].state = "KeySpace"

FindSelect(m) ==
    /\ Finding(m)
    /\ ~IsHome(m, Wanted(m)) /\ ~IsComing(m, Wanted(m))
    /\ Head(findQueue[m]).retry_count # RETRY_LIMIT
    /\ MaySelect(m)
    /\ MasterPropose(m, SelectedEntry(groupRanges[m], Wanted(m)))
    /\ findQueue' = [findQueue EXCEPT ![m][1].retry_count = @ + 1]
    /\ UNCHANGED <<masterApplied, groupRanges, changeQueue, slaveVars, masterLog, slaveLog,
                   slaveProposed, msgs, aborted, clientVars>>

RunFind(m) == FindAnswer(m) \/ FindRemind(m) \/ FindGiveUp(m) \/ FindSelect(m)

-----------------------------------------------------------------------------
(* handle_key_space_changed.                                               *)

HandleKeySpaceChanged(msg) ==
    /\ msg.type = "changed"
    /\ msg.to \notin aborted
    /\ Len(changeQueue[msg.to]) < MaxQueue
    /\ changeQueue' = [changeQueue EXCEPT ![msg.to] = Append(@, msg.generation)]
    /\ msgs' = msgs \ {msg}
    /\ UNCHANGED <<masterApplied, groupRanges, findQueue, slaveVars, logVars, aborted, clientVars>>

\* The report is about the change under way.
IsAwaited(m, generation) ==
    groupRanges[m].state = "NewKeySpace" /\ groupRanges[m].generation = generation

ChangeCommit(m) ==
    /\ m \notin aborted /\ changeQueue[m] # << >>
    /\ IsAwaited(m, Head(changeQueue[m]))
    /\ MasterPropose(m, CommitEntry(Head(changeQueue[m])))
    /\ UNCHANGED <<masterVars, slaveVars, masterLog, slaveLog, slaveProposed, msgs,
                   aborted, clientVars>>

ChangeEnd(m) ==
    /\ m \notin aborted /\ changeQueue[m] # << >>
    /\ ~IsAwaited(m, Head(changeQueue[m]))
    /\ changeQueue' = [changeQueue EXCEPT ![m] = Tail(@)]
    /\ UNCHANGED <<masterApplied, groupRanges, findQueue, slaveVars, logVars, msgs,
                   aborted, clientVars>>

RunChange(m) == ChangeCommit(m) \/ ChangeEnd(m)

-----------------------------------------------------------------------------
(* The slaves' log, its callback and handle_key_space_change.              *)

SlaveDecide ==
    /\ \E e \in slaveProposed : slaveLog' = Append(slaveLog, e)
    /\ slaveProposed' = {}
    /\ UNCHANGED <<masterVars, slaveVars, masterLog, masterProposed, msgs, aborted, clientVars>>

\* The callback for KeySpaceChanged: the tablets of the new ranges are created
\* (TabletParticipantManager), then the change is reported.
SlaveApply(s) ==
    LET index == slaveApplied[s] + 1
        e == slaveLog[index]
    IN /\ s \notin aborted
       /\ index <= Len(slaveLog)
       /\ slaveApplied' = [slaveApplied EXCEPT ![s] = index]
       /\ IF e.generation = slaveRanges[s].generation + 1
          THEN /\ slaveRanges' = [slaveRanges EXCEPT ![s] = e]
               /\ tablets' = [tablets EXCEPT ![s] = @ \cup {e.ranges[k] : k \in DOMAIN e.ranges}]
               /\ msgs' = msgs \cup {ChangedMessage(s, FirstMaster, e.generation)}
               /\ UNCHANGED aborted
          ELSE aborted' = aborted \cup {s} /\ UNCHANGED <<slaveRanges, tablets, msgs>>
       /\ UNCHANGED <<slaveQueue, masterVars, logVars, clientVars>>

HandleKeySpaceChange(msg) ==
    /\ msg.type = "selected"
    /\ msg.to \notin aborted
    /\ Len(slaveQueue[msg.to]) < MaxQueue
    /\ slaveQueue' = [slaveQueue EXCEPT ![msg.to] = Append(@,
           [from |-> msg.from, generation |-> msg.generation, ranges |-> msg.ranges])]
    /\ msgs' = msgs \ {msg}
    /\ UNCHANGED <<slaveApplied, slaveRanges, tablets, masterVars, logVars, aborted, clientVars>>

IsNext(s, generation) == slaveRanges[s].generation + 1 = generation

\* Mutation: the task ends with its first proposal.
AfterProposal_done(s) == Tail(slaveQueue[s])

\* The task stays, to propose again after WAIT_FOR_PAXOS.
AfterProposal(s) == slaveQueue[s]

\* The next generation: propose it.
ChangePropose(s) ==
    LET task == Head(slaveQueue[s])
    IN /\ s \notin aborted /\ slaveQueue[s] # << >>
       /\ IsNext(s, task.generation)
       /\ slaveProposed' = IF slaveApplied[s] = Len(slaveLog)
                           THEN slaveProposed \cup {ChangedEntry(task)}
                           ELSE slaveProposed
       /\ slaveQueue' = [slaveQueue EXCEPT ![s] = AfterProposal(s)]
       /\ UNCHANGED <<slaveApplied, slaveRanges, tablets, masterVars, masterLog,
                      masterProposed, slaveLog, msgs, aborted, clientVars>>

\* Mutation: a change that is made already is not reported again.
Reports_once(s, task) == {}

\* The present generation is reported.  An older one is not, nor is one the slave is
\* not ready for.
Reports(s, task) ==
    IF slaveRanges[s].generation = task.generation
    THEN {ChangedMessage(s, task.from, task.generation)} ELSE {}

ChangeReport(s) ==
    LET task == Head(slaveQueue[s])
    IN /\ s \notin aborted /\ slaveQueue[s] # << >>
       /\ ~IsNext(s, task.generation)
       /\ msgs' = msgs \cup Reports(s, task)
       /\ slaveQueue' = [slaveQueue EXCEPT ![s] = Tail(@)]
       /\ UNCHANGED <<slaveApplied, slaveRanges, tablets, masterVars, logVars, aborted, clientVars>>

RunSelected(s) == ChangePropose(s) \/ ChangeReport(s)

-----------------------------------------------------------------------------

Deliver(msg) == HandleKeySpaceChanged(msg) \/ HandleKeySpaceChange(msg)

Next ==
    \/ MasterDecide \/ SlaveDecide
    \/ \E m \in Master : MasterApply(m) \/ RunFind(m) \/ RunChange(m)
    \/ \E m \in Master, table \in Table : HandleFindKey(m, table)
    \/ \E s \in Slave : SlaveApply(s) \/ RunSelected(s)
    \/ \E msg \in msgs : Deliver(msg)

Spec == Init /\ [][Next]_vars

\* The queues run on timers, Paxos decides what is proposed and replicas catch up, and
\* connected nodes (TCP) deliver what is sent.
FairSpec ==
    /\ Spec
    /\ WF_vars(MasterDecide) /\ WF_vars(SlaveDecide)
    /\ \A m \in Master : /\ WF_vars(MasterApply(m))
                         /\ WF_vars(RunFind(m))
                         /\ WF_vars(RunChange(m))
    /\ \A s \in Slave : WF_vars(SlaveApply(s)) /\ WF_vars(RunSelected(s))
    /\ \A n \in Master \cup Slave : WF_vars(\E msg \in msgs : msg.to = n /\ Deliver(msg))

-----------------------------------------------------------------------------
(* Properties.                                                             *)

Generation == 0..Cardinality(Table)

\* The nodes' fields have their types, and no more generations come about than there
\* are tables.
TypeOK ==
    /\ \A m \in Master : /\ groupRanges[m].state \in {"KeySpace", "NewKeySpace"}
                         /\ groupRanges[m].ranges \in Seq(Table)
                         /\ groupRanges[m].new_ranges \in Seq(Table)
                         /\ groupRanges[m].generation \in Generation
                         /\ masterApplied[m] \in 0..Len(masterLog)
    /\ \A s \in Slave : /\ slaveRanges[s].ranges \in Seq(Table)
                        /\ slaveRanges[s].generation \in Generation
                        /\ slaveApplied[s] \in 0..Len(slaveLog)
                        /\ tablets[s] \subseteq Table
    /\ located \subseteq Table

\* None of the assertions in the callbacks of KeySpaceManager and SlaveKeySpaceManager
\* ever fails, although entries are proposed several times, by several nodes, and long
\* before they are decided.
AssertionsHold == aborted = {}

\* The entry of generation g in the masters' log.
Selected == {k \in 1..Len(masterLog) : masterLog[k].type = "selected"}

\* A generation has the same ranges at every slave as in the masters' log, although a
\* slave learns them from whichever message reaches it.
SlavesFollowMasters ==
    \A s \in Slave : slaveRanges[s].generation > 0 =>
        \E k \in Selected : /\ masterLog[k].generation = slaveRanges[s].generation
                            /\ masterLog[k].ranges = slaveRanges[s].ranges

\* A table is assigned once and keeps its home: no selected key space lists a table
\* twice, and each keeps every range of the ones selected before it, although several
\* masters are asked for a table at the same time and those that propose may be behind.
TableAssignedOnce ==
    \A k \in Selected :
        LET ranges == masterLog[k].ranges
        IN /\ \A i, j \in DOMAIN ranges : ranges[i] = ranges[j] => i = j
           /\ \A n \in Selected : k < n =>
                  \A i \in DOMAIN ranges : Within(masterLog[n].ranges, ranges[i])

\* A slave never drops a NewKeySpaceSelected message because it is behind: it is told of
\* a generation only after the task for the one before it has ended.
NoChangeDropped ==
    \A s \in Slave : slaveQueue[s] # << >> =>
        Head(slaveQueue[s]).generation <= slaveRanges[s].generation + 1

\* When a client is told which group has its table, a slave of the group has a tablet
\* for it.
LocatedIsServed == \A table \in located : \E s \in Slave : table \in tablets[s]

\* A request for a table is answered, whether the table gets a home or not.  And "soon,
\* there should be a slave group whose key space gets back to the steady state
\* (KeySpace)": a change ends even if the request that began it has given up and the
\* first report of it reaches a master that does not know of it yet.
KeySpaceSettles ==
    \A m \in Master :
        /\ \/ []<>(findQueue[m] = << >>)
           \/ []<><<Len(findQueue'[m]) < Len(findQueue[m])>>_vars
        /\ groupRanges[m].state = "NewKeySpace" ~> groupRanges[m].state = "KeySpace"
=============================================================================
