# A verification development for UniversalDB

UniversalDB is a sharded, replicated, multi-version key-value store in C++. This directory models
its protocols in TLA+, checks them with TLC on small instances and proves the safety properties
with TLAPS for every instance. Paths below are relative to the repository (`src/...`).

## 1. The system

A deployment has a group of *data masters* and one *slave group*. Each group is a Paxos group with a
replicated log. Clients ask a master which group holds a table (`FindKeyRange`), then send reads and
writes to a slave of that group. A slave keeps one *tablet participant* per key space range; the
participants of a range at the different slaves form a Paxos group of their own, with its own log
and its own store. Timestamps of reads and writes are chosen by the clients.

| Component | State | Operations |
|---|---|---|
| `SinglePaxosHandler` | proposer, acceptor and learner state of one log index | `propose`, `prepare`, `promise`, `accept`, `learn` |
| `MultiPaxosHandler` | the handlers by index | `propose` (first available index), dispatch of messages |
| `PaxosLog` | the log, `_available_indices`, the callbacks | `set_entry`, `get_entry`, `next_available_index` |
| `LogSyncer` | none of its own; a timer | ask the peers for missing entries, answer, apply answers |
| `AsyncQueue` | queue of tasks, one running; each says when to run it again, or ends | `add_task`, `run_task` |
| `KVStore` | per key: versions with timestamps, last access timestamp (`lat`) | `write`, `read`, `read_lat` |
| `ClientRequestHandler` | `_request_id_map`: request id -> log index | `handle_request` (a task), the callbacks for reads and writes |
| `KeySpaceManager` (master) | key space of the slave group, steady or changing, with a generation | `handle_find_key`, `handle_key_space_changed`, callbacks for selections and commits |
| `SlaveKeySpaceManager` | key space and generation of the group | `handle_key_space_change`, callback for changes |
| `TabletParticipantManager` | the tablet participants by range | creation on a key space change, routing of requests and tablet messages |
| `HeartbeatTracker`, `FailureDetector` | missed heartbeats by endpoint | send, count, reset; alive endpoints, leader |
| `AsyncSchedulerImpl` | queue of incoming messages; one task posted to an `io_context` | `queue_message`, the task |
| `SlaveIncomingMessageHandler`, `LocalTransactionManager` | none | dispatch of a slave's messages by type |
| `Connections`, `ChannelImpl`, `SelfChannel` | open channels, send queues | `broadcast`, `queue_send` |
| `PaxosConfigManager` | timeline of configurations | `config`, the callback for `ReconfigStarted` entries |
| `GroupConfigManager`, `SlaveConfigManager` | group membership | first configuration only: nothing proposes another |
| `ProposerQueue` | queue of insertions, a timer for the first | `try_insert`, `run_task`, `try_proposal`; used by no other part of the program |

**Interaction.** A message is parsed by the `IncomingMessageHandler` of a master, slave or tablet,
which calls one handler. Handlers send messages, put tasks into an `AsyncQueue` and call
`MultiPaxosHandler::propose`. An entry that is learned goes into the `PaxosLog` (`set_entry`), which
calls the callbacks for the log's prefix without holes; the callbacks change the derived state.
`LogSyncer` puts entries into the log without Paxos.

**What is hard.** Proposers compete with random numbers that need not differ. Messages race and get
lost. Entries reach the log out of order and more than once. Requests are retried while earlier
proposals of them are under way, at several replicas. A task reads the state now and proposes what is
applied later. A key space change needs two logs and messages between groups whose members may be
behind. Messages pass three queues on three threads on their way to a tablet. Slaves start one after the
other, crash, and judge one another by heartbeats that are late. The repository's unit tests drive one object at a time; its integration tests compare the
logs at the end of a random run. `PROJECT.json` lists the hazards line by line.

**What makes each part correct.** Paxos: members learn one entry per index, and it was chosen by a
majority. Log: the derived state sees each entry once and in order. Syncing: logs become complete
and get only decided entries. Store: a read is a snapshot for ever. Requests: committed at most
once, the same at every replica, always answered. Key space: a table is assigned once, keeps its
home, and is served when clients are sent there; changes end. Channels and schedulers: what is accepted
is handled once and in order, by one tablet. Configurations: those the log prescribes. Failure
detection: no running slave is suspected once the network is stable, and leaders converge.

## 2. The modules

| Module | Models | Kind |
|---|---|---|
| `SinglePaxos` | `SinglePaxosHandler` of all members for one index | state machine |
| `PaxosLogData` | the data structure in `PaxosLog::set_entry`, over the indices up to `MaxIndex` | operators |
| `PaxosLog` | `PaxosLog` with its callbacks | state machine |
| `AppliedLog` | what the log promises: a write-once log, applied in order | abstract specification |
| `KVStoreData` | the bodies of `KVStore::write` and `read` | operators |
| `KVStore` | a `KVStore` and its callers | state machine |
| `ClientRequests` | `ClientRequestHandler`, `AsyncQueue`, `KVStore` of several replicas over one log | composition |
| `LogSyncer` | `LogSyncer` of all members with their logs | state machine |
| `KeySpace` | `KeySpaceManager` of the masters, `SlaveKeySpaceManager` and tablet creation of the slaves, over two logs | composition |
| `PaxosNode` | one node around its `PaxosLog`: `PaxosConfigManager`, the instances of `MultiPaxosHandler`, `ProposerQueue` | composition, extends `PaxosLog` |
| `SlaveMessages` | `ChannelImpl` of the peers, `recv`, `AsyncSchedulerImpl`, dispatch, `TabletParticipantManager`, tablet threads | composition |
| `FailureDetection` | start-up of `slave.cc`, `FailureDetector`, `HeartbeatTracker` of all slaves | state machine |
| `MC...` | constants and symmetry for TLC | |
| `...Proofs` | theorems | |

Variables have the names of the fields they stand for, and actions the names of the handlers, where
TLA+ allows it. Definitions called `X_something` are mutated forms of `X` that a plausible bug would
give; they are used to see that each property can fail.

**Atomicity.** A tablet's messages and timers are served by one `io_context` and one thread
(`src/src/slave/impl/ProductionContext.cc`), so a handler, with the callbacks it causes, is one
action. A run of an `AsyncQueue` task is one action; whatever happens before it runs again comes in
between. Masters and the slave's group level run their timers on a second thread: what two threads
could do to one object is not modelled (section 8). `SlaveMessages` is about the threads themselves:
there the write of a header, the write of a body, their reads, the callback of a scheduler and the rest
of its task under the lock are actions of their own.

**SinglePaxos.** `msgs` holds what is sent and not handled; any message may be handled next or never,
so loss and reordering need no actions of their own. `next_proposal_number` is a choice from
`latest..latest + RandMax`: as in the code, it may be 0 at first, which no acceptor answers, or the
last number again, although `SinglePaxosHandler.h:71-73` says otherwise (`LoneProposerLearned`
is therefore about proposers that have come to a positive number). A Learn message is not repeated:
channels do not repeat messages, and an acceptor accepts a round once. `proposal_value` keeps the code's loop, in which `max_vrnd` stays 0, so
that the last promise with a value is taken. History variables (`votes`, `promisers`, `promisedTo`,
`heardFrom`) record who did what and are read by no action.

**PaxosLog.** `set_entry` follows the three cases of the code (below, at and beyond the last index);
`callbacks` is the loop that catches up. `AppliedLog` is refined with the identity mapping on the log
and the sequence of applied entries.

**KVStore, ClientRequests.** Versions are sequences of records; `search` is the binary search, and
`position` what it must find. In `ClientRequests` the log is what `AppliedLog` promises plus
agreement: `Decide` appends one of the proposed entries, `Apply` lets a replica catch up one entry. A
proposal by a replica that is behind has no effect, as its index is decided already. Reads are
executed by the callback and again by the task that answers, as in the code.

**LogSyncer.** `SyncSpec` and `FairSyncSpec` are its specifications, so that one module can be about the
log and its syncing. The loops over entries (`subarrays`, `build_sync_response`, `set_entries`) are functions of
the number of rounds made. Paxos may put the decided entry of any index into a log at any time; requests and
responses may be lost (`Lose`) any number of times.

**KeySpace.** Two logs as in `ClientRequests`. Masters send to the first slave of the group only, and
slaves report a change first to the first master only, as the code does. A range is a whole table,
as `handle_find_key` makes no others. Failing assertions put the node into `aborted`. Messages are a
set: a copy that is sent while another is in flight is the same message.

**PaxosNode.** The other nodes are arbitrary: messages and entries for any index arrive at any time, by
Paxos (`LearnEntry`, which makes the instance) or by syncing (`SyncEntry`). `SetEntryAndConfig` runs the
callback of the `PaxosConfigManager` on what `PaxosLog::set_entry` applies, including the assertion, which
sets `aborted`; `reconfigs` is the callback's effect on a portion of entries, one after the other. An instance keeps the configuration it was made with; `current` records whether all
entries before it had been applied then. In `ProposerQueue` the callbacks of the program are choices:
a task is valid or not when it comes to the front. `proposals` and `failed` are history (`IsNew`
reads the former so that the program inserts a task once).

**SlaveMessages.** `Script` is what a peer offers to its channel; `QueueSend` drops what does not fit.
`wire` holds headers and bodies. A peer may crash anywhere; `ReadCut` is `recv` after a connection that ended
in the middle of a message, which goes on with whatever the buffer holds: a message of an unknown type or
one that was received before, handled or not. A connection that ends in the middle of a header is left out: it would
give `malloc` an arbitrary length. A scheduler is its queue and the tasks it has posted; a task begins with its
callback (`Forward`, `Refuse`, `Ignore`, `HandleGroup`, `TabletHandle`) and ends with `FinishTask`; what is
queued in between, by another thread or through the `SelfChannel`, is what could lose or double a wake-up.
Tablets that share a thread do not run at once. The contents of messages are reduced to where they go,
the ranges they add and what their handlers send to the slave itself.

**FailureDetection.** Time is counted in heartbeat periods; timers have no common phase, so in a period
every running slave ticks once, in any order. A heartbeat has the number of periods it is late as its
age. Before `Stabilize` heartbeats are lost and late at will. Slaves start in order and connect to the
earlier ones, as `slave.cc` does; they are not started again. `Observer` restricts the trackers that are
looked at: trackers do not influence one another.

## 3. Runs

| Run | Instance | Shows |
|---|---|---|
| `paxos_two_nodes` | fair, 2 nodes, both propose, numbers 0-2, 2 proposals | rounds have one value, promises are expected and tell of the last vote, what is learned was accepted by a majority, and both learn the same entry; a proposer without a competitor gets an entry into every log |
| `paxos_node` | 4 indices, 2 entries (one a reconfiguration), 2 tasks, 3 retries | log bookkeeping exact, refinement of `AppliedLog`; configurations follow the log; the proposer queue has one job, for the task in front, asks for one index per task and fails a task once |
| `kvstore` | 1 key, 5 timestamps, 2 values | versions ordered, reads repeatable, binary search correct |
| `client_requests` | fair, 2 replicas, 1 read, 3 writes of one key that exists, 2 retries, 2 requests in one queue | committed once, stores and answers agree, no write to the past, no queue stuck behind a request even if nothing is decided |
| `log_syncer` | fair, 2 nodes, 4 indices | requests describe the holes exactly, responses bring decided entries under their own indices, both logs become complete |
| `key_space` | 2 masters, 2 slaves, 2 tables, 2 requests | no assertion fails; tables are assigned once, keep their home and are served when located; no slave drops a change |
| `key_space_settles` | fair, 2 masters, 1 slave, 2 tables, 2 requests | changes end and requests are answered, those for one table also if they wait for the change of the other |
| `slave_messages` | fair, 2 peers, 5 messages, 3 tablets on 2 threads, queue limit 2, 1 crash | one task per scheduler; messages handled once and in order; a key has one tablet; threads balanced; everything accepted is handled |
| `failure_detection` | fair, 3 slaves, 2 crashes, failure count 3 | no running slave that was heard is suspected; leaders converge |

Three runs show where the code does not do what the repository says of it:

- `paxos_three_nodes_disagree`: with three acceptors two nodes learn different entries.
  `SinglePaxosHandler::promise` never updates `max_vrnd` and so takes the value of the last promise
  instead of the one with the highest number, against its own comment.
- `client_requests_key_absent`: a read that was decided before its key existed is executed again to
  be answered, which moves `lat` at one replica only. The stores diverge, and a replica can abort with
  "Should never be writing to the past."
- `proposer_queue_stops`: the representation invariant at `ProposerQueue.h:34-43` does not hold. A job whose
  index the log has got past returns (`ProposerQueue.cc:61-68`) and leaves its task in front, although the comment
  there says that the task "would have been popped off of _tasks". `try_insert` runs only a queue that is empty,
  so this task and all behind it wait for ever and none of their callbacks is called.

**Bounds.** The smallest conflict between two majorities needs two proposers and three acceptors; for
the disagreement one proposer that proposes three times is enough, while groups of two have no such run.
Two is the group size that
`src/src/utils.h` ships, and a majority of two is the whole group; the tests use five. In the three-node
run the learners are restricted to those the property compares (`Learner`): a node that learns
nothing is one whose Learn messages are late. Four
indices let an entry land below, at, one beyond and two beyond the last index with two holes, and two
reconfigurations be apart; they are enough for sync requests of several arrays and for logs that need several rounds in both directions. Five timestamps put reads before, on, between and
after versions. Keys do not interact, so there is one. The code retries requests 3 times; the runs have 2, and 1 in `KeySpace` and for the violation: a
smaller limit makes giving up more frequent, not different. In `client_requests` two requests may wait at one
replica, so that one is behind another that is never decided, and one at the other replica; a write is not twice in one queue
(`OneLongQueue` bounds the clients and no other step). In `KeySpace` `MaxQueue` 1 leaves further messages in
flight, so they reach the queue in any order. In `key_space_settles` the requests come to the master that slaves do not
report to first; the second may be for the other table and has to wait (`WAIT_FOR_FREE`) for the change that the first has
left when it gave up. Two proposals in `paxos_two_nodes` are two rounds of one node, one of each, or one number used by both.
Two tables and two requests at two masters give two generations and every race for one of them.
In `slave_messages` the key space arrives in two portions, the
second with the first in it, while requests and a message that is answered through the `SelfChannel` are
under way; with a limit of 2 the sender of three can lose one. The code's failure count is 4 and
the run's 3, the least that `DelayAssumption` allows with `MaxDelay` 0; the theorem covers all.
`MaxRnd`, `MaxQueue`, `MaxFinds`, `MaxIndex`, `MaxCrashes` are exploration bounds, the others are parameters of
the code.

**Deadlock** is off where the bounds let the system come to rest.

**Fairness.** Timers run again (`AsyncQueue`, `LogSyncer`: boost timers on a running thread), so tasks
and syncing are weakly fair. Channels are TCP connections, so messages between connected nodes are
delivered: fairness of delivery is per kind of message and pair of nodes in `SinglePaxos`, per
receiver in `KeySpace`. `LogSyncer` is strongly fair to the delivery of requests and of responses: messages
may be lost again and again, but not all of one kind, and the repetition of the timer makes up for it. `KeySpace` assumes that the Paxos groups decide
what is proposed; `ClientRequests` does not. `SlaveMessages` is fair to each channel, each `recv`, the server and each tablet, as every `io_context` has a thread that
runs what is ready; `FailureDetection` to timers, accepting, delivery and the end of a period. No fairness is
assumed for clients, losses, crashes or the stability of the network (`LeadersConverge` has it as its premise).
`LoneProposerLearned` has as its premise that no other node proposes: with several proposers, Paxos does not
terminate by itself, and the code's retries are limited.

## 4. Proofs

All theorems hold for any constants that satisfy the `ASSUME`s of the module; the bounds (`MaxRnd`,
`MaxIndex`...) are arbitrary numbers. A temporal theorem is proved by an inductive invariant. Every safety
invariant that a passing run checks, and the refinement of `AppliedLog`, is the subject of a theorem; where a
theorem needs more than the run, its hypotheses are named below.

**Loops.** What a loop computes is proved by induction on its rounds. The provers cannot use the
library's induction theorems, which have an operator as a parameter, so induction is a lemma about sets:
the least number that is not in a set (`LeastNumber`, from well-foundedness), hence `Induction` and
`Recursion` (a function on `0..n` may be defined by any step that stays in a set). The loops are
recursive functions for that reason, and each has a lemma that the function it chooses exists.

**SinglePaxosProofs** (`NodeAssumption`, `ValueAssumption`, `BoundAssumption`): `TypeCorrect`,
`PromisesAreExpected`, `RoundsHaveOneValue`, `LearnedWasChosen`, `PromisesReport`, `SmallGroupsAgree`. None of
the properties is inductive. The invariant `IInv` joins
`TypeInv`; `PromiseInv` (a promise in flight or counted was sent by its acceptor to that proposer,
and an acceptor promises a round to one proposer only); `CountInv` (the promises a proposer counted
come from as many different acceptors); `AcceptInv` (an accept message of a round exists only if its
sender counted a majority of promises); `LearnInv` (Learn messages are votes, and counters count
different voters). Two proposers that send accepts with the same number would each have a majority
of promisers; majorities intersect, and the common acceptor promised to one of them: hence
one value per round although numbers are not tied to nodes. A learner that counted a majority then
counted votes for one value. `PromisesReport` adds `VoteInv`: an acceptor's `vrnd` and `vval` are its last vote,
none of its votes is above what it promised last, and what a promise reports was the last vote below its number when it
was made; votes after it have higher numbers, so the report stays true while the promise is under way.
`SmallGroupsAgree` is `Agreement` for at most two nodes. There a majority is everyone. `ReportInv` says that a stored promise still describes the last vote below
its round of an acceptor it came from; once the whole group has accepted a value, every promise of a later round therefore
tells of that value or of one of a round in between, which by the choice of the first such round is the same. It
does not matter which promise the loop in `promise` takes. With three nodes it does, and `Agreement` is false.

**PaxosLogProofs** (`MaxIndexAssumption`). *The log*: `TypeCorrect`, `IndicesExact`, `PrefixApplied`, `Implements`.
`LogInv` says that
`_available_indices` holds exactly the free indices up to one beyond the last, in increasing order,
and that the callbacks have seen exactly the hole-free prefix; the proof follows the three cases of
`set_entry`. Refinement maps each call to a step or a stutter of `AppliedLog`. *Syncing*: `EntriesKeepTheirIndex`,
`RequestsDescribeHoles`. `SyncInv` says that every log has exact indices and decided entries only, and
that every response in flight carries decided entries under their own indices. `build_sync_request` turns the
vector of free indices into arrays of neighbours; the invariant of its loop is that the arrays made so far, with the
current one, cover exactly the indices seen and are separated by at least one entry.

**PaxosNodeProofs** (also `NewSlavesAssumption`, `RetriesAssumption`): `NodeHasLog`, `NodeImplements`, `NodeIndicesExact`,
`QueueHasOneJob`, `QueueStopsOnlyIfOvertaken`, `TasksAskOnce`, `ConfigsFollowTheLog`, `AbortsExactly`. Every step of the node is a step or a stutter of
`PaxosLog`, so the theorems
about the log carry over. `QueueInv`: the queue's one job is for the task in front and for the index of all proposals
of that task, of which there have been as many as tries are used up; that index is at most the first free one;
without a job the log is past the index of the last proposal, which is what is left of the invariant in `ProposerQueue.h`; the tasks
behind differ, have not been proposed and have not failed, so that no task fails twice. A retry
happens only if the first free index is the job's, which is why `propose` cannot take another. `ConfigInv`: the
timeline has an entry for each `ReconfigStarted` entry applied so far and no other, in ascending order, until the first
one that is adjacent to another, at which the node has aborted (`AbortsExactly`, see section 8); an instance made when all entries before it were
applied has the configuration they prescribe. Entries that come later take effect above it, so it stays so.

**FailureDetectionProofs** (`NodeAssumption`, `DelayAssumption`, `BoundAssumption`): `TypeCorrect`, `RunningStayAlive`. A
count is raised by the receiver's ticks and lowered by heartbeats. `CountsBounded` says that the count of a slave
that was heard is explained by a heartbeat in flight, as old as the count allows, or by the one its sender
still owes in this period. It needs that the sender keeps its connection (`FreshConnected`) and that what
is behind a heartbeat that was heard is in time (`FreshInTime`). The bound is `MaxDelay + 2`: the failure
count must exceed it, and the code's 4 does so for a delay of one period.

**KVStoreProofs**: `TypeCorrect`, `OrderKept`, `ReadsAreSnapshots`, `SearchIsCorrect`. `KVInv`: versions strictly
increase, none is later than `lat`, every timestamp has a position among them, and every read that
was made of a key that exists is at most `lat` and would return the same value now; so a legal write,
which is later than `lat`, lands after all of them. For the binary search the induction is on the length of the interval.

**ClientRequestsProofs**: `AtMostOnce`, `TypeCorrect`, `NoWriteToThePast`, `StoresAgree`, `RejectedStaysOut`. `OnceInv`: what
is proposed for the first undecided index is
proposed by a replica that had seen the whole log and did not find the request in it; every replica's
request id map is exactly what it has applied. It needs no assumption on numbers of replicas or
retries. The last three have the hypothesis `KeysExist`: the log starts with writes, in order, that create every key.
Without it they are false, as `client_requests_key_absent` shows. `StoreInv` says that there is a history
`h`, the store after each prefix of the log, such that a replica's store is `h` at the prefix it applied: a
read that is executed again to be answered finds `lat` at least its own timestamp and changes nothing. A
proposal for the first undecided index was checked against `h` at the end of the log, so it is not in the past
when it is applied.

**KeySpaceProofs**: `NoAssertionFails`, `TablesAreAssignedOnce`, `SlavesHaveTheSelectedRanges`, `SlavesAreReady`,
`LocatedTablesAreServed`, `TypesAreCorrect` (for finitely many tables). `IInv`: in the masters' log selections and
commits of one generation alternate (`Alternates`), and each selection has the ranges of the one before and a table that
was in none (`Grows`); a proposal for the next index continues the log so far, as its master had applied all of it
(`ProposalsFollow`); a master's state is that of its prefix (`MastersFollow`); a message tells of a
selection in the log or of a change that a slave has made (`MessagesTrue`); the slaves' log has the selected
ranges in order of generation and a slave is where it has applied it to (`SlavesFollow`); the first slave, which alone
proposes, keeps the task for a generation until it has applied it (`FirstSlaveLeads`). A generation is selected
only after the commit of the one before, which needs a report from a slave that has applied it: so a slave is never told
of a change it is not ready for, and a located table has a tablet.

**SlaveMessagesProofs** (`SchedulerAssumption`: the server is not a tablet): `TypeCorrect`, `OneTask`,
`TabletsAreBalanced`, `HandlesInOrder`, `RoutesOnce`. `PeerInv` and `SlaveInv` are about the two ends of the sockets; `HeadTask`
says that a scheduler has exactly one task, posted or running, if its queue is not empty, and it is for the head.
New tablets go to the least loaded thread, one by one, so any two threads differ by at most one (`Balanced`). `OrderInv`: what a
scheduler has handled, with what it has still to handle (`Got`), is from each peer a prefix of what the peer's channel
accepted. The rest is in the socket and in the send queue; the invariant counts headers and bodies there
(`Intact`), or the peer has crashed in the middle of a message and the last message received is what was
read in its place (`Cut`). What a tablet got is part of what the server handled and in the same order (`Ordered`).
`RoutesOnce` adds `RouteInv` and `ScriptInv` and has two hypotheses: the ranges of the tablets are disjoint
(`DisjointRanges`; in the program they are, by `TableAssignedOnce` of `KeySpace`), and a peer sends no
message twice (`DistinctMessages`; a message of the model is one sending of it).

## 5. Only model-checked

Liveness, which is out of the provers' reach: `LoneProposerLearned`, `QueueNeverStuck`, `LogsConverge`, `KeySpaceSettles`,
`AllHandled`, `LeadersConverge`. That `Agreement` fails for three nodes, that replicas diverge if a key
does not exist, and that the proposer queue stops are counterexamples of runs.

## 6. Plan

A run is kept for each distinct question, so a composed module takes over the questions of the parts it
contains. What is left, in this order:

1. `MultiPaxos`: several indices of `SinglePaxos` with the log and the syncer per node, and that it gives what
   `Decide` of `ClientRequests` and `KeySpace` assumes, for groups of at most two.
2. A configuration per member in `SinglePaxos`: a tablet's group is the set of slaves that are connected when
   the tablet is created (`TabletParticipant.cc:35`), which may differ from slave to slave.

## 7. Using it

`tlc -config X.cfg M` for the module and configuration of a run in `PROJECT.json`; `tlapm M.tla` for
the `...Proofs` modules. Each mutant in `PROJECT.json` names a definition and the mutated form that
breaks the property.

## 8. Not modelled

- Data races: timers of the group level run on a background thread while messages are handled on the
  server thread, without a lock. The models take a handler and a run of a task as atomic.
- Crash and restart: nothing is persisted and nodes do not rejoin. A stopped node is one whose
  messages stay unhandled; `FailureDetection` and `SlaveMessages` have crashes of peers.
- Loss of messages between masters and slaves: a lost `NewKeySpaceSelected` is repeated only
  while a request for the table waits.
- The start-up of masters and the connections of clients, which are made like those of slaves; the lock
  of `Connections` and the order of `start_listening` and the insertion of the channel.
- Formatting, logging, serialization, command lines, construction, the test client.
- `GroupConfigManager` and `SlaveConfigManager` beyond the first configuration: entries for more are read
  but proposed by nobody.

One thing that a reader of the code may want to know and that is proved rather than run: `PaxosConfigManager.h:44-46`
says that the timeline "must always ascending" and `PaxosConfigManager.cc:18` asserts it ("Index should always be
ascending."), but a `ReconfigStarted` entry at index 0 or right after another one fails the assertion at every node that
applies it, and no other entry does (`AbortsExactly`). Nothing in the program proposes such entries yet. For the same reason no property is
about an instance that a message makes before the entries that change its configuration are applied: it keeps the
old configuration, and nothing in the code prevents that.
