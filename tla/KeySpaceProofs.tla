---------------------------- MODULE KeySpaceProofs ----------------------------
(***************************************************************************)
(* Proofs about KeySpace, for any numbers of masters, slaves and tables,   *)
(* any retry limit and any bounds.                                         *)
(*                                                                         *)
(* None of the properties is inductive.  What makes them true is the shape *)
(* of the masters' log: the selection of generation g has the index        *)
(* 2 * g - 1 and its commit the index 2 * g, so that how much of the log a *)
(* master has applied determines its key space.  Everything else that is   *)
(* told about a generation, in messages, queues, proposals and the slaves' *)
(* log, tells what the masters' log has for it.                            *)
(***************************************************************************)
EXTENDS KeySpace, FiniteSetTheorems, SequenceTheorems, TLAPS

MasterEntry == [type : {"selected", "commit"}, generation : Nat, ranges : Seq(Table)]
SlaveEntry == [generation : Nat, ranges : Seq(Table)]
FindTask == [table : Table, retry_count : Nat]
ChangeTask == [from : Master, generation : Nat, ranges : Seq(Table)]
Selecting == [type : {"selected"}, from : Master, to : {FirstSlave}, generation : Nat,
              ranges : Seq(Table)]
Reporting == [type : {"changed"}, from : Slave, to : Master, generation : Nat]
GroupState == [state : {"KeySpace", "NewKeySpace"}, ranges : Seq(Table),
               new_ranges : Seq(Table), generation : Nat]

MasterTypes ==
    /\ masterLog \in Seq(MasterEntry) /\ masterProposed \subseteq MasterEntry
    /\ masterApplied \in [Master -> Nat]
    /\ groupRanges \in [Master -> GroupState]
    /\ findQueue \in [Master -> Seq(FindTask)]
    /\ changeQueue \in [Master -> Seq(Nat)]

SlaveTypes ==
    /\ slaveLog \in Seq(SlaveEntry) /\ slaveProposed \subseteq SlaveEntry
    /\ slaveApplied \in [Slave -> Nat]
    /\ slaveRanges \in [Slave -> SlaveEntry]
    /\ slaveQueue \in [Slave -> Seq(ChangeTask)]
    /\ tablets \in [Slave -> SUBSET Table]

Types ==
    /\ MasterTypes /\ SlaveTypes
    /\ msgs \subseteq Selecting \cup Reporting
    /\ located \subseteq Table

-----------------------------------------------------------------------------
(* The invariant.                                                          *)

\* The ranges of generation g in the masters' log.
RangesOf(log, g) == IF g = 0 THEN << >> ELSE log[2 * g - 1].ranges

\* The log has the selection of generation g.
Has(log, g) == 2 * g <= Len(log) + 1

\* e may follow the log up to generation g.
IsSelection(log, g, e) ==
    /\ e.type = "selected" /\ e.generation = g + 1
    /\ \E table \in Table : /\ ~Within(RangesOf(log, g), table)
                            /\ e.ranges = Append(RangesOf(log, g), table)

\* Selections and commits alternate.
Alternates(log) ==
    \A g \in Nat :
        /\ 2 * g + 1 <= Len(log) => IsSelection(log, g, log[2 * g + 1])
        /\ 2 * g + 2 <= Len(log) => log[2 * g + 2].type = "commit" /\ log[2 * g + 2].generation = g + 1

\* Every generation adds a table to the one before.
Grows(log) ==
    /\ \A g \in Nat : Has(log, g) =>
           /\ RangesOf(log, g) \in Seq(Table) /\ Len(RangesOf(log, g)) = g
           /\ \A i, j \in 1..g : RangesOf(log, g)[i] = RangesOf(log, g)[j] => i = j
    /\ \A g, h \in Nat : g <= h /\ Has(log, h) =>
           \A i \in 1..g : RangesOf(log, h)[i] = RangesOf(log, g)[i]

\* Some slave has applied generation g.
Made(g) == \E s \in Slave : g <= slaveApplied[s]

\* What is proposed to the masters follows their log; only changes that were made are
\* committed.
ProposalsFollow ==
    /\ \A e \in masterProposed : \E g \in Nat :
           \/ Len(masterLog) = 2 * g /\ IsSelection(masterLog, g, e)
           \/ /\ Len(masterLog) = 2 * g + 1 /\ e.type = "commit" /\ e.generation = g + 1
              /\ Made(g + 1)
    /\ \A g \in Nat : 2 * g + 2 <= Len(masterLog) => Made(g + 1)

\* A master's key space is that of the log it has applied.
MastersFollow ==
    \A m \in Master :
        /\ masterApplied[m] <= Len(masterLog)
        /\ \E g \in Nat :
               \/ masterApplied[m] = 2 * g /\ groupRanges[m] = Steady(RangesOf(masterLog, g), g)
               \/ /\ masterApplied[m] = 2 * g + 1
                  /\ groupRanges[m] = Changing(RangesOf(masterLog, g), RangesOf(masterLog, g + 1), g + 1)

\* Generation g with its ranges as the masters have selected them.
Known(g, ranges) == g > 0 /\ Has(masterLog, g) /\ ranges = RangesOf(masterLog, g)

\* Messages and tasks tell of selections that were decided and of changes that were made.
MessagesTrue ==
    /\ \A msg \in msgs : \/ msg.type = "selected" /\ Known(msg.generation, msg.ranges)
                         \/ msg.type = "changed" /\ Made(msg.generation)
    /\ \A m \in Master : \A k \in 1..Len(changeQueue[m]) : Made(changeQueue[m][k])
    /\ \A s \in Slave : \A k \in 1..Len(slaveQueue[s]) :
           s = FirstSlave /\ Known(slaveQueue[s][k].generation, slaveQueue[s][k].ranges)

\* The slaves' log has the generations in order, and a slave is where it has applied it to.
SlavesFollow ==
    /\ \A k \in 1..Len(slaveLog) : slaveLog[k].generation = k /\ Known(k, slaveLog[k].ranges)
    /\ \A e \in slaveProposed : e.generation = Len(slaveLog) + 1 /\ Known(e.generation, e.ranges)
    /\ \A s \in Slave :
           /\ slaveApplied[s] <= Len(slaveLog)
           /\ slaveRanges[s].generation = slaveApplied[s]
           /\ slaveRanges[s].ranges = RangesOf(masterLog, slaveApplied[s])
           /\ \A i \in 1..slaveApplied[s] : RangesOf(masterLog, slaveApplied[s])[i] \in tablets[s]

\* The first slave, which alone proposes, keeps the task for a generation in front
\* until it has applied it: the log is at most one entry ahead of it.
FirstSlaveLeads ==
    /\ Len(slaveLog) <= slaveApplied[FirstSlave] + 1
    /\ slaveProposed # {} => Len(slaveLog) = slaveApplied[FirstSlave]
    /\ slaveProposed # {} \/ Len(slaveLog) > slaveApplied[FirstSlave] =>
           /\ Len(slaveQueue[FirstSlave]) > 0
           /\ slaveQueue[FirstSlave][1].generation = slaveApplied[FirstSlave] + 1

IInv ==
    /\ Types
    /\ Alternates(masterLog) /\ Grows(masterLog)
    /\ ProposalsFollow /\ MastersFollow
    /\ MessagesTrue /\ SlavesFollow /\ FirstSlaveLeads
    /\ AssertionsHold /\ LocatedIsServed

-----------------------------------------------------------------------------
(* How the masters' log grows.                                             *)

LEMMA Parity == ASSUME NEW n \in Nat PROVE \E g \in Nat : n = 2 * g \/ n = 2 * g + 1
<1> DEFINE g == n \div 2
<1>1. g \in Nat /\ (n = 2 * g \/ n = 2 * g + 1)
  OBVIOUS
<1>2. QED
  BY <1>1

\* What the log has of a generation stays when an entry is appended.
LEMMA RangesStay ==
    ASSUME NEW log \in Seq(MasterEntry), NEW e \in MasterEntry
    PROVE  /\ Append(log, e) \in Seq(MasterEntry) /\ Len(Append(log, e)) = Len(log) + 1
           /\ \A k \in 1..Len(log) : Append(log, e)[k] = log[k]
           /\ Append(log, e)[Len(log) + 1] = e
           /\ \A g \in Nat : Has(log, g) =>
                  Has(Append(log, e), g) /\ RangesOf(Append(log, e), g) = RangesOf(log, g)
<1> DEFINE new == Append(log, e)
<1>1. /\ new \in Seq(MasterEntry) /\ Len(new) = Len(log) + 1 /\ Len(log) \in Nat
      /\ \A k \in 1..Len(log) : new[k] = log[k]
      /\ new[Len(log) + 1] = e
  OBVIOUS
<1> HIDE DEF new
<1>2. ASSUME NEW g \in Nat, Has(log, g) PROVE Has(new, g) /\ RangesOf(new, g) = RangesOf(log, g)
  <2>1. g > 0 => 2 * g - 1 \in 1..Len(log)
    BY <1>1, <1>2 DEF Has
  <2>2. g > 0 => new[2 * g - 1] = log[2 * g - 1]
    BY <2>1, <1>1
  <2>3. QED
    BY <2>2, <1>1, <1>2 DEF Has, RangesOf
<1>3. QED
  BY <1>1, <1>2 DEF new

\* A selection that follows the log.
LEMMA AppendSelection ==
    ASSUME NEW log \in Seq(MasterEntry), Alternates(log), Grows(log),
           NEW g \in Nat, Len(log) = 2 * g, NEW e \in MasterEntry, IsSelection(log, g, e)
    PROVE  Alternates(Append(log, e)) /\ Grows(Append(log, e))
<1> DEFINE new == Append(log, e)
<1>1. /\ new \in Seq(MasterEntry) /\ Len(new) = 2 * g + 1
      /\ \A k \in 1..(2 * g) : new[k] = log[k]
      /\ new[2 * g + 1] = e
      /\ \A h \in Nat : Has(log, h) => Has(new, h) /\ RangesOf(new, h) = RangesOf(log, h)
  BY RangesStay
<1> HIDE DEF new
<1>2. \A h \in Nat : Has(log, h) <=> h <= g
  BY DEF Has
<1>3. \A h \in Nat : Has(new, h) <=> h <= g + 1
  BY <1>1 DEF Has
<1>4. \A h \in Nat : h <= g => RangesOf(new, h) = RangesOf(log, h)
  BY <1>1, <1>2
<1>5. RangesOf(new, g + 1) = e.ranges
  <2>1. 2 * (g + 1) - 1 = 2 * g + 1 /\ g + 1 # 0
    OBVIOUS
  <2>2. QED
    BY <2>1, <1>1 DEF RangesOf
<1>6. PICK table \in Table : ~Within(RangesOf(log, g), table) /\ e.ranges = Append(RangesOf(log, g), table)
  BY DEF IsSelection
<1>7. /\ RangesOf(log, g) \in Seq(Table) /\ Len(RangesOf(log, g)) = g
      /\ \A i, j \in 1..g : RangesOf(log, g)[i] = RangesOf(log, g)[j] => i = j
  BY <1>2 DEF Grows
<1>8. \A i \in 1..g : RangesOf(log, g)[i] # table
  BY <1>6, <1>7 DEF Within
<1>9. /\ e.ranges \in Seq(Table) /\ Len(e.ranges) = g + 1
      /\ \A i \in 1..g : e.ranges[i] = RangesOf(log, g)[i]
      /\ e.ranges[g + 1] = table
  BY <1>6, <1>7
<1>10. \A i, j \in 1..(g + 1) : e.ranges[i] = e.ranges[j] => i = j
  BY <1>7, <1>8, <1>9
<1>11. Alternates(new)
  <2> SUFFICES ASSUME NEW h \in Nat
               PROVE  /\ 2 * h + 1 <= 2 * g + 1 => IsSelection(new, h, new[2 * h + 1])
                      /\ 2 * h + 2 <= 2 * g + 1 =>
                             new[2 * h + 2].type = "commit" /\ new[2 * h + 2].generation = h + 1
    BY <1>1 DEF Alternates
  <2>1. CASE h = g
    <3>1. RangesOf(new, h) = RangesOf(log, h)
      BY <2>1, <1>4
    <3>2. IsSelection(new, h, new[2 * h + 1])
      BY <2>1, <3>1, <1>1 DEF IsSelection
    <3>3. QED
      BY <3>2, <2>1
  <2>2. CASE h < g
    <3>1. /\ 2 * h + 1 \in 1..(2 * g) /\ 2 * h + 2 \in 1..(2 * g)
          /\ new[2 * h + 1] = log[2 * h + 1] /\ new[2 * h + 2] = log[2 * h + 2]
      BY <2>2, <1>1
    <3>2. RangesOf(new, h) = RangesOf(log, h)
      BY <2>2, <1>4
    <3>3. IsSelection(log, h, log[2 * h + 1])
      BY <3>1, <2>2 DEF Alternates
    <3>4. log[2 * h + 2].type = "commit" /\ log[2 * h + 2].generation = h + 1
      <4>1. 2 * h + 2 <= Len(log)
        BY <3>1
      <4>2. QED
        BY <4>1 DEF Alternates
    <3>5. QED
      BY <3>1, <3>2, <3>3, <3>4 DEF IsSelection
  <2>3. CASE h > g
    BY <2>3
  <2>4. QED
    BY <2>1, <2>2, <2>3
<1>12. Grows(new)
  <2>1. ASSUME NEW h \in Nat, Has(new, h)
        PROVE  /\ RangesOf(new, h) \in Seq(Table) /\ Len(RangesOf(new, h)) = h
               /\ \A i, j \in 1..h : RangesOf(new, h)[i] = RangesOf(new, h)[j] => i = j
    <3>1. CASE h <= g
      BY <3>1, <1>2, <1>4 DEF Grows
    <3>2. CASE h = g + 1
      BY <3>2, <1>5, <1>9, <1>10
    <3>3. QED
      BY <3>1, <3>2, <2>1, <1>3
  <2>2. ASSUME NEW f \in Nat, NEW h \in Nat, f <= h, Has(new, h), NEW i \in 1..f
        PROVE  RangesOf(new, h)[i] = RangesOf(new, f)[i]
    <3>1. CASE h <= g
      <4>1. Has(log, h) /\ f <= g
        BY <3>1, <2>2, <1>2
      <4>2. RangesOf(log, h)[i] = RangesOf(log, f)[i]
        BY <4>1, <2>2 DEF Grows
      <4>3. QED
        BY <4>1, <4>2, <3>1, <1>4
    <3>2. CASE h = g + 1 /\ f <= g
      <4>1. Has(log, g)
        BY <1>2
      <4>2. RangesOf(log, g)[i] = RangesOf(log, f)[i]
        BY <4>1, <3>2 DEF Grows
      <4>3. e.ranges[i] = RangesOf(log, g)[i]
        BY <3>2, <1>9
      <4>4. QED
        BY <4>2, <4>3, <3>2, <1>4, <1>5
    <3>3. CASE f = h
      BY <3>3
    <3>4. QED
      BY <3>1, <3>2, <3>3, <2>2, <1>3
  <2>3. QED
    BY <2>1, <2>2 DEF Grows
<1>13. QED
  BY <1>11, <1>12 DEF new

\* A commit that follows the log.
LEMMA AppendCommit ==
    ASSUME NEW log \in Seq(MasterEntry), Alternates(log), Grows(log),
           NEW g \in Nat, Len(log) = 2 * g + 1, NEW e \in MasterEntry,
           e.type = "commit", e.generation = g + 1
    PROVE  Alternates(Append(log, e)) /\ Grows(Append(log, e))
<1> DEFINE new == Append(log, e)
<1>1. /\ new \in Seq(MasterEntry) /\ Len(new) = 2 * g + 2
      /\ \A k \in 1..(2 * g + 1) : new[k] = log[k]
      /\ new[2 * g + 2] = e
      /\ \A h \in Nat : Has(log, h) => Has(new, h) /\ RangesOf(new, h) = RangesOf(log, h)
  BY RangesStay
<1> HIDE DEF new
<1>2. \A h \in Nat : (Has(log, h) <=> h <= g + 1) /\ (Has(new, h) <=> h <= g + 1)
  BY <1>1 DEF Has
<1>3. Alternates(new)
  <2> SUFFICES ASSUME NEW h \in Nat
               PROVE  /\ 2 * h + 1 <= 2 * g + 2 => IsSelection(new, h, new[2 * h + 1])
                      /\ 2 * h + 2 <= 2 * g + 2 =>
                             new[2 * h + 2].type = "commit" /\ new[2 * h + 2].generation = h + 1
    BY <1>1 DEF Alternates
  <2>1. CASE h <= g
    <3>1. 2 * h + 1 \in 1..(2 * g + 1) /\ new[2 * h + 1] = log[2 * h + 1]
      BY <2>1, <1>1
    <3>2. IsSelection(log, h, log[2 * h + 1])
      BY <3>1 DEF Alternates
    <3>3. RangesOf(new, h) = RangesOf(log, h)
      BY <2>1, <1>1, <1>2
    <3>4. IsSelection(new, h, new[2 * h + 1])
      BY <3>1, <3>2, <3>3 DEF IsSelection
    <3>5. CASE h = g
      BY <3>4, <3>5, <1>1
    <3>6. CASE h < g
      <4>1. 2 * h + 2 \in 1..(2 * g + 1) /\ new[2 * h + 2] = log[2 * h + 2]
        BY <3>6, <1>1
      <4>2. log[2 * h + 2].type = "commit" /\ log[2 * h + 2].generation = h + 1
        BY <4>1 DEF Alternates
      <4>3. QED
        BY <4>1, <4>2, <3>4
    <3>7. QED
      BY <3>5, <3>6, <2>1
  <2>2. CASE h > g
    BY <2>2
  <2>3. QED
    BY <2>1, <2>2
<1>4. Grows(new)
  BY <1>1, <1>2 DEF Grows
<1>5. QED
  BY <1>3, <1>4 DEF new

-----------------------------------------------------------------------------
(* What the invariant says of a log and a master.                          *)

LEMMA InvInit == Init => IInv
<1> SUFFICES ASSUME Init PROVE IInv
  OBVIOUS
<1> USE FirstAssumption DEF Init
<1>1. Types
  BY DEF Types, MasterTypes, SlaveTypes, Steady, GroupState, SlaveEntry
<1>2. Alternates(masterLog)
  BY DEF Alternates
<1>3. Grows(masterLog)
  BY DEF Grows, Has, RangesOf
<1>4. ProposalsFollow
  BY DEF ProposalsFollow
<1>5. MastersFollow
  <2> SUFFICES ASSUME NEW m \in Master
               PROVE  /\ masterApplied[m] <= Len(masterLog)
                      /\ masterApplied[m] = 2 * 0
                      /\ groupRanges[m] = Steady(RangesOf(masterLog, 0), 0)
    BY DEF MastersFollow
  <2> QED
    BY DEF RangesOf
<1>6. MessagesTrue
  BY DEF MessagesTrue
<1>7. SlavesFollow
  BY DEF SlavesFollow, RangesOf
<1>8. FirstSlaveLeads /\ AssertionsHold /\ LocatedIsServed
  BY DEF FirstSlaveLeads, AssertionsHold, LocatedIsServed
<1>9. QED
  BY <1>1, <1>2, <1>3, <1>4, <1>5, <1>6, <1>7, <1>8 DEF IInv

\* Each part of the invariant depends on some of the variables only.
LEMMA Frame ==
    ASSUME IInv
    PROVE  /\ UNCHANGED masterLog => Alternates(masterLog)' /\ Grows(masterLog)'
           /\ UNCHANGED <<masterLog, masterProposed, slaveApplied>> => ProposalsFollow'
           /\ UNCHANGED <<masterLog, masterApplied, groupRanges>> => MastersFollow'
           /\ UNCHANGED <<masterLog, slaveApplied, msgs, changeQueue, slaveQueue>> => MessagesTrue'
           /\ UNCHANGED <<masterLog, slaveLog, slaveProposed, slaveApplied, slaveRanges, tablets>>
                  => SlavesFollow'
           /\ UNCHANGED <<slaveLog, slaveProposed, slaveApplied, slaveQueue>> => FirstSlaveLeads'
           /\ UNCHANGED aborted => AssertionsHold'
           /\ UNCHANGED <<located, tablets>> => LocatedIsServed'
<1>1. UNCHANGED masterLog => Alternates(masterLog)' /\ Grows(masterLog)'
  BY DEF IInv
<1>2. UNCHANGED <<masterLog, masterProposed, slaveApplied>> => ProposalsFollow'
  BY DEF IInv, ProposalsFollow, Made
<1>3. UNCHANGED <<masterLog, masterApplied, groupRanges>> => MastersFollow'
  BY DEF IInv, MastersFollow
<1>4. UNCHANGED <<masterLog, slaveApplied, msgs, changeQueue, slaveQueue>> => MessagesTrue'
  BY DEF IInv, MessagesTrue, Known, Made
<1>5. UNCHANGED <<masterLog, slaveLog, slaveProposed, slaveApplied, slaveRanges, tablets>>
          => SlavesFollow'
  BY DEF IInv, SlavesFollow, Known
<1>6. UNCHANGED <<slaveLog, slaveProposed, slaveApplied, slaveQueue>> => FirstSlaveLeads'
  BY DEF IInv, FirstSlaveLeads
<1>7. UNCHANGED aborted => AssertionsHold'
  BY DEF IInv, AssertionsHold
<1>8. UNCHANGED <<located, tablets>> => LocatedIsServed'
  BY DEF IInv, LocatedIsServed
<1>9. QED
  BY <1>1, <1>2, <1>3, <1>4, <1>5, <1>6, <1>7, <1>8

\* A master whose key space is steady has applied the commit of its generation, one
\* whose key space is changing the selection.
LEMMA MasterState ==
    ASSUME IInv, NEW m \in Master
    PROVE  LET g == groupRanges[m].generation
           IN /\ g \in Nat /\ masterApplied[m] \in Nat /\ masterApplied[m] <= Len(masterLog)
              /\ groupRanges[m].state = "KeySpace" =>
                     /\ masterApplied[m] = 2 * g /\ Has(masterLog, g)
                     /\ groupRanges[m] = Steady(RangesOf(masterLog, g), g)
              /\ groupRanges[m].state = "NewKeySpace" =>
                     /\ g > 0 /\ masterApplied[m] = 2 * g - 1 /\ Has(masterLog, g)
                     /\ groupRanges[m] = Changing(RangesOf(masterLog, g - 1), RangesOf(masterLog, g), g)
              /\ groupRanges[m].state \in {"KeySpace", "NewKeySpace"}
<1>1. /\ masterApplied[m] \in Nat /\ groupRanges[m] \in GroupState /\ masterLog \in Seq(MasterEntry)
      /\ masterApplied[m] <= Len(masterLog)
  BY DEF IInv, Types, MasterTypes, MastersFollow
<1>2. PICK h \in Nat :
          \/ masterApplied[m] = 2 * h /\ groupRanges[m] = Steady(RangesOf(masterLog, h), h)
          \/ /\ masterApplied[m] = 2 * h + 1
             /\ groupRanges[m] = Changing(RangesOf(masterLog, h), RangesOf(masterLog, h + 1), h + 1)
  BY DEF IInv, MastersFollow
<1>3. CASE masterApplied[m] = 2 * h /\ groupRanges[m] = Steady(RangesOf(masterLog, h), h)
  <2>1. groupRanges[m].state = "KeySpace" /\ groupRanges[m].generation = h
    BY <1>3 DEF Steady
  <2>2. QED
    BY <1>1, <1>3, <2>1 DEF Has
<1>4. CASE /\ masterApplied[m] = 2 * h + 1
           /\ groupRanges[m] = Changing(RangesOf(masterLog, h), RangesOf(masterLog, h + 1), h + 1)
  <2>1. groupRanges[m].state = "NewKeySpace" /\ groupRanges[m].generation = h + 1
    BY <1>4 DEF Changing
  <2>2. (h + 1) - 1 = h /\ 2 * (h + 1) - 1 = 2 * h + 1
    OBVIOUS
  <2> DEFINE g == groupRanges[m].generation
  <2>3. g = h + 1 /\ g \in Nat /\ g > 0 /\ g - 1 = h /\ masterApplied[m] = 2 * g - 1
    BY <1>4, <2>1, <2>2
  <2>4. groupRanges[m] = Changing(RangesOf(masterLog, g - 1), RangesOf(masterLog, g), g)
    BY <1>4, <2>3
  <2>5. Has(masterLog, g)
    BY <1>1, <2>3 DEF Has
  <2> HIDE DEF g
  <2>6. groupRanges[m].state # "KeySpace"
    BY <2>1
  <2>7. QED
    BY <1>1, <2>1, <2>3, <2>4, <2>5, <2>6 DEF g
<1>5. QED
  BY <1>2, <1>3, <1>4

-----------------------------------------------------------------------------
(* The steps of the masters.                                               *)

LEMMA StepMasterDecide == ASSUME IInv, MasterDecide PROVE IInv'
<1>1. PICK e \in masterProposed : masterLog' = Append(masterLog, e)
  BY DEF MasterDecide
<1>2. /\ masterProposed' = {}
      /\ UNCHANGED <<masterVars, slaveVars, slaveLog, slaveProposed, msgs, aborted, clientVars>>
  BY DEF MasterDecide
<1>3. masterLog \in Seq(MasterEntry) /\ e \in MasterEntry /\ Len(masterLog) \in Nat
  BY DEF IInv, Types, MasterTypes
<1>4. /\ masterLog' \in Seq(MasterEntry) /\ Len(masterLog') = Len(masterLog) + 1
      /\ \A g \in Nat : Has(masterLog, g) =>
             Has(masterLog', g) /\ RangesOf(masterLog', g) = RangesOf(masterLog, g)
  BY <1>1, <1>3, RangesStay
<1>5. PICK g \in Nat :
          \/ Len(masterLog) = 2 * g /\ IsSelection(masterLog, g, e)
          \/ /\ Len(masterLog) = 2 * g + 1 /\ e.type = "commit" /\ e.generation = g + 1
             /\ Made(g + 1)
  BY DEF IInv, ProposalsFollow
<1>6. Alternates(masterLog') /\ Grows(masterLog')
  <2>1. Alternates(masterLog) /\ Grows(masterLog)
    BY DEF IInv
  <2>2. CASE Len(masterLog) = 2 * g /\ IsSelection(masterLog, g, e)
    BY <1>1, <1>3, <2>1, <2>2, AppendSelection
  <2>3. CASE Len(masterLog) = 2 * g + 1 /\ e.type = "commit" /\ e.generation = g + 1
    BY <1>1, <1>3, <2>1, <2>3, AppendCommit
  <2>4. QED
    BY <1>5, <2>2, <2>3
<1>7. Types'
  BY <1>2, <1>4 DEF IInv, Types, MasterTypes, SlaveTypes, masterVars, slaveVars, clientVars
<1>8. ProposalsFollow'
  <2>1. ASSUME NEW h \in Nat, 2 * h + 2 <= Len(masterLog) + 1 PROVE Made(h + 1)
    <3>1. CASE 2 * h + 2 <= Len(masterLog)
      BY <3>1 DEF IInv, ProposalsFollow
    <3>2. CASE 2 * h + 2 = Len(masterLog) + 1
      <4>1. h = g /\ Len(masterLog) = 2 * g + 1
        BY <3>2, <1>5
      <4>2. QED
        BY <4>1, <1>5
    <3>3. QED
      BY <3>1, <3>2, <2>1, <1>3
  <2>2. slaveApplied' = slaveApplied
    BY <1>2 DEF slaveVars
  <2>3. QED
    BY <2>1, <2>2, <1>2, <1>4 DEF ProposalsFollow, Made
<1>9. MastersFollow'
  <2> SUFFICES ASSUME NEW m \in Master
               PROVE  /\ masterApplied[m] <= Len(masterLog')
                      /\ \E h \in Nat :
                            \/ /\ masterApplied[m] = 2 * h
                               /\ groupRanges[m] = Steady(RangesOf(masterLog', h), h)
                            \/ /\ masterApplied[m] = 2 * h + 1
                               /\ groupRanges[m] = Changing(RangesOf(masterLog', h),
                                                            RangesOf(masterLog', h + 1), h + 1)
    BY <1>2 DEF MastersFollow, masterVars
  <2>1. PICK h \in Nat :
            \/ masterApplied[m] = 2 * h /\ groupRanges[m] = Steady(RangesOf(masterLog, h), h)
            \/ /\ masterApplied[m] = 2 * h + 1
               /\ groupRanges[m] = Changing(RangesOf(masterLog, h), RangesOf(masterLog, h + 1), h + 1)
    BY DEF IInv, MastersFollow
  <2>2. masterApplied[m] \in Nat /\ masterApplied[m] <= Len(masterLog)
    BY DEF IInv, MastersFollow, Types, MasterTypes
  <2>3. RangesOf(masterLog', h) = RangesOf(masterLog, h)
    BY <2>1, <2>2, <1>3, <1>4 DEF Has
  <2>4. masterApplied[m] = 2 * h + 1 => RangesOf(masterLog', h + 1) = RangesOf(masterLog, h + 1)
    BY <2>2, <1>3, <1>4 DEF Has
  <2>5. QED
    BY <2>1, <2>2, <2>3, <2>4, <1>3, <1>4
<1>10. ASSUME NEW h \in Nat, NEW ranges, Known(h, ranges)
       PROVE  h > 0 /\ Has(masterLog', h) /\ ranges = RangesOf(masterLog', h)
  BY <1>10, <1>4 DEF Known
<1>11. MessagesTrue'
  <2>1. \A msg \in msgs : msg.generation \in Nat
    BY DEF IInv, Types, Selecting, Reporting
  <2>2. ASSUME NEW s \in Slave, NEW k \in 1..Len(slaveQueue[s])
        PROVE  slaveQueue[s][k].generation \in Nat
    <3>1. slaveQueue[s] \in Seq(ChangeTask)
      BY DEF IInv, Types, SlaveTypes
    <3>2. slaveQueue[s][k] \in ChangeTask
      BY <3>1, ElementOfSeq
    <3>3. QED
      BY <3>2 DEF ChangeTask
  <2>3. /\ msgs' = msgs /\ changeQueue' = changeQueue /\ slaveQueue' = slaveQueue
        /\ slaveApplied' = slaveApplied
    BY <1>2 DEF masterVars, slaveVars
  <2>4. \A msg \in msgs' : \/ msg.type = "selected" /\ Known(msg.generation, msg.ranges)'
                           \/ msg.type = "changed" /\ Made(msg.generation)'
    BY <2>1, <2>3, <1>10 DEF IInv, MessagesTrue, Known, Made
  <2>5. \A s \in Slave : \A k \in 1..Len(slaveQueue'[s]) :
            s = FirstSlave /\ Known(slaveQueue[s][k].generation, slaveQueue[s][k].ranges)'
    BY <2>2, <2>3, <1>10 DEF IInv, MessagesTrue, Known
  <2>6. QED
    BY <2>3, <2>4, <2>5 DEF IInv, MessagesTrue, Made
<1>12. SlavesFollow'
  <2>1. /\ slaveLog' = slaveLog /\ slaveProposed' = slaveProposed /\ slaveApplied' = slaveApplied
        /\ slaveRanges' = slaveRanges /\ tablets' = tablets
    BY <1>2 DEF slaveVars
  <2>2. \A k \in 1..Len(slaveLog) : slaveLog[k].generation = k /\ Known(k, slaveLog[k].ranges)'
    <3> SUFFICES ASSUME NEW k \in 1..Len(slaveLog)
                 PROVE  slaveLog[k].generation = k /\ Known(k, slaveLog[k].ranges)'
      OBVIOUS
    <3>1. k \in Nat /\ slaveLog[k].generation = k /\ Known(k, slaveLog[k].ranges)
      BY DEF IInv, SlavesFollow
    <3>2. k > 0 /\ Has(masterLog', k) /\ slaveLog[k].ranges = RangesOf(masterLog', k)
      BY <3>1, <1>10
    <3>3. QED
      BY <3>1, <3>2, <2>1 DEF Known
  <2>3. \A x \in slaveProposed : x.generation = Len(slaveLog) + 1 /\ Known(x.generation, x.ranges)'
    <3>1. \A x \in slaveProposed : x.generation \in Nat
      BY DEF IInv, Types, SlaveTypes, SlaveEntry
    <3>2. QED
      BY <3>1, <1>10 DEF IInv, SlavesFollow, Known
  <2>4. ASSUME NEW s \in Slave PROVE RangesOf(masterLog', slaveApplied[s]) = RangesOf(masterLog, slaveApplied[s])
    <3>1. slaveApplied[s] \in Nat /\ slaveApplied[s] <= Len(slaveLog) /\ Len(slaveLog) \in Nat
      BY DEF IInv, Types, SlaveTypes, SlavesFollow
    <3>2. slaveApplied[s] > 0 => Has(masterLog, slaveApplied[s])
      BY <3>1 DEF IInv, SlavesFollow, Known
    <3>3. QED
      BY <3>1, <3>2, <1>4 DEF RangesOf
  <2>5. QED
    BY <2>1, <2>2, <2>3, <2>4 DEF IInv, SlavesFollow
<1>13. FirstSlaveLeads' /\ AssertionsHold' /\ LocatedIsServed'
  BY <1>2, Frame DEF slaveVars, clientVars
<1>14. QED
  BY <1>6, <1>7, <1>8, <1>9, <1>11, <1>12, <1>13 DEF IInv

\* Applying an entry never fails an assertion: it is the one that the state waits for.
LEMMA StepMasterApply == ASSUME IInv, NEW m \in Master, MasterApply(m) PROVE IInv'
<1> DEFINE index == masterApplied[m] + 1
           e == masterLog[index]
           g == groupRanges[m].generation
<1>1. /\ index <= Len(masterLog) /\ masterApplied' = [masterApplied EXCEPT ![m] = index]
      /\ ApplySelected(m, e) \/ ApplyCommit(m, e)
      /\ UNCHANGED <<findQueue, changeQueue, slaveVars, logVars, clientVars>>
  BY DEF MasterApply
<1>2. /\ masterLog \in Seq(MasterEntry) /\ masterApplied \in [Master -> Nat]
      /\ groupRanges \in [Master -> GroupState]
      /\ Alternates(masterLog) /\ Grows(masterLog)
      /\ index \in Nat /\ Len(masterLog) \in Nat /\ index \in 1..Len(masterLog)
  BY <1>1 DEF IInv, Types, MasterTypes
<1>3. /\ g \in Nat
      /\ groupRanges[m].state = "KeySpace" =>
             masterApplied[m] = 2 * g /\ groupRanges[m] = Steady(RangesOf(masterLog, g), g)
      /\ groupRanges[m].state = "NewKeySpace" =>
             /\ g > 0 /\ masterApplied[m] = 2 * g - 1
             /\ groupRanges[m] = Changing(RangesOf(masterLog, g - 1), RangesOf(masterLog, g), g)
      /\ groupRanges[m].state \in {"KeySpace", "NewKeySpace"}
  BY MasterState
<1>4. masterLog' = masterLog /\ slaveApplied' = slaveApplied
  BY <1>1 DEF logVars, slaveVars
<1>5. CASE groupRanges[m].state = "KeySpace"
  <2> DEFINE msg == SelectedMessage(m, Changing(RangesOf(masterLog, g), e.ranges, g + 1))
  <2>1. index = 2 * g + 1 /\ e.type = "selected" /\ e.generation = g + 1
    BY <1>2, <1>3, <1>5 DEF Alternates, IsSelection
  <2>2. e.ranges = RangesOf(masterLog, g + 1) /\ Has(masterLog, g + 1)
    <3>1. 2 * (g + 1) - 1 = index /\ g + 1 # 0
      BY <1>3, <2>1
    <3>2. RangesOf(masterLog, g + 1) = masterLog[2 * (g + 1) - 1].ranges
      BY <3>1 DEF RangesOf
    <3>3. masterLog[2 * (g + 1) - 1] = e
      BY <3>1
    <3>4. Has(masterLog, g + 1)
      BY <3>1, <1>1, <1>2, <1>3 DEF Has
    <3>5. QED
      BY <3>2, <3>3, <3>4
  <2>3. groupRanges[m].ranges = RangesOf(masterLog, g)
    BY <1>3, <1>5 DEF Steady
  <2>4. /\ groupRanges' = [groupRanges EXCEPT ![m] = Changing(RangesOf(masterLog, g), e.ranges, g + 1)]
        /\ msgs' = msgs \cup {msg}
        /\ aborted' = aborted
    <3>1. ApplySelected(m, e)
      BY <1>1, <2>1 DEF ApplyCommit
    <3>2. /\ groupRanges' = [groupRanges EXCEPT ![m] = Changing(groupRanges[m].ranges, e.ranges, e.generation)]
          /\ msgs' = msgs \cup {SelectedMessage(m, groupRanges'[m])}
          /\ aborted' = aborted
      BY <3>1, <2>1, <1>5 DEF ApplySelected
    <3>3. groupRanges'[m] = Changing(RangesOf(masterLog, g), e.ranges, g + 1)
      BY <3>2, <2>1, <2>3, <1>2
    <3>4. QED
      BY <3>2, <3>3, <2>1, <2>3
  <2> HIDE DEF index, e, g
  <2>5. e \in MasterEntry /\ e.ranges \in Seq(Table) /\ RangesOf(masterLog, g) \in Seq(Table)
    <3>1. e \in MasterEntry
      BY <1>2, ElementOfSeq DEF e
    <3>2. groupRanges[m].ranges \in Seq(Table)
      BY <1>2 DEF GroupState
    <3>3. e.ranges \in Seq(Table)
      BY <3>1 DEF MasterEntry
    <3>4. QED
      BY <3>1, <3>2, <3>3, <2>3
  <2>6. msg \in Selecting /\ msg.type = "selected" /\ msg.generation = g + 1 /\ msg.ranges = e.ranges
    BY <2>5, <1>3 DEF SelectedMessage, Changing, Selecting
  <2>7. Types'
    <3>1. Changing(RangesOf(masterLog, g), e.ranges, g + 1) \in GroupState
      BY <2>5, <1>3 DEF Changing, GroupState
    <3>2. groupRanges' \in [Master -> GroupState]
      BY <3>1, <2>4, <1>2
    <3>3. masterApplied' \in [Master -> Nat]
      BY <1>1, <1>2
    <3>4. msgs' \subseteq Selecting \cup Reporting
      BY <2>4, <2>6 DEF IInv, Types
    <3>5. QED
      BY <3>2, <3>3, <3>4, <1>1 DEF IInv, Types, MasterTypes, SlaveTypes, slaveVars, logVars, clientVars
  <2>8. MastersFollow'
    <3> SUFFICES ASSUME NEW n \in Master
                 PROVE  /\ masterApplied'[n] <= Len(masterLog)
                        /\ \E h \in Nat :
                            \/ masterApplied'[n] = 2 * h /\ groupRanges'[n] = Steady(RangesOf(masterLog, h), h)
                            \/ /\ masterApplied'[n] = 2 * h + 1
                               /\ groupRanges'[n] = Changing(RangesOf(masterLog, h), RangesOf(masterLog, h + 1), h + 1)
      BY <1>4 DEF MastersFollow
    <3>1. CASE n = m
      BY <3>1, <1>1, <1>2, <1>3, <2>1, <2>2, <2>4
    <3>2. CASE n # m
      BY <3>2, <1>1, <1>2, <2>4 DEF IInv, MastersFollow
    <3>3. QED
      BY <3>1, <3>2
  <2>9. MessagesTrue'
    <3>1. Known(msg.generation, msg.ranges)
      BY <2>2, <2>6, <1>3 DEF Known
    <3>2. \A x \in msgs' : \/ x.type = "selected" /\ Known(x.generation, x.ranges)
                           \/ x.type = "changed" /\ Made(x.generation)
      BY <3>1, <2>4, <2>6 DEF IInv, MessagesTrue
    <3>3. changeQueue' = changeQueue /\ slaveQueue' = slaveQueue
      BY <1>1 DEF slaveVars
    <3>4. QED
      BY <3>2, <3>3, <1>4 DEF IInv, MessagesTrue, Known, Made
  <2>10. QED
    BY <1>1, <2>4, <2>7, <2>8, <2>9, Frame DEF IInv, slaveVars, logVars, clientVars
<1>6. CASE groupRanges[m].state = "NewKeySpace"
  <2>1. g - 1 \in Nat /\ index = 2 * (g - 1) + 2
    BY <1>3, <1>6
  <2>2. e.type = "commit" /\ e.generation = g
    <3>1. 2 * (g - 1) + 2 <= Len(masterLog)
      BY <2>1, <1>1
    <3>2. /\ masterLog[2 * (g - 1) + 2].type = "commit"
          /\ masterLog[2 * (g - 1) + 2].generation = (g - 1) + 1
      <4> HIDE DEF g
      <4> QED
        BY <2>1, <3>1, <1>2 DEF Alternates
    <3>3. (g - 1) + 1 = g
      BY <1>3
    <3>4. QED
      BY <2>1, <3>2, <3>3
  <2>3. groupRanges[m].new_ranges = RangesOf(masterLog, g)
    BY <1>3, <1>6 DEF Changing
  <2>4. /\ groupRanges' = [groupRanges EXCEPT ![m] = Steady(RangesOf(masterLog, g), g)]
        /\ msgs' = msgs
        /\ aborted' = aborted
    <3>1. ApplyCommit(m, e)
      BY <1>1, <2>2 DEF ApplySelected
    <3>2. QED
      BY <3>1, <2>2, <2>3, <1>6 DEF ApplyCommit, Committed
  <2> HIDE DEF index, e, g
  <2>5. Types'
    <3>1. groupRanges[m].new_ranges \in Seq(Table)
      BY <1>2 DEF GroupState
    <3>2. Steady(RangesOf(masterLog, g), g) \in GroupState
      BY <3>1, <2>3, <1>3 DEF Steady, GroupState
    <3>3. groupRanges' \in [Master -> GroupState]
      BY <3>2, <2>4, <1>2
    <3>4. masterApplied' \in [Master -> Nat]
      BY <1>1, <1>2
    <3>5. QED
      BY <3>3, <3>4, <1>1, <2>4 DEF IInv, Types, MasterTypes, SlaveTypes, slaveVars, logVars, clientVars
  <2>6. MastersFollow'
    <3> SUFFICES ASSUME NEW n \in Master
                 PROVE  /\ masterApplied'[n] <= Len(masterLog)
                        /\ \E h \in Nat :
                            \/ masterApplied'[n] = 2 * h /\ groupRanges'[n] = Steady(RangesOf(masterLog, h), h)
                            \/ /\ masterApplied'[n] = 2 * h + 1
                               /\ groupRanges'[n] = Changing(RangesOf(masterLog, h), RangesOf(masterLog, h + 1), h + 1)
      BY <1>4 DEF MastersFollow
    <3>1. CASE n = m
      <4>1. masterApplied'[n] = 2 * g
        BY <3>1, <1>1, <1>2, <1>3, <2>1
      <4>2. groupRanges'[n] = Steady(RangesOf(masterLog, g), g)
        BY <3>1, <1>2, <2>4
      <4>3. masterApplied'[n] <= Len(masterLog)
        BY <3>1, <1>1, <1>2
      <4>4. QED
        BY <4>1, <4>2, <4>3, <1>3
    <3>2. CASE n # m
      BY <3>2, <1>1, <1>2, <2>4 DEF IInv, MastersFollow
    <3>3. QED
      BY <3>1, <3>2
  <2>7. QED
    BY <1>1, <2>4, <2>5, <2>6, Frame DEF IInv, slaveVars, logVars, clientVars
<1>7. QED
  BY <1>3, <1>5, <1>6

\* The queue of a master after its first task has changed or ended.
LEMMA FindQueueTypes ==
    ASSUME IInv, NEW m \in Master, findQueue[m] # << >>
    PROVE  /\ Head(findQueue[m]) \in FindTask /\ Wanted(m) \in Table
           /\ EndFind(m) => findQueue' \in [Master -> Seq(FindTask)]
           /\ findQueue' = [findQueue EXCEPT ![m][1].retry_count = @ + 1] =>
                  findQueue' \in [Master -> Seq(FindTask)]
<1>1. findQueue \in [Master -> Seq(FindTask)] /\ findQueue[m] \in Seq(FindTask)
  BY DEF IInv, Types, MasterTypes
<1>2. Head(findQueue[m]) \in FindTask /\ Tail(findQueue[m]) \in Seq(FindTask)
  BY <1>1, HeadTailProperties
<1>3. Wanted(m) \in Table
  BY <1>2 DEF Wanted, FindTask
<1>4. EndFind(m) => findQueue' \in [Master -> Seq(FindTask)]
  BY <1>1, <1>2 DEF EndFind
<1>5. ASSUME findQueue' = [findQueue EXCEPT ![m][1].retry_count = @ + 1]
      PROVE  findQueue' \in [Master -> Seq(FindTask)]
  <2> DEFINE q == findQueue[m]
             task == [q[1] EXCEPT !.retry_count = @ + 1]
  <2>1. q \in Seq(FindTask) /\ Len(q) \in Nat /\ 1 \in 1..Len(q)
    BY <1>1
  <2>2. q[1] \in FindTask
    BY <2>1, ElementOfSeq
  <2>3. task \in FindTask
    BY <2>2 DEF FindTask
  <2>4. [q EXCEPT ![1] = task] \in Seq(FindTask)
    <3> HIDE DEF task, q
    <3> QED
      BY <2>1, <2>3
  <2>5. findQueue' = [findQueue EXCEPT ![m] = [q EXCEPT ![1] = task]]
    BY <1>5, <1>1
  <2>6. QED
    BY <2>4, <2>5, <1>1
<1>6. QED
  BY <1>2, <1>3, <1>4, <1>5

LEMMA StepHandleFindKey ==
    ASSUME IInv, NEW m \in Master, NEW table \in Table, HandleFindKey(m, table) PROVE IInv'
<1>1. /\ findQueue' = [findQueue EXCEPT ![m] = Append(@, [table |-> table, retry_count |-> 0])]
      /\ UNCHANGED <<masterApplied, groupRanges, changeQueue, slaveVars, logVars, msgs, aborted, located>>
  BY DEF HandleFindKey
<1>2. [table |-> table, retry_count |-> 0] \in FindTask
  BY DEF FindTask
<1>3. findQueue' \in [Master -> Seq(FindTask)]
  BY <1>1, <1>2 DEF IInv, Types, MasterTypes
<1>4. Types'
  BY <1>1, <1>3 DEF IInv, Types, MasterTypes, SlaveTypes, slaveVars, logVars
<1>5. QED
  BY <1>1, <1>4, Frame DEF IInv, slaveVars, logVars

\* A table is located when its range is committed, thus made by a slave.
LEMMA StepFindAnswer == ASSUME IInv, NEW m \in Master, FindAnswer(m) PROVE IInv'
<1> DEFINE table == Wanted(m)
           g == groupRanges[m].generation
<1>1. /\ IsHome(m, table) /\ located' = located \cup {table} /\ EndFind(m) /\ findQueue[m] # << >>
      /\ UNCHANGED <<masterApplied, groupRanges, changeQueue, slaveVars, logVars, msgs, aborted>>
  BY DEF FindAnswer, Respond, Finding
<1>2. table \in Table /\ findQueue' \in [Master -> Seq(FindTask)]
  BY <1>1, FindQueueTypes
<1>3. Types'
  BY <1>1, <1>2 DEF IInv, Types, MasterTypes, SlaveTypes, slaveVars, logVars
<1>4. LocatedIsServed'
  <2>1. /\ g \in Nat /\ masterApplied[m] = 2 * g /\ Has(masterLog, g) /\ 2 * g <= Len(masterLog)
        /\ groupRanges[m].ranges = RangesOf(masterLog, g)
    <3>1. /\ g \in Nat /\ masterApplied[m] = 2 * g /\ Has(masterLog, g) /\ 2 * g <= Len(masterLog)
          /\ groupRanges[m] = Steady(RangesOf(masterLog, g), g)
      BY <1>1, MasterState DEF IsHome
    <3> HIDE DEF g
    <3>2. QED
      BY <3>1 DEF Steady
  <2> HIDE DEF g, table
  <2>2. PICK i \in 1..g : RangesOf(masterLog, g)[i] = table
    BY <2>1, <1>1 DEF IsHome, Within, IInv, Grows
  <2>3. Made(g)
    <3>1. g - 1 \in Nat /\ 2 * (g - 1) + 2 <= Len(masterLog) /\ (g - 1) + 1 = g
      BY <2>1, <2>2
    <3>2. QED
      BY <3>1 DEF IInv, ProposalsFollow
  <2>4. PICK s \in Slave : g <= slaveApplied[s]
    BY <2>3 DEF Made
  <2>5. /\ slaveApplied[s] \in Nat /\ slaveApplied[s] > 0 /\ slaveApplied[s] \in 1..Len(slaveLog)
        /\ i \in 1..slaveApplied[s]
    BY <2>1, <2>2, <2>4 DEF IInv, Types, SlaveTypes, SlavesFollow
  <2>6. Has(masterLog, slaveApplied[s])
    BY <2>5 DEF IInv, SlavesFollow, Known
  <2>7. RangesOf(masterLog, slaveApplied[s])[i] = table
    BY <2>1, <2>2, <2>4, <2>5, <2>6 DEF IInv, Grows
  <2>8. table \in tablets[s]
    BY <2>5, <2>7 DEF IInv, SlavesFollow
  <2>9. QED
    BY <2>8, <1>1 DEF IInv, LocatedIsServed, slaveVars
<1>5. QED
  BY <1>1, <1>3, <1>4, Frame DEF IInv, slaveVars, logVars

LEMMA StepFindRemind == ASSUME IInv, NEW m \in Master, FindRemind(m) PROVE IInv'
<1> DEFINE g == groupRanges[m].generation
           msg == SelectedMessage(m, groupRanges[m])
<1>1. /\ groupRanges[m].state = "NewKeySpace" /\ msgs' = msgs \cup {msg}
      /\ UNCHANGED <<masterVars, slaveVars, logVars, aborted, clientVars>>
  BY DEF FindRemind, IsComing
<1>2. /\ g \in Nat /\ g > 0 /\ Has(masterLog, g)
      /\ groupRanges[m].new_ranges = RangesOf(masterLog, g)
  <2>1. /\ g \in Nat /\ g > 0 /\ Has(masterLog, g)
        /\ groupRanges[m] = Changing(RangesOf(masterLog, g - 1), RangesOf(masterLog, g), g)
    BY <1>1, MasterState
  <2> HIDE DEF g
  <2>2. QED
    BY <2>1 DEF Changing
<1>3. groupRanges[m].new_ranges \in Seq(Table)
  BY DEF IInv, Types, MasterTypes, GroupState
<1>4. /\ msg \in Selecting /\ msg.type = "selected" /\ msg.generation = g
      /\ msg.ranges = RangesOf(masterLog, g)
  BY <1>2, <1>3 DEF SelectedMessage, Selecting
<1> HIDE DEF msg, g
<1>5. Types'
  BY <1>1, <1>4 DEF IInv, Types, MasterTypes, SlaveTypes, masterVars, slaveVars, logVars, clientVars
<1>6. MessagesTrue'
  <2>1. \A x \in msgs' : \/ x.type = "selected" /\ Known(x.generation, x.ranges)
                         \/ x.type = "changed" /\ Made(x.generation)
    BY <1>1, <1>2, <1>4 DEF IInv, MessagesTrue, Known
  <2>2. QED
    BY <2>1, <1>1 DEF IInv, MessagesTrue, Known, Made, masterVars, slaveVars, logVars
<1>7. QED
  BY <1>1, <1>5, <1>6, Frame DEF IInv, masterVars, slaveVars, logVars, clientVars

LEMMA StepFindGiveUp == ASSUME IInv, NEW m \in Master, FindGiveUp(m) PROVE IInv'
<1>1. /\ located' = located /\ EndFind(m) /\ findQueue[m] # << >>
      /\ UNCHANGED <<masterApplied, groupRanges, changeQueue, slaveVars, logVars, msgs, aborted>>
  BY DEF FindGiveUp, Respond, Finding
<1>2. findQueue' \in [Master -> Seq(FindTask)]
  BY <1>1, FindQueueTypes
<1>3. Types'
  BY <1>1, <1>2 DEF IInv, Types, MasterTypes, SlaveTypes, slaveVars, logVars
<1>4. QED
  BY <1>1, <1>3, Frame DEF IInv, slaveVars, logVars

\* A master that has applied the whole log selects from the generation that the log ends
\* with, and a table that it does not have.
LEMMA StepFindSelect == ASSUME IInv, NEW m \in Master, FindSelect(m) PROVE IInv'
<1> DEFINE table == Wanted(m)
           g == groupRanges[m].generation
           e == SelectedEntry(groupRanges[m], table)
<1>1. /\ groupRanges[m].state = "KeySpace" /\ ~IsHome(m, table) /\ findQueue[m] # << >>
      /\ masterProposed' = IF masterApplied[m] = Len(masterLog)
                           THEN masterProposed \cup {e} ELSE masterProposed
      /\ findQueue' = [findQueue EXCEPT ![m][1].retry_count = @ + 1]
      /\ UNCHANGED <<masterApplied, groupRanges, changeQueue, slaveVars, masterLog, slaveLog,
                     slaveProposed, msgs, aborted, clientVars>>
  BY DEF FindSelect, Finding, MaySelect, MasterPropose
<1>2. table \in Table /\ findQueue' \in [Master -> Seq(FindTask)]
  BY <1>1, FindQueueTypes
<1>3. /\ g \in Nat /\ masterApplied[m] = 2 * g
      /\ groupRanges[m].ranges = RangesOf(masterLog, g)
  <2>1. /\ g \in Nat /\ masterApplied[m] = 2 * g
        /\ groupRanges[m] = Steady(RangesOf(masterLog, g), g)
    BY <1>1, MasterState
  <2> HIDE DEF g
  <2>2. QED
    BY <2>1 DEF Steady
<1>4. groupRanges[m].ranges \in Seq(Table)
  BY DEF IInv, Types, MasterTypes, GroupState
<1>5. ~Within(RangesOf(masterLog, g), table)
  BY <1>1, <1>3 DEF IsHome
<1>6. /\ e \in MasterEntry /\ e.type = "selected" /\ e.generation = g + 1
      /\ e.ranges = Append(RangesOf(masterLog, g), table)
  BY <1>2, <1>3, <1>4 DEF SelectedEntry, MasterEntry
<1> HIDE DEF table, g, e
<1>7. IsSelection(masterLog, g, e)
  BY <1>2, <1>5, <1>6 DEF IsSelection
<1>8. Types'
  BY <1>1, <1>2, <1>6 DEF IInv, Types, MasterTypes, SlaveTypes, slaveVars, clientVars
<1>9. ProposalsFollow'
  <2>1. masterApplied[m] = Len(masterLog) => Len(masterLog) = 2 * g
    BY <1>3
  <2>2. \A x \in masterProposed' : \E h \in Nat :
           \/ Len(masterLog) = 2 * h /\ IsSelection(masterLog, h, x)
           \/ /\ Len(masterLog) = 2 * h + 1 /\ x.type = "commit" /\ x.generation = h + 1
              /\ Made(h + 1)
    <3> SUFFICES ASSUME NEW x \in masterProposed', x \notin masterProposed
                 PROVE  \E h \in Nat : Len(masterLog) = 2 * h /\ IsSelection(masterLog, h, x)
      BY DEF IInv, ProposalsFollow
    <3>1. x = e /\ Len(masterLog) = 2 * g
      BY <1>1, <2>1
    <3>2. QED
      BY <3>1, <1>3, <1>7
  <2>3. slaveApplied' = slaveApplied /\ masterLog' = masterLog
    BY <1>1 DEF slaveVars
  <2>4. QED
    BY <2>2, <2>3 DEF IInv, ProposalsFollow, Made
<1>10. QED
  BY <1>1, <1>8, <1>9, Frame DEF IInv, slaveVars, clientVars

\* A report is a change that was made, so a commit that is proposed is of one, too.
LEMMA StepChangeCommit == ASSUME IInv, NEW m \in Master, ChangeCommit(m) PROVE IInv'
<1> DEFINE g == groupRanges[m].generation
           e == CommitEntry(g)
<1>1. /\ changeQueue[m] # << >> /\ groupRanges[m].state = "NewKeySpace" /\ g = Head(changeQueue[m])
      /\ masterProposed' = IF masterApplied[m] = Len(masterLog)
                           THEN masterProposed \cup {e} ELSE masterProposed
      /\ UNCHANGED <<masterVars, slaveVars, masterLog, slaveLog, slaveProposed, msgs, aborted, clientVars>>
  BY DEF ChangeCommit, IsAwaited, MasterPropose
<1>2. g \in Nat /\ g > 0 /\ masterApplied[m] = 2 * g - 1
  BY <1>1, MasterState
<1>3. Made(g)
  <2>1. changeQueue[m] \in Seq(Nat)
    BY DEF IInv, Types, MasterTypes
  <2>2. 1 \in 1..Len(changeQueue[m]) /\ Head(changeQueue[m]) = changeQueue[m][1]
    BY <2>1, <1>1
  <2>3. QED
    BY <2>2, <1>1 DEF IInv, MessagesTrue
<1>4. e \in MasterEntry /\ e.type = "commit" /\ e.generation = g
  BY <1>2 DEF CommitEntry, MasterEntry
<1> HIDE DEF g, e
<1>5. Types'
  BY <1>1, <1>4 DEF IInv, Types, MasterTypes, SlaveTypes, slaveVars, masterVars, clientVars
<1>6. ProposalsFollow'
  <2>1. \A x \in masterProposed' : \E h \in Nat :
           \/ Len(masterLog) = 2 * h /\ IsSelection(masterLog, h, x)
           \/ /\ Len(masterLog) = 2 * h + 1 /\ x.type = "commit" /\ x.generation = h + 1
              /\ Made(h + 1)
    <3> SUFFICES ASSUME NEW x \in masterProposed', x \notin masterProposed
                 PROVE  \E h \in Nat : /\ Len(masterLog) = 2 * h + 1 /\ x.type = "commit"
                                       /\ x.generation = h + 1 /\ Made(h + 1)
      BY DEF IInv, ProposalsFollow
    <3>1. x = e /\ Len(masterLog) = 2 * g - 1
      BY <1>1, <1>2
    <3>2. g - 1 \in Nat /\ (g - 1) + 1 = g /\ 2 * (g - 1) + 1 = 2 * g - 1
      BY <1>2
    <3>3. QED
      BY <3>1, <3>2, <1>3, <1>4
  <2>2. slaveApplied' = slaveApplied /\ masterLog' = masterLog
    BY <1>1 DEF slaveVars
  <2>3. QED
    BY <2>1, <2>2 DEF IInv, ProposalsFollow, Made
<1>7. QED
  BY <1>1, <1>5, <1>6, Frame DEF IInv, masterVars, slaveVars, clientVars

LEMMA StepChangeEnd == ASSUME IInv, NEW m \in Master, ChangeEnd(m) PROVE IInv'
<1>1. /\ changeQueue[m] # << >> /\ changeQueue' = [changeQueue EXCEPT ![m] = Tail(@)]
      /\ UNCHANGED <<masterApplied, groupRanges, findQueue, slaveVars, logVars, msgs, aborted, clientVars>>
  BY DEF ChangeEnd
<1>2. changeQueue \in [Master -> Seq(Nat)] /\ changeQueue[m] \in Seq(Nat)
  BY DEF IInv, Types, MasterTypes
<1>3. /\ Tail(changeQueue[m]) \in Seq(Nat)
      /\ \A k \in 1..Len(Tail(changeQueue[m])) :
             /\ k + 1 \in 1..Len(changeQueue[m])
             /\ Tail(changeQueue[m])[k] = changeQueue[m][k + 1]
  BY <1>1, <1>2
<1>4. changeQueue' \in [Master -> Seq(Nat)]
  BY <1>1, <1>2, <1>3
<1>5. Types'
  BY <1>1, <1>4 DEF IInv, Types, MasterTypes, SlaveTypes, slaveVars, logVars, clientVars
<1>6. MessagesTrue'
  <2>1. ASSUME NEW n \in Master, NEW k \in 1..Len(changeQueue'[n]) PROVE Made(changeQueue'[n][k])
    <3>1. CASE n = m
      BY <3>1, <2>1, <1>1, <1>2, <1>3 DEF IInv, MessagesTrue
    <3>2. CASE n # m
      BY <3>2, <2>1, <1>1, <1>2 DEF IInv, MessagesTrue
    <3>3. QED
      BY <3>1, <3>2
  <2>2. QED
    BY <2>1, <1>1 DEF IInv, MessagesTrue, Known, Made, slaveVars, logVars
<1>7. QED
  BY <1>1, <1>5, <1>6, Frame DEF IInv, slaveVars, logVars, clientVars

LEMMA StepHandleKeySpaceChanged ==
    ASSUME IInv, NEW msg \in msgs, HandleKeySpaceChanged(msg) PROVE IInv'
<1> DEFINE m == msg.to
           g == msg.generation
<1>1. /\ msg.type = "changed" /\ changeQueue' = [changeQueue EXCEPT ![m] = Append(@, g)]
      /\ msgs' = msgs \ {msg}
      /\ UNCHANGED <<masterApplied, groupRanges, findQueue, slaveVars, logVars, aborted, clientVars>>
  BY DEF HandleKeySpaceChanged
<1>2. m \in Master /\ g \in Nat
  BY <1>1 DEF IInv, Types, Selecting, Reporting
<1>3. Made(g)
  BY <1>1 DEF IInv, MessagesTrue
<1> HIDE DEF m, g
<1>4. changeQueue \in [Master -> Seq(Nat)] /\ changeQueue[m] \in Seq(Nat)
  BY <1>2 DEF IInv, Types, MasterTypes
<1>5. changeQueue' \in [Master -> Seq(Nat)] /\ changeQueue'[m] = Append(changeQueue[m], g)
  BY <1>1, <1>2, <1>4
<1>6. Types'
  BY <1>1, <1>5 DEF IInv, Types, MasterTypes, SlaveTypes, slaveVars, logVars, clientVars
<1>7. MessagesTrue'
  <2>1. ASSUME NEW n \in Master, NEW k \in 1..Len(changeQueue'[n]) PROVE Made(changeQueue'[n][k])
    <3>1. CASE n = m
      <4>1. CASE k \in 1..Len(changeQueue[m])
        BY <4>1, <3>1, <1>4, <1>5 DEF IInv, MessagesTrue
      <4>2. CASE k = Len(changeQueue[m]) + 1
        BY <4>2, <3>1, <1>3, <1>4, <1>5
      <4>3. QED
        BY <4>1, <4>2, <3>1, <2>1, <1>4, <1>5, <1>2
    <3>2. CASE n # m
      BY <3>2, <2>1, <1>1, <1>4 DEF IInv, MessagesTrue
    <3>3. QED
      BY <3>1, <3>2
  <2>2. QED
    BY <2>1, <1>1 DEF IInv, MessagesTrue, Known, Made, slaveVars, logVars
<1>8. QED
  BY <1>1, <1>6, <1>7, Frame DEF IInv, slaveVars, logVars, clientVars

-----------------------------------------------------------------------------
(* The steps of the slaves.                                                *)

\* What the invariant says of a slave, and of the one that proposes.
LEMMA SlaveState ==
    ASSUME IInv, NEW s \in Slave
    PROVE  /\ slaveApplied[s] \in Nat /\ Len(slaveLog) \in Nat /\ slaveApplied[s] <= Len(slaveLog)
           /\ slaveRanges[s].generation = slaveApplied[s]
           /\ Has(masterLog, slaveApplied[s])
<1>1. /\ slaveApplied[s] \in Nat /\ Len(slaveLog) \in Nat /\ slaveApplied[s] <= Len(slaveLog)
      /\ slaveRanges[s].generation = slaveApplied[s] /\ Len(masterLog) \in Nat
  BY DEF IInv, Types, SlaveTypes, MasterTypes, SlavesFollow
<1>2. CASE slaveApplied[s] = 0
  BY <1>1, <1>2 DEF Has
<1>3. CASE slaveApplied[s] > 0
  BY <1>1, <1>3 DEF IInv, SlavesFollow, Known
<1>4. QED
  BY <1>1, <1>2, <1>3

LEMMA StepSlaveDecide == ASSUME IInv, SlaveDecide PROVE IInv'
<1>1. PICK e \in slaveProposed : slaveLog' = Append(slaveLog, e)
  BY DEF SlaveDecide
<1>2. /\ slaveProposed' = {}
      /\ UNCHANGED <<masterVars, slaveVars, masterLog, masterProposed, msgs, aborted, clientVars>>
  BY DEF SlaveDecide
<1>3. /\ slaveLog \in Seq(SlaveEntry) /\ e \in SlaveEntry /\ Len(slaveLog) \in Nat
      /\ e.generation = Len(slaveLog) + 1 /\ Known(e.generation, e.ranges)
  BY DEF IInv, Types, SlaveTypes, SlavesFollow
<1>4. /\ slaveLog' \in Seq(SlaveEntry) /\ Len(slaveLog') = Len(slaveLog) + 1
      /\ \A k \in 1..Len(slaveLog) : slaveLog'[k] = slaveLog[k]
      /\ slaveLog'[Len(slaveLog) + 1] = e
  BY <1>1, <1>3
<1>5. Types'
  BY <1>2, <1>4 DEF IInv, Types, MasterTypes, SlaveTypes, slaveVars, masterVars, clientVars
<1>6. SlavesFollow'
  <2>1. ASSUME NEW k \in 1..(Len(slaveLog) + 1)
        PROVE  slaveLog'[k].generation = k /\ Known(k, slaveLog'[k].ranges)
    <3>1. CASE k \in 1..Len(slaveLog)
      BY <3>1, <1>4 DEF IInv, SlavesFollow
    <3>2. CASE k = Len(slaveLog) + 1
      BY <3>2, <1>3, <1>4
    <3>3. QED
      BY <3>1, <3>2, <1>3
  <2>2. \A s \in Slave : slaveApplied[s] <= Len(slaveLog')
    BY <1>3, <1>4, SlaveState
  <2>3. masterLog' = masterLog /\ UNCHANGED <<slaveApplied, slaveRanges, tablets>>
    BY <1>2 DEF slaveVars
  <2>4. QED
    BY <2>1, <2>2, <2>3, <1>2, <1>4 DEF IInv, SlavesFollow, Known
<1>7. FirstSlaveLeads'
  <2>1. slaveApplied' = slaveApplied /\ slaveQueue' = slaveQueue
    BY <1>2 DEF slaveVars
  <2>2. /\ Len(slaveLog) = slaveApplied[FirstSlave] /\ Len(slaveQueue[FirstSlave]) > 0
        /\ slaveQueue[FirstSlave][1].generation = slaveApplied[FirstSlave] + 1
    BY DEF IInv, FirstSlaveLeads
  <2>3. QED
    BY <2>1, <2>2, <1>2, <1>3, <1>4 DEF FirstSlaveLeads
<1>8. QED
  BY <1>2, <1>5, <1>6, <1>7, Frame DEF IInv, masterVars, slaveVars, clientVars

\* The entry is of the generation that the slave waits for, so no assertion fails; the
\* slave then has the tablets of one more generation.
LEMMA StepSlaveApply == ASSUME IInv, NEW s \in Slave, SlaveApply(s) PROVE IInv'
<1> DEFINE a == slaveApplied[s]
           e == slaveLog[a + 1]
           msg == ChangedMessage(s, FirstMaster, a + 1)
<1>1. /\ a + 1 <= Len(slaveLog) /\ slaveApplied' = [slaveApplied EXCEPT ![s] = a + 1]
      /\ IF e.generation = slaveRanges[s].generation + 1
         THEN /\ slaveRanges' = [slaveRanges EXCEPT ![s] = e]
              /\ tablets' = [tablets EXCEPT ![s] = @ \cup {e.ranges[k] : k \in DOMAIN e.ranges}]
              /\ msgs' = msgs \cup {ChangedMessage(s, FirstMaster, e.generation)}
              /\ UNCHANGED aborted
         ELSE aborted' = aborted \cup {s} /\ UNCHANGED <<slaveRanges, tablets, msgs>>
      /\ UNCHANGED <<slaveQueue, masterVars, logVars, clientVars>>
  BY DEF SlaveApply
<1>2. /\ slaveLog \in Seq(SlaveEntry) /\ slaveApplied \in [Slave -> Nat] /\ a \in Nat
      /\ slaveRanges \in [Slave -> SlaveEntry] /\ tablets \in [Slave -> SUBSET Table]
      /\ Len(slaveLog) \in Nat /\ a + 1 \in 1..Len(slaveLog)
      /\ slaveRanges[s].generation = a /\ Has(masterLog, a)
  BY <1>1, SlaveState DEF IInv, Types, SlaveTypes
<1>3. e \in SlaveEntry
  BY <1>2, ElementOfSeq
<1>4. e.generation = a + 1 /\ Known(a + 1, e.ranges)
  BY <1>2 DEF IInv, SlavesFollow
<1>5. /\ Has(masterLog, a + 1) /\ e.ranges = RangesOf(masterLog, a + 1)
      /\ e.ranges \in Seq(Table) /\ Len(e.ranges) = a + 1
  BY <1>2, <1>4 DEF Known, IInv, Grows
<1>6. /\ slaveRanges' = [slaveRanges EXCEPT ![s] = e]
      /\ tablets' = [tablets EXCEPT ![s] = @ \cup {e.ranges[k] : k \in DOMAIN e.ranges}]
      /\ msgs' = msgs \cup {msg} /\ aborted' = aborted
      /\ UNCHANGED <<slaveQueue, masterVars, logVars, clientVars>>
  BY <1>1, <1>2, <1>4
<1> HIDE DEF e
<1>7. \A k \in DOMAIN e.ranges : e.ranges[k] \in Table
  BY <1>5
<1>8. msg \in Reporting /\ msg.type = "changed" /\ msg.generation = a + 1
  BY <1>2, FirstAssumption DEF ChangedMessage, Reporting
<1> HIDE DEF a, msg
<1>9. Types'
  <2>1. tablets' \in [Slave -> SUBSET Table]
    BY <1>2, <1>6, <1>7
  <2>2. slaveRanges' \in [Slave -> SlaveEntry] /\ slaveApplied' \in [Slave -> Nat]
    BY <1>1, <1>2, <1>3, <1>6
  <2>3. msgs' \subseteq Selecting \cup Reporting
    BY <1>6, <1>8 DEF IInv, Types
  <2>4. QED
    BY <2>1, <2>2, <2>3, <1>6 DEF IInv, Types, MasterTypes, SlaveTypes, masterVars, logVars, clientVars
<1>10. \A t \in Slave : slaveApplied[t] \in Nat /\ slaveApplied'[t] \in Nat /\ slaveApplied[t] <= slaveApplied'[t]
  BY <1>1, <1>2 DEF a
<1> DEFINE MadeNow(h) == \E t \in Slave : h <= slaveApplied'[t]
<1>11. ASSUME NEW h \in Nat, Made(h) PROVE MadeNow(h)
  BY <1>10, <1>11 DEF Made
<1>12. MadeNow(a + 1)
  BY <1>1, <1>2
<1>13. masterLog' = masterLog /\ slaveLog' = slaveLog
  BY <1>6 DEF logVars
<1>14. ProposalsFollow'
  <2>1. masterProposed' = masterProposed
    BY <1>6 DEF logVars
  <2>2. \A h \in Nat : Made(h + 1) => MadeNow(h + 1)
    BY <1>11
  <2>3. ASSUME NEW x \in masterProposed
        PROVE  \E h \in Nat :
                  \/ Len(masterLog) = 2 * h /\ IsSelection(masterLog, h, x)
                  \/ /\ Len(masterLog) = 2 * h + 1 /\ x.type = "commit" /\ x.generation = h + 1
                     /\ MadeNow(h + 1)
    <3>1. PICK h \in Nat :
                  \/ Len(masterLog) = 2 * h /\ IsSelection(masterLog, h, x)
                  \/ /\ Len(masterLog) = 2 * h + 1 /\ x.type = "commit" /\ x.generation = h + 1
                     /\ Made(h + 1)
      BY DEF IInv, ProposalsFollow
    <3>2. QED
      BY <3>1, <2>2
  <2>4. \A h \in Nat : 2 * h + 2 <= Len(masterLog) => MadeNow(h + 1)
    BY <2>2 DEF IInv, ProposalsFollow
  <2>5. QED
    BY <2>1, <2>3, <2>4, <1>13 DEF ProposalsFollow, Made
<1>15. MessagesTrue'
  <2>1. /\ changeQueue' = changeQueue /\ slaveQueue' = slaveQueue
        /\ changeQueue \in [Master -> Seq(Nat)] /\ slaveQueue \in [Slave -> Seq(ChangeTask)]
    BY <1>6 DEF masterVars, IInv, Types, MasterTypes, SlaveTypes
  <2>2. ASSUME NEW x \in msgs'
        PROVE  \/ x.type = "selected" /\ Known(x.generation, x.ranges)
               \/ x.type = "changed" /\ MadeNow(x.generation)
    <3>1. CASE x \in msgs
      <4>1. x.generation \in Nat
        BY <3>1 DEF IInv, Types, Selecting, Reporting
      <4>2. QED
        BY <4>1, <3>1, <1>11 DEF IInv, MessagesTrue
    <3>2. CASE x = msg
      BY <3>2, <1>8, <1>12
    <3>3. QED
      BY <3>1, <3>2, <1>6
  <2>3. ASSUME NEW m \in Master, NEW k \in 1..Len(changeQueue[m]) PROVE MadeNow(changeQueue[m][k])
    <3>1. changeQueue[m][k] \in Nat
      BY <2>1, ElementOfSeq
    <3>2. QED
      BY <3>1, <1>11 DEF IInv, MessagesTrue
  <2>4. QED
    BY <2>1, <2>2, <2>3, <1>13 DEF IInv, MessagesTrue, Known, Made
<1>16. SlavesFollow'
  <2>1. slaveProposed' = slaveProposed
    BY <1>6 DEF logVars
  <2>2. ASSUME NEW t \in Slave
        PROVE  /\ slaveApplied'[t] <= Len(slaveLog)
               /\ slaveRanges'[t].generation = slaveApplied'[t]
               /\ slaveRanges'[t].ranges = RangesOf(masterLog, slaveApplied'[t])
               /\ \A i \in 1..slaveApplied'[t] : RangesOf(masterLog, slaveApplied'[t])[i] \in tablets'[t]
    <3>1. CASE t = s
      <4>1. slaveApplied'[t] = a + 1 /\ slaveRanges'[t] = e
        BY <3>1, <1>1, <1>2, <1>6
      <4>2. \A i \in 1..(a + 1) : e.ranges[i] \in tablets'[t]
        BY <3>1, <1>2, <1>5, <1>6
      <4>3. QED
        BY <4>1, <4>2, <1>1, <1>4, <1>5
    <3>2. CASE t # s
      <4>1. slaveApplied'[t] = slaveApplied[t] /\ slaveRanges'[t] = slaveRanges[t] /\ tablets'[t] = tablets[t]
        BY <3>2, <1>1, <1>2, <1>6
      <4>2. QED
        BY <4>1 DEF IInv, SlavesFollow
    <3>3. QED
      BY <3>1, <3>2
  <2>3. QED
    BY <2>1, <2>2, <1>13 DEF IInv, SlavesFollow, Known
<1>17. FirstSlaveLeads'
  <2>1. slaveProposed' = slaveProposed /\ slaveQueue' = slaveQueue
    BY <1>6 DEF logVars
  <2>2. CASE s = FirstSlave
    <3>1. a + 1 = Len(slaveLog) /\ slaveProposed = {}
      BY <2>2, <1>1, <1>2 DEF IInv, FirstSlaveLeads, a
    <3>2. slaveApplied'[FirstSlave] = a + 1
      BY <2>2, <1>1, <1>2
    <3>3. QED
      BY <3>1, <3>2, <2>1, <1>2, <1>13 DEF FirstSlaveLeads
  <2>3. CASE s # FirstSlave
    <3>1. slaveApplied'[FirstSlave] = slaveApplied[FirstSlave]
      BY <2>3, <1>1, <1>2, FirstAssumption
    <3>2. QED
      BY <3>1, <2>1, <1>13 DEF IInv, FirstSlaveLeads
  <2>4. QED
    BY <2>2, <2>3
<1>18. LocatedIsServed'
  <2>1. \A t \in Slave : tablets[t] \subseteq tablets'[t]
    BY <1>2, <1>6
  <2>2. located' = located
    BY <1>6 DEF clientVars
  <2>3. QED
    BY <2>1, <2>2 DEF IInv, LocatedIsServed
<1>19. QED
  BY <1>6, <1>9, <1>14, <1>15, <1>16, <1>17, <1>18, Frame DEF IInv, masterVars, logVars

LEMMA StepHandleKeySpaceChange ==
    ASSUME IInv, NEW msg \in msgs, HandleKeySpaceChange(msg) PROVE IInv'
<1> DEFINE s == msg.to
           task == [from |-> msg.from, generation |-> msg.generation, ranges |-> msg.ranges]
<1>1. /\ msg.type = "selected" /\ slaveQueue' = [slaveQueue EXCEPT ![s] = Append(@, task)]
      /\ msgs' = msgs \ {msg}
      /\ UNCHANGED <<slaveApplied, slaveRanges, tablets, masterVars, logVars, aborted, clientVars>>
  BY DEF HandleKeySpaceChange
<1>2. msg \in Selecting
  BY <1>1 DEF IInv, Types, Reporting
<1>3. s = FirstSlave /\ s \in Slave /\ task \in ChangeTask
  BY <1>2, FirstAssumption DEF Selecting, ChangeTask
<1>4. Known(task.generation, task.ranges)
  BY <1>1 DEF IInv, MessagesTrue
<1> HIDE DEF s, task
<1>5. slaveQueue \in [Slave -> Seq(ChangeTask)] /\ slaveQueue[s] \in Seq(ChangeTask)
  BY <1>3 DEF IInv, Types, SlaveTypes
<1>6. slaveQueue' \in [Slave -> Seq(ChangeTask)] /\ slaveQueue'[s] = Append(slaveQueue[s], task)
  BY <1>1, <1>3, <1>5
<1>7. /\ Len(slaveQueue'[s]) = Len(slaveQueue[s]) + 1 /\ Len(slaveQueue[s]) \in Nat
      /\ \A k \in 1..Len(slaveQueue[s]) : slaveQueue'[s][k] = slaveQueue[s][k]
      /\ slaveQueue'[s][Len(slaveQueue[s]) + 1] = task
  BY <1>3, <1>5, <1>6
<1>8. Types'
  BY <1>1, <1>6 DEF IInv, Types, MasterTypes, SlaveTypes, masterVars, logVars, clientVars
<1>9. MessagesTrue'
  <2>1. ASSUME NEW t \in Slave, NEW k \in 1..Len(slaveQueue'[t])
        PROVE  t = FirstSlave /\ Known(slaveQueue'[t][k].generation, slaveQueue'[t][k].ranges)
    <3>1. CASE t = s
      <4>1. CASE k \in 1..Len(slaveQueue[s])
        BY <4>1, <3>1, <1>3, <1>7 DEF IInv, MessagesTrue
      <4>2. CASE k = Len(slaveQueue[s]) + 1
        BY <4>2, <3>1, <1>3, <1>4, <1>7
      <4>3. QED
        BY <4>1, <4>2, <3>1, <1>7
    <3>2. CASE t # s
      BY <3>2, <2>1, <1>1, <1>5 DEF IInv, MessagesTrue
    <3>3. QED
      BY <3>1, <3>2
  <2>2. QED
    BY <2>1, <1>1 DEF IInv, MessagesTrue, Known, Made, masterVars, logVars
<1>10. FirstSlaveLeads'
  <2>1. UNCHANGED <<slaveLog, slaveProposed, slaveApplied>>
    BY <1>1 DEF logVars
  <2>2. Len(slaveQueue[s]) > 0 => Len(slaveQueue'[s]) > 0 /\ slaveQueue'[s][1] = slaveQueue[s][1]
    BY <1>7
  <2>3. QED
    BY <2>1, <2>2, <1>3 DEF IInv, FirstSlaveLeads
<1>11. QED
  BY <1>1, <1>8, <1>9, <1>10, Frame DEF IInv, masterVars, logVars, clientVars

\* Only the first slave has tasks, and it proposes the generation of the one in front.
LEMMA StepChangePropose == ASSUME IInv, NEW s \in Slave, ChangePropose(s) PROVE IInv'
<1> DEFINE task == slaveQueue[s][1]
           e == ChangedEntry(task)
<1>1. slaveQueue \in [Slave -> Seq(ChangeTask)] /\ slaveQueue[s] \in Seq(ChangeTask)
  BY DEF IInv, Types, SlaveTypes
<1>2. /\ slaveQueue[s] # << >> /\ Head(slaveQueue[s]) = task /\ Len(slaveQueue[s]) > 0
      /\ 1 \in 1..Len(slaveQueue[s])
  BY <1>1 DEF ChangePropose
<1>3. /\ slaveRanges[s].generation + 1 = task.generation
      /\ slaveProposed' = IF slaveApplied[s] = Len(slaveLog)
                          THEN slaveProposed \cup {e} ELSE slaveProposed
      /\ slaveQueue' = [slaveQueue EXCEPT ![s] = slaveQueue[s]]
      /\ UNCHANGED <<slaveApplied, slaveRanges, tablets, masterVars, masterLog,
                     masterProposed, slaveLog, msgs, aborted, clientVars>>
  BY <1>2 DEF ChangePropose, IsNext, AfterProposal
<1>4. task \in ChangeTask
  BY <1>1, <1>2, ElementOfSeq
<1>5. s = FirstSlave /\ Known(task.generation, task.ranges)
  BY <1>2 DEF IInv, MessagesTrue
<1>6. e \in SlaveEntry /\ e.generation = task.generation /\ e.ranges = task.ranges
  BY <1>4 DEF ChangedEntry, SlaveEntry, ChangeTask
<1>7. slaveQueue' = slaveQueue
  BY <1>1, <1>3
<1>8. task.generation = slaveApplied[s] + 1
  BY <1>3, SlaveState
<1> HIDE DEF task, e
<1>9. Types'
  BY <1>3, <1>6, <1>7 DEF IInv, Types, MasterTypes, SlaveTypes, masterVars, clientVars
<1>10. SlavesFollow'
  <2>1. \A x \in slaveProposed' : x.generation = Len(slaveLog) + 1 /\ Known(x.generation, x.ranges)
    BY <1>3, <1>5, <1>6, <1>8 DEF IInv, SlavesFollow
  <2>2. QED
    BY <2>1, <1>3 DEF IInv, SlavesFollow, Known
<1>11. FirstSlaveLeads'
  <2>1. Len(slaveQueue[s]) > 0 /\ slaveQueue[s][1].generation = slaveApplied[s] + 1
    BY <1>2, <1>8 DEF task
  <2>2. slaveProposed' # {} => Len(slaveLog) = slaveApplied[FirstSlave]
    BY <1>3, <1>5 DEF IInv, FirstSlaveLeads
  <2>3. QED
    BY <2>1, <2>2, <1>3, <1>5, <1>7 DEF IInv, FirstSlaveLeads
<1>12. QED
  BY <1>3, <1>7, <1>9, <1>10, <1>11, Frame DEF IInv, masterVars, clientVars

\* A task ends only when its generation is not the next one, so it was not proposed.
LEMMA StepChangeReport == ASSUME IInv, NEW s \in Slave, ChangeReport(s) PROVE IInv'
<1> DEFINE task == slaveQueue[s][1]
<1>1. slaveQueue \in [Slave -> Seq(ChangeTask)] /\ slaveQueue[s] \in Seq(ChangeTask)
  BY DEF IInv, Types, SlaveTypes
<1>2. /\ slaveQueue[s] # << >> /\ Head(slaveQueue[s]) = task /\ Len(slaveQueue[s]) > 0
      /\ 1 \in 1..Len(slaveQueue[s])
  BY <1>1 DEF ChangeReport
<1>3. /\ slaveRanges[s].generation + 1 # task.generation
      /\ msgs' = msgs \cup Reports(s, task)
      /\ slaveQueue' = [slaveQueue EXCEPT ![s] = Tail(@)]
      /\ UNCHANGED <<slaveApplied, slaveRanges, tablets, masterVars, logVars, aborted, clientVars>>
  BY <1>2 DEF ChangeReport, IsNext
<1>4. task \in ChangeTask
  BY <1>1, <1>2, ElementOfSeq
<1>5. slaveRanges[s].generation = slaveApplied[s] /\ slaveApplied[s] \in Nat
  BY SlaveState
<1>6. \A x \in Reports(s, task) : x \in Reporting /\ x.type = "changed" /\ x.generation = slaveApplied[s]
  BY <1>4, <1>5 DEF Reports, ChangedMessage, Reporting, ChangeTask
<1>7. /\ Tail(slaveQueue[s]) \in Seq(ChangeTask)
      /\ \A k \in 1..Len(Tail(slaveQueue[s])) :
             k + 1 \in 1..Len(slaveQueue[s]) /\ Tail(slaveQueue[s])[k] = slaveQueue[s][k + 1]
  BY <1>1, <1>2
<1>8. s = FirstSlave
  BY <1>2 DEF IInv, MessagesTrue
<1>9. Types'
  <2>1. slaveQueue' \in [Slave -> Seq(ChangeTask)]
    BY <1>1, <1>3, <1>7
  <2>2. msgs' \subseteq Selecting \cup Reporting
    BY <1>3, <1>6 DEF IInv, Types
  <2>3. QED
    BY <2>1, <2>2, <1>3 DEF IInv, Types, MasterTypes, SlaveTypes, masterVars, logVars, clientVars
<1>10. MessagesTrue'
  <2>1. \A x \in msgs' : \/ x.type = "selected" /\ Known(x.generation, x.ranges)
                         \/ x.type = "changed" /\ Made(x.generation)
    <3>1. Made(slaveApplied[s])
      BY <1>5 DEF Made
    <3>2. QED
      BY <3>1, <1>3, <1>6 DEF IInv, MessagesTrue
  <2>2. ASSUME NEW t \in Slave, NEW k \in 1..Len(slaveQueue'[t])
        PROVE  t = FirstSlave /\ Known(slaveQueue'[t][k].generation, slaveQueue'[t][k].ranges)
    <3>1. CASE t = s
      <4>1. slaveQueue'[t] = Tail(slaveQueue[s])
        BY <3>1, <1>1, <1>3
      <4>2. k + 1 \in 1..Len(slaveQueue[s]) /\ slaveQueue'[t][k] = slaveQueue[s][k + 1]
        BY <4>1, <2>2, <1>7
      <4>3. QED
        BY <4>2, <3>1, <1>8 DEF IInv, MessagesTrue
    <3>2. CASE t # s
      BY <3>2, <2>2, <1>1, <1>3 DEF IInv, MessagesTrue
    <3>3. QED
      BY <3>1, <3>2
  <2>3. QED
    BY <2>1, <2>2, <1>3 DEF IInv, MessagesTrue, Known, Made, masterVars, logVars
<1>11. FirstSlaveLeads'
  <2>1. UNCHANGED <<slaveLog, slaveProposed, slaveApplied>>
    BY <1>3 DEF logVars
  <2>2. ~(slaveProposed # {} \/ Len(slaveLog) > slaveApplied[FirstSlave])
    BY <1>3, <1>5, <1>8 DEF IInv, FirstSlaveLeads
  <2>3. QED
    BY <2>1, <2>2 DEF IInv, FirstSlaveLeads
<1>12. QED
  BY <1>3, <1>9, <1>10, <1>11, Frame DEF IInv, masterVars, logVars, clientVars

-----------------------------------------------------------------------------
(* The theorems.                                                           *)

LEMMA InvStep == IInv /\ [Next]_vars => IInv'
<1> SUFFICES ASSUME IInv, [Next]_vars PROVE IInv'
  OBVIOUS
<1>1. CASE UNCHANGED vars
  <2>1. Types'
    BY <1>1 DEF IInv, Types, MasterTypes, SlaveTypes, vars, masterVars, slaveVars, logVars, clientVars
  <2>2. QED
    BY <1>1, <2>1, Frame DEF IInv, vars, masterVars, slaveVars, logVars, clientVars
<1>2. CASE MasterDecide
  BY <1>2, StepMasterDecide
<1>3. CASE SlaveDecide
  BY <1>3, StepSlaveDecide
<1>4. ASSUME NEW m \in Master, MasterApply(m) PROVE IInv'
  BY <1>4, StepMasterApply
<1>5. ASSUME NEW m \in Master, RunFind(m) PROVE IInv'
  BY <1>5, StepFindAnswer, StepFindRemind, StepFindGiveUp, StepFindSelect DEF RunFind
<1>6. ASSUME NEW m \in Master, RunChange(m) PROVE IInv'
  BY <1>6, StepChangeCommit, StepChangeEnd DEF RunChange
<1>7. ASSUME NEW m \in Master, NEW table \in Table, HandleFindKey(m, table) PROVE IInv'
  BY <1>7, StepHandleFindKey
<1>8. ASSUME NEW s \in Slave, SlaveApply(s) PROVE IInv'
  BY <1>8, StepSlaveApply
<1>9. ASSUME NEW s \in Slave, RunSelected(s) PROVE IInv'
  BY <1>9, StepChangePropose, StepChangeReport DEF RunSelected
<1>10. ASSUME NEW msg \in msgs, Deliver(msg) PROVE IInv'
  BY <1>10, StepHandleKeySpaceChanged, StepHandleKeySpaceChange DEF Deliver
<1>11. QED
  BY <1>1, <1>2, <1>3, <1>4, <1>5, <1>6, <1>7, <1>8, <1>9, <1>10 DEF Next

LEMMA Invariant == Spec => []IInv
BY InvInit, InvStep, PTL DEF Spec

\* The assertions of KeySpaceManager's and SlaveKeySpaceManager's callbacks never fail.
THEOREM NoAssertionFails == Spec => []AssertionsHold
<1>1. IInv => AssertionsHold
  BY DEF IInv
<1>2. QED
  BY <1>1, Invariant, PTL

\* A client is told that the group has a table only when a slave of it has the tablet
\* (the callback for KeySpaceCommit and handle_find_key of KeySpaceManager).
THEOREM LocatedTablesAreServed == Spec => []LocatedIsServed
<1>1. IInv => LocatedIsServed
  BY DEF IInv
<1>2. QED
  BY <1>1, Invariant, PTL

\* A slave's ranges are those of the NewKeySpaceSelected entry of its generation
\* (SlaveKeySpaceManager's callback for KeySpaceChanged).
THEOREM SlavesHaveTheSelectedRanges == Spec => []SlavesFollowMasters
<1>1. ASSUME IInv PROVE SlavesFollowMasters
  <2> SUFFICES ASSUME NEW s \in Slave, slaveRanges[s].generation > 0
               PROVE  \E k \in Selected : /\ masterLog[k].generation = slaveRanges[s].generation
                                          /\ masterLog[k].ranges = slaveRanges[s].ranges
    BY DEF SlavesFollowMasters
  <2> DEFINE g == slaveApplied[s]
             k == 2 * (g - 1) + 1
  <2>1. /\ g \in Nat /\ g > 0 /\ Has(masterLog, g) /\ slaveRanges[s].generation = g
        /\ slaveRanges[s].ranges = RangesOf(masterLog, g) /\ Len(masterLog) \in Nat
    BY <1>1, SlaveState DEF IInv, SlavesFollow, Types, MasterTypes
  <2> HIDE DEF g
  <2>2. g - 1 \in Nat /\ k <= Len(masterLog) /\ k = 2 * g - 1 /\ k \in 1..Len(masterLog) /\ (g - 1) + 1 = g
    BY <2>1 DEF Has
  <2>3. IsSelection(masterLog, g - 1, masterLog[k])
    BY <1>1, <2>2 DEF IInv, Alternates
  <2>4. masterLog[k].ranges = RangesOf(masterLog, g)
    BY <2>1, <2>2 DEF RangesOf
  <2> HIDE DEF k
  <2>5. masterLog[k].type = "selected" /\ masterLog[k].generation = g
    BY <2>2, <2>3 DEF IsSelection
  <2>6. k \in Selected
    BY <2>2, <2>5 DEF Selected
  <2>7. QED
    BY <2>1, <2>4, <2>5, <2>6
<1>2. QED
  BY <1>1, Invariant, PTL

\* No selected key space lists a table twice, and each keeps the ranges of those before
\* it (handle_find_key, which selects from what its master has applied).
THEOREM TablesAreAssignedOnce == Spec => []TableAssignedOnce
<1>1. ASSUME IInv PROVE TableAssignedOnce
  <2>1. masterLog \in Seq(MasterEntry) /\ Len(masterLog) \in Nat
        /\ Alternates(masterLog) /\ Grows(masterLog)
    BY <1>1 DEF IInv, Types, MasterTypes
  <2>2. ASSUME NEW k \in Selected
        PROVE  \E g \in Nat : g > 0 /\ k = 2 * g - 1 /\ Has(masterLog, g) /\ masterLog[k].ranges = RangesOf(masterLog, g)
    <3>1. k \in 1..Len(masterLog) /\ k \in Nat /\ masterLog[k].type = "selected"
      BY <2>1 DEF Selected
    <3>2. PICK h \in Nat : k = 2 * h \/ k = 2 * h + 1
      BY <3>1, Parity
    <3>3. CASE k = 2 * h
      <4>1. h - 1 \in Nat /\ 2 * (h - 1) + 2 = k
        BY <3>1, <3>3
      <4>2. masterLog[2 * (h - 1) + 2].type = "commit"
        <5>1. 2 * (h - 1) + 2 <= Len(masterLog)
          BY <4>1, <3>1
        <5>2. QED
          BY <5>1, <4>1, <2>1 DEF Alternates
      <4>3. QED
        BY <4>1, <4>2, <3>1
    <3>4. CASE k = 2 * h + 1
      <4>1. h + 1 \in Nat /\ h + 1 # 0 /\ h + 1 > 0 /\ k = 2 * (h + 1) - 1
        BY <3>4
      <4>2. Has(masterLog, h + 1) /\ masterLog[k].ranges = RangesOf(masterLog, h + 1)
        BY <4>1, <3>1, <2>1 DEF Has, RangesOf
      <4>3. QED
        BY <4>1, <4>2
    <3>5. QED
      BY <3>2, <3>3, <3>4
  <2>3. ASSUME NEW k \in Selected
        PROVE  /\ \A i, j \in DOMAIN masterLog[k].ranges :
                      masterLog[k].ranges[i] = masterLog[k].ranges[j] => i = j
               /\ \A n \in Selected : k < n =>
                      \A i \in DOMAIN masterLog[k].ranges : Within(masterLog[n].ranges, masterLog[k].ranges[i])
    <3>1. PICK g \in Nat : g > 0 /\ k = 2 * g - 1 /\ Has(masterLog, g) /\ masterLog[k].ranges = RangesOf(masterLog, g)
      BY <2>2
    <3>2. /\ RangesOf(masterLog, g) \in Seq(Table) /\ Len(RangesOf(masterLog, g)) = g
          /\ \A i, j \in 1..g : RangesOf(masterLog, g)[i] = RangesOf(masterLog, g)[j] => i = j
          /\ DOMAIN RangesOf(masterLog, g) = 1..g
      BY <2>1, <3>1 DEF Grows
    <3>3. ASSUME NEW n \in Selected, k < n, NEW i \in 1..g
          PROVE  Within(masterLog[n].ranges, RangesOf(masterLog, g)[i])
      <4>1. PICK h \in Nat : h > 0 /\ n = 2 * h - 1 /\ Has(masterLog, h) /\ masterLog[n].ranges = RangesOf(masterLog, h)
        BY <2>2
      <4>2. g <= h /\ i \in 1..h
        BY <3>1, <3>3, <4>1
      <4>3. /\ RangesOf(masterLog, h)[i] = RangesOf(masterLog, g)[i]
            /\ RangesOf(masterLog, h) \in Seq(Table) /\ Len(RangesOf(masterLog, h)) = h
        BY <2>1, <4>1, <4>2 DEF Grows
      <4>4. QED
        BY <4>1, <4>2, <4>3 DEF Within
    <3>4. QED
      BY <3>1, <3>2, <3>3
  <2>4. QED
    BY <2>3 DEF TableAssignedOnce
<1>2. QED
  BY <1>1, Invariant, PTL

\* A slave that gets NewKeySpaceSelected is never behind the generation before it
\* (handle_key_space_change drops a generation that is not the next).
THEOREM SlavesAreReady == Spec => []NoChangeDropped
<1>1. ASSUME IInv PROVE NoChangeDropped
  <2> SUFFICES ASSUME NEW s \in Slave, slaveQueue[s] # << >>
               PROVE  Head(slaveQueue[s]).generation <= slaveRanges[s].generation + 1
    BY DEF NoChangeDropped
  <2> DEFINE g == slaveQueue[s][1].generation
  <2>1. /\ slaveQueue[s] \in Seq(ChangeTask) /\ Len(slaveQueue[s]) \in Nat
        /\ Head(slaveQueue[s]) = slaveQueue[s][1] /\ 1 \in 1..Len(slaveQueue[s])
    BY <1>1 DEF IInv, Types, SlaveTypes
  <2>2. s = FirstSlave /\ Known(g, slaveQueue[s][1].ranges)
    BY <1>1, <2>1 DEF IInv, MessagesTrue
  <2>3. g \in Nat
    <3>1. slaveQueue[s][1] \in ChangeTask
      BY <2>1, ElementOfSeq
    <3>2. QED
      BY <3>1 DEF ChangeTask
  <2>4. /\ slaveApplied[s] \in Nat /\ Len(slaveLog) \in Nat /\ slaveRanges[s].generation = slaveApplied[s]
        /\ slaveApplied[s] <= Len(slaveLog) /\ Len(masterLog) \in Nat
    BY <1>1, SlaveState DEF IInv, Types, MasterTypes
  <2>5. CASE Len(slaveLog) > slaveApplied[s]
    BY <2>5, <2>1, <2>2, <2>4, <1>1 DEF IInv, FirstSlaveLeads
  <2>6. CASE Len(slaveLog) = slaveApplied[s]
    <3>1. g > 0 /\ 2 * g <= Len(masterLog) + 1
      BY <2>2 DEF Known, Has
    <3>2. CASE g = 1
      BY <3>2, <2>1, <2>4
    <3>3. CASE g > 1
      <4> HIDE DEF g
      <4>1. g - 2 \in Nat /\ 2 * (g - 2) + 2 <= Len(masterLog) /\ (g - 2) + 1 = g - 1
        BY <3>1, <3>3, <2>3, <2>4
      <4>2. Made((g - 2) + 1)
        BY <4>1, <1>1 DEF IInv, ProposalsFollow
      <4>3. PICK t \in Slave : g - 1 <= slaveApplied[t]
        BY <4>1, <4>2 DEF Made
      <4>4. slaveApplied[t] \in Nat /\ slaveApplied[t] <= Len(slaveLog)
        BY <1>1, SlaveState
      <4>5. g <= slaveApplied[s] + 1
        BY <4>3, <4>4, <2>3, <2>4, <2>6
      <4>6. QED
        BY <4>5, <2>1, <2>4 DEF g
    <3>4. QED
      BY <3>1, <3>2, <3>3, <2>3
  <2>7. QED
    BY <2>4, <2>5, <2>6
<1>2. QED
  BY <1>1, Invariant, PTL

\* There are no more generations than tables.
LEMMA GenerationBound ==
    ASSUME IInv, IsFiniteSet(Table), NEW g \in Nat, Has(masterLog, g)
    PROVE  g \in Generation
<1> DEFINE f == [i \in 1..g |-> RangesOf(masterLog, g)[i]]
<1>1. /\ RangesOf(masterLog, g) \in Seq(Table) /\ Len(RangesOf(masterLog, g)) = g
      /\ \A i, j \in 1..g : RangesOf(masterLog, g)[i] = RangesOf(masterLog, g)[j] => i = j
  BY DEF IInv, Grows
<1>2. f \in [1..g -> Table]
  BY <1>1
<1>3. f \in Injection(1..g, Table)
  BY <1>1, <1>2 DEF Injection, IsInjective
<1> HIDE DEF f
<1>4. Cardinality(1..g) <= Cardinality(Table)
  BY <1>3, FS_Injection, Zenon
<1>5. Cardinality(1..g) = g
  BY FS_Interval
<1>6. Cardinality(Table) \in Nat
  BY FS_CardinalityType
<1>7. QED
  BY <1>4, <1>5, <1>6 DEF Generation

\* The fields of masters and slaves have their types, and the generations are bounded by
\* the number of tables, if that is finite.
THEOREM TypesAreCorrect == ASSUME IsFiniteSet(Table) PROVE Spec => []TypeOK
<1>1. ASSUME IInv PROVE TypeOK
  <2>1. ASSUME NEW m \in Master
        PROVE  /\ groupRanges[m].state \in {"KeySpace", "NewKeySpace"}
               /\ groupRanges[m].ranges \in Seq(Table)
               /\ groupRanges[m].new_ranges \in Seq(Table)
               /\ groupRanges[m].generation \in Generation
               /\ masterApplied[m] \in 0..Len(masterLog)
    <3>1. groupRanges[m] \in GroupState
      BY <1>1 DEF IInv, Types, MasterTypes
    <3>2. /\ groupRanges[m].generation \in Nat /\ Has(masterLog, groupRanges[m].generation)
          /\ masterApplied[m] \in 0..Len(masterLog)
      <4>1. Len(masterLog) \in Nat
        BY <1>1 DEF IInv, Types, MasterTypes
      <4> DEFINE h == groupRanges[m].generation
      <4>2. h \in Nat /\ masterApplied[m] \in Nat /\ masterApplied[m] <= Len(masterLog) /\ Has(masterLog, h)
        BY <1>1, MasterState
      <4>3. QED
        BY <4>1, <4>2
    <3>3. groupRanges[m].generation \in Generation
      BY <1>1, <3>2, GenerationBound
    <3>4. QED
      BY <3>1, <3>2, <3>3 DEF GroupState
  <2>2. ASSUME NEW s \in Slave
        PROVE  /\ slaveRanges[s].ranges \in Seq(Table)
               /\ slaveRanges[s].generation \in Generation
               /\ slaveApplied[s] \in 0..Len(slaveLog)
               /\ tablets[s] \subseteq Table
    <3>1. slaveRanges[s] \in SlaveEntry /\ tablets[s] \subseteq Table
      BY <1>1 DEF IInv, Types, SlaveTypes
    <3>2. /\ slaveRanges[s].generation \in Nat /\ Has(masterLog, slaveRanges[s].generation)
          /\ slaveApplied[s] \in 0..Len(slaveLog)
      BY <1>1, SlaveState
    <3>3. slaveRanges[s].generation \in Generation
      BY <1>1, <3>2, GenerationBound
    <3>4. QED
      BY <3>1, <3>2, <3>3 DEF SlaveEntry
  <2>3. located \subseteq Table
    BY <1>1 DEF IInv, Types
  <2>4. QED
    BY <2>1, <2>2, <2>3 DEF TypeOK
<1>2. QED
  BY <1>1, Invariant, PTL
=============================================================================
