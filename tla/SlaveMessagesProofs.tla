------------------------- MODULE SlaveMessagesProofs -------------------------
(***************************************************************************)
(* Proofs about SlaveMessages, for every set of peers with any scripts,    *)
(* any tablets and threads and every limit of the queues: the scheduler    *)
(* has one task, the threads are balanced, and messages are handled in the *)
(* order in which they were sent.                                          *)
(***************************************************************************)
EXTENDS SlaveMessages, FiniteSetTheorems, SequenceTheorems, TLAPS

-----------------------------------------------------------------------------
(* Numbers and recursive functions.                                        *)

\* A set of numbers has a least one.
LEMMA LeastNumber ==
    ASSUME NEW T \in SUBSET Nat, T # {}
    PROVE  \E x \in T : \A y \in T : x <= y
<1> DEFINE R == {p \in Nat \X Nat : p[1] < p[2]}
<1>1. IsWellFoundedOn(R, Nat)
  BY NatLessThanWellFounded DEF OpToRel, R
<1> HIDE DEF R
<1>2. PICK x \in T : \A y \in T : <<y, x>> \notin R
  BY <1>1, WFMin, Zenon
<1>3. \A y \in T : ~(y < x)
  BY <1>2 DEF R
<1>4. \A y \in T : x <= y
  BY <1>3
<1>5. QED
  BY <1>4

\* Induction up to n, with a set for the formula.
LEMMA Induction ==
    ASSUME NEW n \in Nat, NEW G, 0 \in G, \A k \in 1..n : k - 1 \in G => k \in G
    PROVE  \A k \in 0..n : k \in G
<1> DEFINE T == {k \in 0..n : k \notin G}
<1>1. T = {}
  <2> SUFFICES ASSUME T # {} PROVE FALSE
    OBVIOUS
  <2>1. PICK k \in T : \A j \in T : k <= j
    <3>1. T \in SUBSET Nat
      OBVIOUS
    <3> HIDE DEF T
    <3>2. QED
      BY <3>1, LeastNumber
  <2>2. k \in 0..n /\ k \notin G /\ k # 0
    BY <2>1
  <2>3. k \in 1..n /\ k - 1 \in 0..n
    BY <2>2
  <2>4. k - 1 \notin T
    BY <2>1, <2>3
  <2>5. QED
    BY <2>2, <2>3, <2>4
<1>2. QED
  BY <1>1

\* The steps of n rounds on a set of states.
Steps(S, n) == [1..n -> [S -> S]]

\* A function on 0..n may be defined by recursion, with any step that stays in a set S.
LEMMA Recursion ==
    ASSUME NEW S, NEW base \in S, NEW n \in Nat, NEW g \in Steps(S, n)
    PROVE  \E f \in [0..n -> S] : f[0] = base /\ \A k \in 1..n : f[k] = g[k][f[k - 1]]
<1> DEFINE Solves(f, m) == f[0] = base /\ \A k \in 1..m : f[k] = g[k][f[k - 1]]
           G == {m \in 0..n : \E f \in [0..m -> S] : Solves(f, m)}
<1>1. 0 \in G
  <2> DEFINE f == [k \in 0..0 |-> base]
  <2>1. f \in [0..0 -> S]
    OBVIOUS
  <2>2. f[0] = base /\ \A k \in 1..0 : FALSE
    OBVIOUS
  <2> HIDE DEF f
  <2>3. QED
    BY <2>1, <2>2
<1>2. ASSUME NEW m \in 1..n, m - 1 \in G PROVE m \in G
  <2>1. PICK f \in [0..(m - 1) -> S] : Solves(f, m - 1)
    BY <1>2
  <2> DEFINE h == [k \in 0..m |-> IF k = m THEN g[m][f[m - 1]] ELSE f[k]]
  <2>2. f[m - 1] \in S /\ m \in 1..n
    BY <2>1
  <2>3. g[m][f[m - 1]] \in S
    BY <2>2 DEF Steps
  <2>4. h \in [0..m -> S]
    BY <2>1, <2>3
  <2>5. h[0] = base
    BY <2>1
  <2>6. ASSUME NEW k \in 1..m PROVE h[k] = g[k][h[k - 1]]
    <3>1. CASE k = m
      <4>1. m \in 0..m /\ m - 1 \in 0..m /\ m - 1 # m
        OBVIOUS
      <4>2. h[m] = g[m][f[m - 1]] /\ h[m - 1] = f[m - 1]
        BY <4>1
      <4>3. QED
        BY <3>1, <4>2
    <3>2. CASE k # m
      <4>1. k \in 1..(m - 1) /\ h[k] = f[k] /\ h[k - 1] = f[k - 1]
        BY <3>2
      <4>2. QED
        BY <4>1, <2>1
    <3>3. QED
      BY <3>1, <3>2
  <2> HIDE DEF h
  <2>7. Solves(h, m)
    BY <2>5, <2>6
  <2>8. m \in 0..n
    OBVIOUS
  <2> HIDE DEF Solves
  <2>9. QED
    BY <2>4, <2>7, <2>8
<1> HIDE DEF G
<1>3. n \in G
  <2>1. \A k \in 0..n : k \in G
    BY <1>1, <1>2, Induction
  <2>2. QED
    BY <2>1
<1>4. QED
  BY <1>3 DEF G

-----------------------------------------------------------------------------
(* AsyncSchedulerImpl.                                                     *)

SchedulerState == [queue : Seq(Item), posted : SUBSET Item]

QueueIteration(f, sched, items) ==
    [k \in 0..Len(items) |-> IF k = 0 THEN sched ELSE queue_message(f[k - 1], items[k])]

LEMMA QueueMessageType ==
    ASSUME NEW sched \in SchedulerState, NEW item \in Item
    PROVE  queue_message(sched, item) \in SchedulerState
<1>1. sched.queue \in Seq(Item) /\ sched.posted \in SUBSET Item
  BY DEF SchedulerState
<1>2. Append(sched.queue, item) \in Seq(Item)
  BY <1>1
<1>3. sched.posted \cup {item} \in SUBSET Item
  BY <1>1
<1>4. QED
  BY <1>1, <1>2, <1>3 DEF queue_message, SchedulerState

LEMMA QueueIterationExists ==
    ASSUME NEW sched \in SchedulerState, NEW items \in Seq(Item)
    PROVE  \E f : f = QueueIteration(f, sched, items)
<1> DEFINE n == Len(items)
           g == [k \in 1..n |-> [s \in SchedulerState |-> queue_message(s, items[k])]]
<1>1. n \in Nat /\ \A k \in 1..n : items[k] \in Item
  OBVIOUS
<1>2. g \in Steps(SchedulerState, n)
  <2>1. ASSUME NEW k \in 1..n, NEW s \in SchedulerState PROVE queue_message(s, items[k]) \in SchedulerState
    BY <1>1, QueueMessageType
  <2>2. QED
    BY <2>1 DEF Steps
<1>3. \A s \in SchedulerState, k \in 1..n : g[k][s] = queue_message(s, items[k])
  OBVIOUS
<1> HIDE DEF g, n
<1>4. PICK f \in [0..n -> SchedulerState] :
          f[0] = sched /\ \A k \in 1..n : f[k] = g[k][f[k - 1]]
  BY <1>1, <1>2, Recursion
<1> USE DEF n
<1> DEFINE h == QueueIteration(f, sched, items)
<1>5. \A k \in 0..n : f[k] = h[k]
  <2> SUFFICES ASSUME NEW k \in 0..n PROVE f[k] = h[k]
    OBVIOUS
  <2>1. CASE k = 0
    BY <2>1, <1>4 DEF QueueIteration
  <2>2. CASE k # 0
    <3>1. k \in 1..n /\ k - 1 \in 0..n
      BY <2>2, <1>1
    <3>2. f[k] = g[k][f[k - 1]]
      BY <1>4, <3>1
    <3>3. f[k - 1] \in SchedulerState
      BY <1>4, <3>1
    <3>4. f[k] = queue_message(f[k - 1], items[k])
      BY <3>1, <3>2, <3>3, <1>3
    <3>5. QED
      BY <2>2, <3>4 DEF QueueIteration
  <2>3. QED
    BY <2>1, <2>2
<1>6. h = [k \in 0..n |-> h[k]]
  BY DEF QueueIteration
<1> HIDE DEF h
<1>7. f = h
  BY <1>4, <1>5, <1>6
<1>8. QED
  BY <1>7 DEF h

\* Several calls of queue_message: the items go to the end, and the first of them gets a
\* task if the queue was empty.
LEMMA QueueMessagesFacts ==
    ASSUME NEW sched \in SchedulerState, NEW items \in Seq(Item)
    PROVE  /\ queue_messages(sched, items).queue = sched.queue \o items
           /\ queue_messages(sched, items).posted =
                  IF sched.queue = << >> /\ items # << >> THEN sched.posted \cup {items[1]}
                  ELSE sched.posted
<1> DEFINE n == Len(items)
           F == CHOOSE f : f = QueueIteration(f, sched, items)
           First(k) == SubSeq(items, 1, k)
           Good(s, k) == /\ s.queue = sched.queue \o First(k)
                         /\ s.posted = IF sched.queue = << >> /\ k > 0
                                       THEN sched.posted \cup {items[1]} ELSE sched.posted
           G == {k \in 0..n : Good(F[k], k)}
<1>1. F = QueueIteration(F, sched, items)
  BY QueueIterationExists
<1>2. queue_messages(sched, items) = F[n]
  BY Zenon DEF queue_messages, QueueIteration
<1> HIDE DEF F
<1>3. n \in Nat /\ sched.queue \in Seq(Item) /\ \A k \in 1..n : items[k] \in Item
  BY DEF SchedulerState
<1>4. /\ F[0] = sched
      /\ \A k \in 1..n : F[k] = queue_message(F[k - 1], items[k])
  <2>1. \A k \in 0..n : F[k] = IF k = 0 THEN sched ELSE queue_message(F[k - 1], items[k])
    <3>1. \A k \in 0..n : QueueIteration(F, sched, items)[k] =
              IF k = 0 THEN sched ELSE queue_message(F[k - 1], items[k])
      BY DEF QueueIteration
    <3>2. QED
      BY <1>1, <3>1
  <2>2. QED
    BY <2>1, <1>3
<1>5. 0 \in G
  <2>1. First(0) = << >>
    BY SubSeqEmpty, <1>3
  <2>2. sched.queue \o << >> = sched.queue
    BY <1>3, ConcatEmptySeq
  <2>3. QED
    BY <2>1, <2>2, <1>3, <1>4
<1>6. ASSUME NEW k \in 1..n, k - 1 \in G PROVE k \in G
  <2> DEFINE s == F[k - 1]
  <2>1. Good(s, k - 1) /\ F[k] = queue_message(s, items[k])
    BY <1>4, <1>6
  <2>2. First(k) = Append(First(k - 1), items[k]) /\ First(k - 1) \in Seq(Item) /\ Len(First(k - 1)) = k - 1
    BY <1>3
  <2>3. Append(sched.queue \o First(k - 1), items[k]) = sched.queue \o First(k)
    <3> DEFINE a == sched.queue
               b == First(k - 1)
    <3>1. a \in Seq(Item) /\ b \in Seq(Item) /\ items[k] \in Item /\ <<items[k]>> \in Seq(Item)
      BY <2>2, <1>3
    <3>2. First(k) = Append(b, items[k])
      BY <2>2
    <3> HIDE DEF a, b, First
    <3>3. Append(a \o b, items[k]) = a \o Append(b, items[k])
      <4>1. a \o b \in Seq(Item)
        BY <3>1
      <4>2. Append(a \o b, items[k]) = (a \o b) \o <<items[k]>>
        BY <3>1, <4>1, AppendIsConcat
      <4>3. Append(b, items[k]) = b \o <<items[k]>>
        BY <3>1, AppendIsConcat
      <4>4. (a \o b) \o <<items[k]>> = a \o (b \o <<items[k]>>)
        BY <3>1, ConcatAssociative
      <4>5. QED
        BY <4>2, <4>3, <4>4
    <3>4. QED
      BY <3>2, <3>3 DEF a, b
  <2>4. s.queue = << >> <=> sched.queue = << >> /\ k = 1
    BY <2>1, <2>2, <1>3
  <2>5. /\ F[k].queue = Append(s.queue, items[k])
        /\ F[k].posted = IF s.queue = << >> THEN s.posted \cup {items[k]} ELSE s.posted
    <3> DEFINE x == items[k]
    <3>1. F[k] = queue_message(s, x)
      BY <2>1
    <3> HIDE DEF s, x
    <3>2. /\ queue_message(s, x).queue = Append(s.queue, x)
          /\ queue_message(s, x).posted = IF s.queue = << >> THEN s.posted \cup {x} ELSE s.posted
      BY DEF queue_message
    <3>3. QED
      BY <3>1, <3>2 DEF s, x
  <2>6. F[k].queue = sched.queue \o First(k)
    BY <2>1, <2>3, <2>5
  <2>7. F[k].posted = IF sched.queue = << >> /\ k > 0
                      THEN sched.posted \cup {items[1]} ELSE sched.posted
    <3> HIDE DEF s
    <3>1. CASE k = 1
      BY <3>1, <2>1, <2>4, <2>5, <1>3
    <3>2. CASE k # 1
      <4>1. k > 0 /\ k - 1 > 0 /\ s.queue # << >>
        BY <3>2, <2>4
      <4>2. QED
        BY <4>1, <2>1, <2>5
    <3>3. QED
      BY <3>1, <3>2
  <2>8. QED
    BY <2>6, <2>7
<1>7. n \in G
  <2> HIDE DEF G
  <2>1. \A k \in 0..n : k \in G
    BY <1>3, <1>5, <1>6, Induction
  <2>2. QED
    BY <2>1, <1>3
<1>8. First(n) = items /\ (n > 0 <=> items # << >>)
  BY <1>3
<1>9. QED
  BY <1>2, <1>7, <1>8

-----------------------------------------------------------------------------
(* The tablets of the threads.                                             *)

Balanced(tps) == \A i, j \in Thread : participants(tps, i) <= participants(tps, j) + 1

\* Maps from tablets to threads that are finite and balanced.
TpMap ==
    {tps \in UNION {[D -> Thread] : D \in SUBSET TabletId} :
        IsFiniteSet(DOMAIN tps) /\ Balanced(tps)}

LEMMA TpMapParts ==
    ASSUME NEW tps
    PROVE  tps \in TpMap <=> /\ tps \in [DOMAIN tps -> Thread] /\ DOMAIN tps \subseteq TabletId
                             /\ IsFiniteSet(DOMAIN tps) /\ Balanced(tps)
BY DEF TpMap

LEMMA ParticipantsNat ==
    ASSUME NEW tps, IsFiniteSet(DOMAIN tps), NEW i
    PROVE  participants(tps, i) \in Nat /\ IsFiniteSet({t \in DOMAIN tps : tps[t] = i})
<1>1. {t \in DOMAIN tps : tps[t] = i} \subseteq DOMAIN tps
  OBVIOUS
<1>2. QED
  BY <1>1, FS_Subset, FS_CardinalityType DEF participants

\* The thread chosen has no more participants than any other.
LEMMA MinIndexFacts ==
    ASSUME NEW tps, IsFiniteSet(DOMAIN tps)
    PROVE  /\ min_index(tps) \in Thread
           /\ \A j \in Thread : participants(tps, min_index(tps)) <= participants(tps, j)
<1> DEFINE C == {participants(tps, i) : i \in Thread}
           T == {i \in Thread : \A j \in Thread : participants(tps, i) <= participants(tps, j)}
<1>1. C \in SUBSET Nat /\ C # {}
  BY ParticipantsNat, BoundAssumption
<1>2. PICK c \in C : \A d \in C : c <= d
  <2> HIDE DEF C
  <2> QED BY <1>1, LeastNumber
<1>3. T # {} /\ T \in SUBSET Nat
  <2>1. PICK i \in Thread : participants(tps, i) = c
    BY <1>2
  <2>2. \A j \in Thread : participants(tps, i) <= participants(tps, j)
    BY <1>2, <2>1
  <2>3. i \in T
    BY <2>2
  <2>4. QED
    BY <2>3, BoundAssumption
<1>4. PICK x \in T : \A y \in T : x <= y
  <2> HIDE DEF T
  <2> QED BY <1>3, LeastNumber
<1>5. min_index(tps) = CHOOSE y \in T : \A z \in T : y <= z
  BY DEF min_index, Min
<1>6. min_index(tps) \in T
  <2> HIDE DEF T
  <2> QED BY <1>4, <1>5
<1>7. QED
  BY <1>6

LEMMA AddRangeFacts ==
    ASSUME NEW tps \in TpMap, NEW t \in TabletId
    PROVE  add_range(tps, t) \in TpMap
<1>0. tps \in [DOMAIN tps -> Thread] /\ DOMAIN tps \subseteq TabletId /\ IsFiniteSet(DOMAIN tps) /\ Balanced(tps)
  BY TpMapParts
<1>1. CASE t \in DOMAIN tps
  BY <1>1 DEF add_range
<1>2. CASE t \notin DOMAIN tps
  <2> DEFINE least == min_index(tps)
             new == [u \in DOMAIN tps \cup {t} |-> IF u = t THEN least ELSE tps[u]]
             On(f, i) == {u \in DOMAIN f : f[u] = i}
  <2>1. add_range(tps, t) = new
    BY <1>2 DEF add_range
  <2>2. least \in Thread /\ \A j \in Thread : participants(tps, least) <= participants(tps, j)
    BY <1>0, MinIndexFacts
  <2> HIDE DEF least
  <2>3. new \in [DOMAIN new -> Thread] /\ DOMAIN new = DOMAIN tps \cup {t}
    BY <1>0, <2>2
  <2>4. DOMAIN new \subseteq TabletId /\ IsFiniteSet(DOMAIN new)
    BY <1>0, <2>3, FS_AddElement
  <2>5. \A i \in Thread : On(new, i) = IF i = least THEN On(tps, i) \cup {t} ELSE On(tps, i)
    BY <1>2
  <2> HIDE DEF new
  <2>6. \A i \in Thread : participants(tps, i) \in Nat /\ IsFiniteSet(On(tps, i)) /\ t \notin On(tps, i)
    BY <1>0, <1>2, ParticipantsNat
  <2>7. ASSUME NEW i \in Thread
        PROVE  participants(new, i) = IF i = least THEN participants(tps, i) + 1 ELSE participants(tps, i)
    <3>1. participants(new, i) = Cardinality(On(new, i)) /\ participants(tps, i) = Cardinality(On(tps, i))
      BY DEF participants
    <3>2. Cardinality(On(tps, i) \cup {t}) = Cardinality(On(tps, i)) + 1
      <4> HIDE DEF On
      <4> QED BY <2>6, FS_AddElement
    <3> HIDE DEF On
    <3>3. QED
      BY <2>5, <3>1, <3>2
  <2>8. Balanced(new)
    <3> SUFFICES ASSUME NEW i \in Thread, NEW j \in Thread
                 PROVE  participants(new, i) <= participants(new, j) + 1
      BY DEF Balanced
    <3>1. /\ participants(tps, i) \in Nat /\ participants(tps, j) \in Nat
          /\ participants(tps, i) <= participants(tps, j) + 1
          /\ participants(tps, least) <= participants(tps, j)
      BY <1>0, <2>2, <2>6 DEF Balanced
    <3>2. QED
      BY <2>7, <3>1
  <2>9. QED
    BY <2>1, <2>3, <2>4, <2>8, TpMapParts
<1>3. QED
  BY <1>1, <1>2

KeySpaceIteration(f, tps, ranges) ==
    [k \in 0..Len(ranges) |-> IF k = 0 THEN tps ELSE add_range(f[k - 1], ranges[k])]

LEMMA KeySpaceIterationExists ==
    ASSUME NEW tps \in TpMap, NEW ranges \in Seq(TabletId)
    PROVE  \E f : f = KeySpaceIteration(f, tps, ranges)
<1> DEFINE n == Len(ranges)
           g == [k \in 1..n |-> [s \in TpMap |-> add_range(s, ranges[k])]]
<1>1. n \in Nat /\ \A k \in 1..n : ranges[k] \in TabletId
  OBVIOUS
<1>2. g \in Steps(TpMap, n)
  <2>1. ASSUME NEW k \in 1..n, NEW s \in TpMap PROVE add_range(s, ranges[k]) \in TpMap
    BY <1>1, AddRangeFacts
  <2>2. QED
    BY <2>1 DEF Steps
<1>3. \A s \in TpMap, k \in 1..n : g[k][s] = add_range(s, ranges[k])
  OBVIOUS
<1> HIDE DEF g, n
<1>4. PICK f \in [0..n -> TpMap] :
          f[0] = tps /\ \A k \in 1..n : f[k] = g[k][f[k - 1]]
  BY <1>1, <1>2, Recursion
<1> USE DEF n
<1> DEFINE h == KeySpaceIteration(f, tps, ranges)
<1>5. \A k \in 0..n : f[k] = h[k]
  <2> SUFFICES ASSUME NEW k \in 0..n PROVE f[k] = h[k]
    OBVIOUS
  <2>1. CASE k = 0
    BY <2>1, <1>4 DEF KeySpaceIteration
  <2>2. CASE k # 0
    <3>1. k \in 1..n /\ k - 1 \in 0..n
      BY <2>2, <1>1
    <3>2. f[k] = add_range(f[k - 1], ranges[k])
      BY <1>3, <1>4, <3>1
    <3>3. QED
      BY <2>2, <3>2 DEF KeySpaceIteration
  <2>3. QED
    BY <2>1, <2>2
<1>6. h = [k \in 0..n |-> h[k]]
  BY DEF KeySpaceIteration
<1> HIDE DEF h
<1>7. f = h
  BY <1>4, <1>5, <1>6
<1>8. QED
  BY <1>7 DEF h

\* A key space change leaves the threads balanced.
LEMMA KeySpaceChangeFacts ==
    ASSUME NEW tps \in TpMap, NEW ranges \in Seq(TabletId)
    PROVE  handle_key_space_change(tps, ranges) \in TpMap
<1> DEFINE n == Len(ranges)
           F == CHOOSE f : f = KeySpaceIteration(f, tps, ranges)
           G == {k \in 0..n : F[k] \in TpMap}
<1>1. F = KeySpaceIteration(F, tps, ranges)
  BY KeySpaceIterationExists
<1>2. handle_key_space_change(tps, ranges) = F[n]
  BY Zenon DEF handle_key_space_change, KeySpaceIteration
<1> HIDE DEF F
<1>3. n \in Nat /\ \A k \in 1..n : ranges[k] \in TabletId
  OBVIOUS
<1>4. \A k \in 0..n : F[k] = IF k = 0 THEN tps ELSE add_range(F[k - 1], ranges[k])
  <2>1. \A k \in 0..n : KeySpaceIteration(F, tps, ranges)[k] =
            IF k = 0 THEN tps ELSE add_range(F[k - 1], ranges[k])
    BY DEF KeySpaceIteration
  <2>2. QED
    BY <1>1, <2>1
<1>5. 0 \in G
  BY <1>3, <1>4
<1>6. ASSUME NEW k \in 1..n, k - 1 \in G PROVE k \in G
  <2>1. F[k - 1] \in TpMap /\ F[k] = add_range(F[k - 1], ranges[k])
    BY <1>4, <1>6
  <2>2. F[k] \in TpMap
    BY <2>1, <1>3, AddRangeFacts
  <2>3. QED
    BY <2>2
<1>7. n \in G
  <2> HIDE DEF G
  <2>1. \A k \in 0..n : k \in G
    BY <1>3, <1>5, <1>6, Induction
  <2>2. QED
    BY <2>1, <1>3
<1>8. QED
  BY <1>2, <1>7

-----------------------------------------------------------------------------
(* Types and tasks.                                                        *)

\* OneTaskForTheHead for a scheduler with queue q, posted tasks ps, and r if it runs one.
HeadTask(q, ps, r) ==
    IF q = << >> THEN ps = {} /\ ~r
    ELSE ps = IF r THEN {} ELSE {Head(q)}

Chunk == [part : {"header", "body"}, msg : Message]

PeerInv ==
    /\ offered \in [Peer -> Nat] /\ crashed \subseteq Peer
    /\ message_queue \in [Peer -> Seq(Message)] /\ accepted \in [Peer -> Seq(Message)]
    /\ \A p \in Peer : Len(message_queue[p]) <= MAX_MESSAGES_QUEUE_SIZE
    /\ wire \in [Peer -> Seq(Chunk)]
    /\ header_sent \in [Peer -> BOOLEAN]
    /\ \A p \in Peer : header_sent[p] => message_queue[p] # << >>
    /\ reading \in [Peer -> {"header", "body", "closed"}]

SlaveInv ==
    /\ tp_map \in TpMap
    /\ queue \in [Scheduler -> Seq(Item)] /\ handled \in [Scheduler -> Seq(Item)]
    /\ posted \in [Scheduler -> SUBSET Item]
    /\ running \in [Scheduler -> BOOLEAN]
    /\ refused \in Seq(Item)
    /\ \A s \in Scheduler : HeadTask(queue[s], posted[s], running[s])

LEMMA InvImplies == PeerInv /\ SlaveInv => TypeOK /\ OneTaskForTheHead /\ ThreadsBalanced
<1> SUFFICES ASSUME PeerInv, SlaveInv PROVE TypeOK /\ OneTaskForTheHead /\ ThreadsBalanced
  OBVIOUS
<1>1. /\ tp_map \in [DOMAIN tp_map -> Thread] /\ DOMAIN tp_map \subseteq TabletId
      /\ Balanced(tp_map)
  BY TpMapParts DEF SlaveInv
<1>2. TypeOK
  BY <1>1 DEF PeerInv, SlaveInv, TypeOK, Chunk
<1>3. OneTaskForTheHead
  BY DEF SlaveInv, HeadTask, OneTaskForTheHead
<1>4. ThreadsBalanced
  BY <1>1 DEF Balanced, ThreadsBalanced
<1>5. QED
  BY <1>2, <1>3, <1>4

\* A scheduler that is typed and has its task.
Ready(sched, r) == sched \in SchedulerState /\ HeadTask(sched.queue, sched.posted, r)

LEMMA ReadyParts ==
    ASSUME NEW sched, NEW r, Ready(sched, r)
    PROVE  /\ sched \in SchedulerState /\ sched.queue \in Seq(Item) /\ sched.posted \in SUBSET Item
           /\ HeadTask(sched.queue, sched.posted, r)
BY DEF Ready, SchedulerState

LEMMA SchedulersReady ==
    ASSUME SlaveInv, NEW s \in Scheduler
    PROVE  /\ Ready(SchedulerOf(s), running[s])
           /\ SchedulerOf(s).queue = queue[s] /\ SchedulerOf(s).posted = posted[s]
BY DEF SlaveInv, Ready, SchedulerOf, SchedulerState

\* queue_message keeps the task for the head ...
LEMMA QueueMessageKeeps ==
    ASSUME NEW sched, NEW r, Ready(sched, r), NEW item \in Item
    PROVE  /\ queue_message(sched, item).queue = Append(sched.queue, item)
           /\ Ready(queue_message(sched, item), r)
<1> DEFINE q == sched.queue
           ps == sched.posted
           new == queue_message(sched, item)
<1>0. q \in Seq(Item) /\ ps \in SUBSET Item /\ HeadTask(q, ps, r) /\ new \in SchedulerState
  BY ReadyParts, QueueMessageType
<1>1. /\ new.queue = Append(q, item)
      /\ new.posted = IF q = << >> THEN ps \cup {item} ELSE ps
  BY DEF queue_message
<1> HIDE DEF new, q, ps
<1>2. Append(q, item) \in Seq(Item) /\ Append(q, item) # << >>
  BY <1>0
<1>3. Head(Append(q, item)) = IF q = << >> THEN item ELSE Head(q)
  BY <1>0
<1>4. HeadTask(new.queue, new.posted, r)
  BY <1>0, <1>1, <1>2, <1>3 DEF HeadTask
<1>5. QED
  BY <1>0, <1>1, <1>4 DEF Ready, new, q

\* ... and so do several calls ...
LEMMA QueueMessagesKeeps ==
    ASSUME NEW sched, NEW r, Ready(sched, r), NEW items \in Seq(Item)
    PROVE  /\ queue_messages(sched, items).queue = sched.queue \o items
           /\ HeadTask(queue_messages(sched, items).queue, queue_messages(sched, items).posted, r)
           /\ queue_messages(sched, items).queue \in Seq(Item)
           /\ queue_messages(sched, items).posted \in SUBSET Item
<1> DEFINE q == sched.queue
           ps == sched.posted
           new == queue_messages(sched, items)
<1>0. q \in Seq(Item) /\ ps \in SUBSET Item /\ HeadTask(q, ps, r) /\ sched \in SchedulerState
  BY ReadyParts
<1>1. /\ new.queue = q \o items
      /\ new.posted = IF q = << >> /\ items # << >> THEN ps \cup {items[1]} ELSE ps
  BY <1>0, QueueMessagesFacts
<1> HIDE DEF new, q, ps
<1>3. q \o items \in Seq(Item)
  BY <1>0
<1>4. items # << >> => items[1] \in Item /\ Head(items) = items[1]
  OBVIOUS
<1>5. new.posted \in SUBSET Item
  BY <1>0, <1>1, <1>4
<1>6. CASE q = << >>
  <2>1. q \o items = items
    BY <1>6
  <2>2. ps = {} /\ ~r
    BY <1>0, <1>6 DEF HeadTask
  <2>3. HeadTask(items, new.posted, r)
    BY <1>1, <1>4, <1>6, <2>2 DEF HeadTask
  <2>4. QED
    BY <1>1, <1>3, <1>5, <2>1, <2>3 DEF new, q
<1>7. CASE q # << >>
  <2>1. q \o items # << >> /\ Head(q \o items) = Head(q)
    BY <1>0, <1>7
  <2>2. HeadTask(q \o items, new.posted, r)
    BY <1>0, <1>1, <1>7, <2>1 DEF HeadTask
  <2>3. QED
    BY <1>1, <1>3, <1>5, <2>2 DEF new, q
<1>8. QED
  BY <1>6, <1>7

\* ... and the end of a task.
LEMMA PopKeeps ==
    ASSUME NEW sched, Ready(sched, TRUE)
    PROVE  /\ sched.queue # << >> /\ pop(sched).queue = Tail(sched.queue)
           /\ Ready(pop(sched), FALSE)
<1> DEFINE q == sched.queue
           ps == sched.posted
           new == pop(sched)
<1>0. q \in Seq(Item) /\ ps \in SUBSET Item /\ HeadTask(q, ps, TRUE)
  BY ReadyParts
<1>2. /\ new.queue = Tail(q)
      /\ new.posted = IF Len(q) > 1 THEN ps \cup {q[2]} ELSE ps
      /\ new = [queue |-> new.queue, posted |-> new.posted]
  BY DEF pop
<1> HIDE DEF new, q, ps
<1>1. q # << >> /\ ps = {}
  BY <1>0 DEF HeadTask
<1>3. Tail(q) \in Seq(Item) /\ Len(q) \in Nat /\ (Tail(q) = << >> <=> ~(Len(q) > 1))
  <2>1. Tail(q) \in Seq(Item) /\ Len(Tail(q)) = Len(q) - 1 /\ Len(q) \in Nat
    BY <1>0, <1>1
  <2>2. Tail(q) # << >> => Len(Tail(q)) \in Nat \ {0}
    BY <2>1, EmptySeq
  <2>3. Tail(q) = << >> => Len(Tail(q)) = 0
    BY EmptySeq
  <2>4. QED
    BY <2>1, <2>2, <2>3
<1>4. Len(q) > 1 => q[2] \in Item /\ Head(Tail(q)) = q[2]
  BY <1>0, <1>1
<1>5. new.posted \in SUBSET Item
  BY <1>0, <1>2, <1>4
<1>6. HeadTask(new.queue, new.posted, FALSE)
  BY <1>1, <1>2, <1>3, <1>4 DEF HeadTask
<1>7. new \in SchedulerState
  BY <1>2, <1>3, <1>5 DEF SchedulerState
<1>8. QED
  BY <1>1, <1>2, <1>6, <1>7 DEF Ready, new, q

LEMMA FromSelfType ==
    ASSUME NEW m \in Message
    PROVE  /\ FromSelf(m) \in Seq(Item)
           /\ \A k \in DOMAIN FromSelf(m) : FromSelf(m)[k].from = Self
<1> DEFINE n == Len(Content[m].broadcast)
<1>1. Content[m].broadcast \in Seq({b \in Message : Content[b].kind # "request"})
  BY ContentAssumption
<1>2. n \in Nat /\ DOMAIN Content[m].broadcast = 1..n
      /\ \A k \in 1..n : Content[m].broadcast[k] \in Message
  BY <1>1
<1>3. FromSelf(m) \in [1..n -> Item] /\ \A k \in 1..n : FromSelf(m)[k].from = Self
  <2>1. \A k \in 1..n : /\ FromSelf(m)[k] = [from |-> Self, msg |-> Content[m].broadcast[k]]
                        /\ FromSelf(m)[k].from = Self
    BY <1>2 DEF FromSelf
  <2>2. \A b \in Message : [from |-> Self, msg |-> b] \in Item
    BY DEF Item
  <2>3. FromSelf(m) = [k \in 1..n |-> FromSelf(m)[k]]
    BY <1>2 DEF FromSelf
  <2>4. \A k \in 1..n : FromSelf(m)[k] \in Item
    BY <1>2, <2>1, <2>2
  <2>5. QED
    BY <2>1, <2>3, <2>4
<1>4. FromSelf(m) \in Seq(Item)
  BY <1>2, <1>3, SeqDef
<1>5. QED
  BY <1>3, <1>4

\* A step that gives one scheduler a queue with its task keeps the invariant ...
LEMMA UpdateOne ==
    ASSUME SlaveInv, NEW s \in Scheduler,
           NEW A \in Seq(Item), NEW B \in SUBSET Item, NEW r \in BOOLEAN, HeadTask(A, B, r),
           queue' = [queue EXCEPT ![s] = A], posted' = [posted EXCEPT ![s] = B],
           running' = [running EXCEPT ![s] = r],
           tp_map' \in TpMap, handled' \in [Scheduler -> Seq(Item)], refused' \in Seq(Item)
    PROVE  SlaveInv'
<1>1. /\ queue \in [Scheduler -> Seq(Item)] /\ posted \in [Scheduler -> SUBSET Item]
      /\ running \in [Scheduler -> BOOLEAN]
  BY DEF SlaveInv
<1>2. /\ queue' \in [Scheduler -> Seq(Item)] /\ posted' \in [Scheduler -> SUBSET Item]
      /\ running' \in [Scheduler -> BOOLEAN]
  BY <1>1
<1>3. /\ queue'[s] = A /\ posted'[s] = B /\ running'[s] = r
      /\ \A x \in Scheduler : x # s => queue'[x] = queue[x] /\ posted'[x] = posted[x] /\ running'[x] = running[x]
  BY <1>1
<1>4. ASSUME NEW x \in Scheduler PROVE HeadTask(queue'[x], posted'[x], running'[x])
  <2>1. HeadTask(queue[x], posted[x], running[x])
    BY DEF SlaveInv
  <2>2. CASE x = s
    BY <1>3, <2>2
  <2>3. CASE x # s
    BY <1>3, <2>1, <2>3
  <2>4. QED
    BY <2>2, <2>3
<1>5. QED
  BY <1>2, <1>4 DEF SlaveInv, HeadTask

\* ... and so does one that does it for two.
LEMMA UpdateTwo ==
    ASSUME SlaveInv, NEW s \in Scheduler, NEW u \in Scheduler, s # u,
           NEW As \in Seq(Item), NEW Bs \in SUBSET Item, NEW r \in BOOLEAN, HeadTask(As, Bs, r),
           NEW Au \in Seq(Item), NEW Bu \in SUBSET Item, HeadTask(Au, Bu, running[u]),
           queue' = [queue EXCEPT ![s] = As, ![u] = Au],
           posted' = [posted EXCEPT ![s] = Bs, ![u] = Bu],
           running' = [running EXCEPT ![s] = r],
           tp_map' \in TpMap, handled' \in [Scheduler -> Seq(Item)], refused' \in Seq(Item)
    PROVE  SlaveInv'
<1>1. /\ queue \in [Scheduler -> Seq(Item)] /\ posted \in [Scheduler -> SUBSET Item]
      /\ running \in [Scheduler -> BOOLEAN]
  BY DEF SlaveInv
<1>2. /\ queue' \in [Scheduler -> Seq(Item)] /\ posted' \in [Scheduler -> SUBSET Item]
      /\ running' \in [Scheduler -> BOOLEAN]
  BY <1>1
<1>3. /\ queue'[s] = As /\ posted'[s] = Bs /\ running'[s] = r
      /\ queue'[u] = Au /\ posted'[u] = Bu /\ running'[u] = running[u]
      /\ \A x \in Scheduler : x # s /\ x # u =>
             queue'[x] = queue[x] /\ posted'[x] = posted[x] /\ running'[x] = running[x]
  BY <1>1
<1>4. ASSUME NEW x \in Scheduler PROVE HeadTask(queue'[x], posted'[x], running'[x])
  <2>1. HeadTask(queue[x], posted[x], running[x])
    BY DEF SlaveInv
  <2>2. CASE x = s
    BY <1>3, <2>2
  <2>3. CASE x = u
    BY <1>3, <2>3
  <2>4. CASE x # s /\ x # u
    BY <1>3, <2>1, <2>4
  <2>5. QED
    BY <2>2, <2>3, <2>4
<1>5. QED
  BY <1>2, <1>4 DEF SlaveInv, HeadTask

\* The task that begins is that of the message in front.
LEMMA BeginFacts ==
    ASSUME SlaveInv, NEW s \in Scheduler, NEW item, Begin(s, item)
    PROVE  /\ item \in Item /\ item.msg \in Message
           /\ queue[s] \in Seq(Item) /\ queue[s] # << >> /\ item = Head(queue[s])
           /\ posted[s] = {item} /\ ~running[s]
           /\ HeadTask(queue[s], {}, TRUE)
           /\ running' = [running EXCEPT ![s] = TRUE]
           /\ handled' = [handled EXCEPT ![s] = Append(@, item)]
           /\ handled' \in [Scheduler -> Seq(Item)]
           /\ UNCHANGED <<peerVars, socketVars>>
<1>1. /\ item \in posted[s] /\ ~running[s]
      /\ running' = [running EXCEPT ![s] = TRUE]
      /\ handled' = [handled EXCEPT ![s] = Append(@, item)]
      /\ UNCHANGED <<peerVars, socketVars>>
  BY DEF Begin
<1>2. HeadTask(queue[s], posted[s], running[s]) /\ posted[s] \in SUBSET Item /\ queue[s] \in Seq(Item)
      /\ handled \in [Scheduler -> Seq(Item)]
  BY DEF SlaveInv
<1>3. queue[s] # << >> /\ item = Head(queue[s]) /\ posted[s] = {item}
  BY <1>1, <1>2 DEF HeadTask
<1>4. item \in Item
  BY <1>1, <1>2
<1>5. item.msg \in Message
  BY <1>4 DEF Item
<1>6. handled[s] \in Seq(Item) /\ Append(handled[s], item) \in Seq(Item)
  BY <1>2, <1>4
<1>7. handled' \in [Scheduler -> Seq(Item)]
  BY <1>1, <1>2, <1>6
<1>8. HeadTask(queue[s], {}, TRUE)
  BY <1>3 DEF HeadTask
<1>9. QED
  BY <1>1, <1>2, <1>3, <1>4, <1>5, <1>7, <1>8

\* The network thread gives a message to the server's scheduler.
LEMMA ReceiveKeeps ==
    ASSUME SlaveInv, NEW p \in Peer, NEW m \in Message, Receive(p, m)
    PROVE  /\ SlaveInv'
           /\ queue' = [queue EXCEPT ![Server] = Append(queue[Server], [from |-> p, msg |-> m])]
           /\ UNCHANGED <<tp_map, running, handled, refused>>
<1> DEFINE item == [from |-> p, msg |-> m]
           new == queue_message(SchedulerOf(Server), item)
<1>1. item \in Item /\ Server \in Scheduler
  BY DEF Item, Scheduler
<1>2. running[Server] \in BOOLEAN /\ running = [running EXCEPT ![Server] = running[Server]]
  BY <1>1 DEF SlaveInv
<1>3. /\ queue' = [queue EXCEPT ![Server] = new.queue]
      /\ posted' = [posted EXCEPT ![Server] = new.posted]
      /\ UNCHANGED <<tp_map, running, handled, refused>>
  BY DEF Receive
<1> HIDE DEF item
<1>4. new.queue = Append(queue[Server], item) /\ Ready(new, running[Server])
  BY <1>1, SchedulersReady, QueueMessageKeeps
<1> HIDE DEF new
<1>5. new.queue \in Seq(Item) /\ new.posted \in SUBSET Item /\ HeadTask(new.queue, new.posted, running[Server])
  BY <1>4, ReadyParts
<1>6. tp_map' \in TpMap /\ handled' \in [Scheduler -> Seq(Item)] /\ refused' \in Seq(Item)
  BY <1>3 DEF SlaveInv
<1>7. SlaveInv'
  BY <1>1, <1>2, <1>3, <1>5, <1>6, UpdateOne
<1>8. QED
  BY <1>3, <1>4, <1>7 DEF item

\* The rest of a task.
LEMMA FinishKeeps ==
    ASSUME SlaveInv, NEW s \in Scheduler, FinishTask(s)
    PROVE  /\ SlaveInv'
           /\ running[s] /\ queue[s] # << >>
           /\ queue' = [queue EXCEPT ![s] = Tail(queue[s])]
           /\ running' = [running EXCEPT ![s] = FALSE]
           /\ UNCHANGED <<peerVars, socketVars, tp_map, handled, refused>>
<1> DEFINE new == pop(SchedulerOf(s))
<1>1. /\ running[s] /\ running' = [running EXCEPT ![s] = FALSE]
      /\ queue' = [queue EXCEPT ![s] = new.queue]
      /\ posted' = [posted EXCEPT ![s] = new.posted]
      /\ UNCHANGED <<peerVars, socketVars, tp_map, handled, refused>>
  BY DEF FinishTask
<1>2. running[s] = TRUE
  BY <1>1 DEF SlaveInv
<1>3. Ready(SchedulerOf(s), TRUE) /\ SchedulerOf(s).queue = queue[s]
  BY <1>2, SchedulersReady
<1>4. queue[s] # << >> /\ new.queue = Tail(queue[s]) /\ Ready(new, FALSE)
  BY <1>3, PopKeeps
<1> HIDE DEF new
<1>5. new.queue \in Seq(Item) /\ new.posted \in SUBSET Item /\ HeadTask(new.queue, new.posted, FALSE)
  BY <1>4, ReadyParts
<1>6. tp_map' \in TpMap /\ handled' \in [Scheduler -> Seq(Item)] /\ refused' \in Seq(Item)
  BY <1>1 DEF SlaveInv
<1>7. SlaveInv'
  BY <1>1, <1>5, <1>6, UpdateOne
<1>8. QED
  BY <1>1, <1>4, <1>7

\* A task of the server that forwards its message.
LEMMA ForwardKeeps ==
    ASSUME SlaveInv, NEW item \in posted[Server], Forward(item)
    PROVE  /\ SlaveInv'
           /\ \E t \in TabletId : /\ t \in Targets(item.msg)
                                  /\ queue' = [queue EXCEPT ![t] = Append(queue[t], item)]
           /\ UNCHANGED <<tp_map, refused>>
<1>0. Server \in Scheduler /\ TabletId \subseteq Scheduler
  BY DEF Scheduler
<1>1. PICK t \in Targets(item.msg) :
          LET sched == queue_message(SchedulerOf(t), item)
          IN /\ queue' = [queue EXCEPT ![t] = sched.queue]
             /\ posted' = [posted EXCEPT ![t] = sched.posted, ![Server] = @ \ {item}]
  BY DEF Forward
<1>2. Begin(Server, item) /\ UNCHANGED <<tp_map, refused>>
  BY DEF Forward
<1>3. /\ item \in Item /\ queue[Server] \in Seq(Item) /\ posted[Server] = {item} /\ ~running[Server]
      /\ HeadTask(queue[Server], {}, TRUE)
      /\ running' = [running EXCEPT ![Server] = TRUE] /\ handled' \in [Scheduler -> Seq(Item)]
  BY <1>0, <1>2, BeginFacts
<1>4. t \in DOMAIN tp_map /\ t \in TabletId /\ t # Server
  <2>1. Targets(item.msg) \subseteq DOMAIN tp_map
    BY DEF Targets
  <2>2. DOMAIN tp_map \subseteq TabletId
    BY TpMapParts DEF SlaveInv
  <2>3. QED
    BY <1>1, <2>1, <2>2, SchedulerAssumption
<1> DEFINE new == queue_message(SchedulerOf(t), item)
<1>5. /\ queue[t] \in Seq(Item) /\ posted[t] \in SUBSET Item /\ running[t] \in BOOLEAN
      /\ HeadTask(queue[t], posted[t], running[t])
  BY <1>0, <1>4 DEF SlaveInv
<1>6. new.queue = Append(queue[t], item) /\ Ready(new, running[t])
  BY <1>0, <1>3, <1>4, SchedulersReady, QueueMessageKeeps
<1>7. /\ new.queue = Append(queue[t], item) /\ new.queue \in Seq(Item)
      /\ new.posted \in SUBSET Item /\ HeadTask(new.queue, new.posted, running[t])
  <2> HIDE DEF new
  <2> QED BY <1>6, ReadyParts
<1>8. /\ queue' = [queue EXCEPT ![t] = new.queue]
      /\ posted' = [posted EXCEPT ![t] = new.posted, ![Server] = @ \ {item}]
  BY <1>1
<1> HIDE DEF new
<1>9. /\ queue' = [queue EXCEPT ![Server] = queue[Server], ![t] = new.queue]
      /\ posted' = [posted EXCEPT ![Server] = {}, ![t] = new.posted]
  <2>1. queue \in [Scheduler -> Seq(Item)] /\ posted \in [Scheduler -> SUBSET Item]
    BY DEF SlaveInv
  <2>2. queue' = [queue EXCEPT ![Server] = queue[Server], ![t] = new.queue]
    BY <1>0, <1>4, <1>8, <2>1
  <2>3. posted' = [posted EXCEPT ![t] = new.posted, ![Server] = {}]
    BY <1>0, <1>3, <1>4, <1>8, <2>1
  <2>4. QED
    BY <1>0, <1>4, <2>1, <2>2, <2>3
<1>10. tp_map' \in TpMap /\ refused' \in Seq(Item)
  BY <1>2 DEF SlaveInv
<1>11. SlaveInv'
  <2>1. t \in Scheduler
    BY <1>0, <1>4
  <2>2. {} \in SUBSET Item /\ TRUE \in BOOLEAN
    OBVIOUS
  <2>3. QED
    BY <1>0, <1>3, <1>4, <1>5, <1>7, <1>9, <1>10, <2>1, <2>2, UpdateTwo
<1>12. QED
  BY <1>1, <1>2, <1>4, <1>7, <1>8, <1>11

\* A task of the server that answers or drops its message.
LEMMA DropKeeps ==
    ASSUME SlaveInv, NEW item \in posted[Server], Refuse(item) \/ Ignore(item)
    PROVE  SlaveInv' /\ Begin(Server, item) /\ UNCHANGED <<tp_map, queue>>
<1>0. Server \in Scheduler
  BY DEF Scheduler
<1>1. Begin(Server, item) /\ posted' = [posted EXCEPT ![Server] = @ \ {item}] /\ UNCHANGED <<tp_map, queue>>
  BY DEF Refuse, Ignore
<1>2. /\ item \in Item /\ queue[Server] \in Seq(Item) /\ posted[Server] = {item}
      /\ HeadTask(queue[Server], {}, TRUE)
      /\ running' = [running EXCEPT ![Server] = TRUE] /\ handled' \in [Scheduler -> Seq(Item)]
  BY <1>0, <1>1, BeginFacts
<1>3. /\ queue' = [queue EXCEPT ![Server] = queue[Server]]
      /\ posted' = [posted EXCEPT ![Server] = {}]
  BY <1>0, <1>1, <1>2 DEF SlaveInv
<1>4. refused' \in Seq(Item)
  <2>1. refused \in Seq(Item) /\ Append(refused, item) \in Seq(Item)
    BY <1>2 DEF SlaveInv
  <2>2. refused' = refused \/ refused' = Append(refused, item)
    BY DEF Refuse, Ignore, ClientRespond
  <2>3. QED
    BY <2>1, <2>2
<1>5. tp_map' \in TpMap
  BY <1>1 DEF SlaveInv
<1>6. SlaveInv'
  BY <1>0, <1>2, <1>3, <1>4, <1>5, UpdateOne
<1>7. QED
  BY <1>1, <1>6

\* A task of the server that handles a message for the group.
LEMMA HandleGroupKeeps ==
    ASSUME SlaveInv, NEW item \in posted[Server], HandleGroup(item)
    PROVE  /\ SlaveInv' /\ Begin(Server, item)
           /\ queue' = [queue EXCEPT ![Server] = queue[Server] \o FromSelf(item.msg)]
           /\ UNCHANGED refused
<1> DEFINE old == [SchedulerOf(Server) EXCEPT !.posted = @ \ {item}]
           new == queue_messages(old, FromSelf(item.msg))
<1>0. Server \in Scheduler
  BY DEF Scheduler
<1>1. /\ Begin(Server, item)
      /\ tp_map' = handle_key_space_change(tp_map, Content[item.msg].new_ranges)
      /\ queue' = [queue EXCEPT ![Server] = new.queue]
      /\ posted' = [posted EXCEPT ![Server] = new.posted]
      /\ UNCHANGED refused
  BY DEF HandleGroup
<1>2. /\ item \in Item /\ item.msg \in Message /\ queue[Server] \in Seq(Item) /\ posted[Server] = {item}
      /\ HeadTask(queue[Server], {}, TRUE)
      /\ running' = [running EXCEPT ![Server] = TRUE] /\ handled' \in [Scheduler -> Seq(Item)]
  BY <1>0, <1>1, BeginFacts
<1>3. old.queue = queue[Server] /\ old.posted = {} /\ old = [queue |-> queue[Server], posted |-> {}]
  <2>1. SchedulerOf(Server) = [queue |-> queue[Server], posted |-> {item}]
    BY <1>2 DEF SchedulerOf
  <2>2. {item} \ {item} = {}
    OBVIOUS
  <2>3. old = [queue |-> queue[Server], posted |-> {item} \ {item}]
    BY <2>1
  <2>4. QED
    BY <2>2, <2>3
<1> HIDE DEF old
<1>4. old \in SchedulerState
  BY <1>2, <1>3 DEF SchedulerState
<1>5. Ready(old, TRUE)
  BY <1>2, <1>3, <1>4 DEF Ready
<1>6. FromSelf(item.msg) \in Seq(Item)
  BY <1>2, FromSelfType
<1>7. /\ new.queue = queue[Server] \o FromSelf(item.msg)
      /\ new.queue \in Seq(Item) /\ new.posted \in SUBSET Item /\ HeadTask(new.queue, new.posted, TRUE)
  BY <1>3, <1>5, <1>6, QueueMessagesKeeps
<1> HIDE DEF new
<1>8. tp_map' \in TpMap
  BY <1>1, <1>2, KeySpaceChangeFacts, ContentAssumption DEF SlaveInv
<1>9. refused' \in Seq(Item)
  BY <1>1 DEF SlaveInv
<1>10. SlaveInv'
  BY <1>0, <1>1, <1>2, <1>7, <1>8, <1>9, UpdateOne
<1>11. QED
  BY <1>1, <1>7, <1>10

\* A task of a tablet.
LEMMA TabletHandleKeeps ==
    ASSUME SlaveInv, NEW t \in TabletId, NEW item \in posted[t], TabletHandle(t, item)
    PROVE  /\ SlaveInv' /\ Begin(t, item)
           /\ queue' = [queue EXCEPT ![Server] = queue[Server] \o FromSelf(item.msg)]
           /\ UNCHANGED <<tp_map, refused>>
<1> DEFINE new == queue_messages(SchedulerOf(Server), FromSelf(item.msg))
<1>0. Server \in Scheduler /\ t \in Scheduler /\ t # Server
  BY SchedulerAssumption DEF Scheduler
<1>1. /\ Begin(t, item)
      /\ queue' = [queue EXCEPT ![Server] = new.queue]
      /\ posted' = [posted EXCEPT ![Server] = new.posted, ![t] = @ \ {item}]
      /\ UNCHANGED <<tp_map, refused>>
  BY DEF TabletHandle
<1>2. /\ item \in Item /\ item.msg \in Message /\ queue[t] \in Seq(Item) /\ posted[t] = {item}
      /\ HeadTask(queue[t], {}, TRUE)
      /\ running' = [running EXCEPT ![t] = TRUE] /\ handled' \in [Scheduler -> Seq(Item)]
  BY <1>0, <1>1, BeginFacts
<1>3. Ready(SchedulerOf(Server), running[Server]) /\ SchedulerOf(Server).queue = queue[Server]
  BY <1>0, SchedulersReady
<1>4. FromSelf(item.msg) \in Seq(Item)
  BY <1>2, FromSelfType
<1>5. /\ new.queue = queue[Server] \o FromSelf(item.msg)
      /\ new.queue \in Seq(Item) /\ new.posted \in SUBSET Item
      /\ HeadTask(new.queue, new.posted, running[Server])
  BY <1>3, <1>4, QueueMessagesKeeps
<1> HIDE DEF new
<1>6. /\ queue' = [queue EXCEPT ![t] = queue[t], ![Server] = new.queue]
      /\ posted' = [posted EXCEPT ![t] = {}, ![Server] = new.posted]
  <2>1. queue \in [Scheduler -> Seq(Item)] /\ posted \in [Scheduler -> SUBSET Item]
    BY DEF SlaveInv
  <2>2. queue' = [queue EXCEPT ![t] = queue[t], ![Server] = new.queue]
    BY <1>0, <1>1, <2>1
  <2>3. posted' = [posted EXCEPT ![Server] = new.posted, ![t] = {}]
    BY <1>0, <1>1, <1>2, <2>1
  <2>4. QED
    BY <1>0, <2>1, <2>2, <2>3
<1>7. tp_map' \in TpMap /\ refused' \in Seq(Item)
  BY <1>1 DEF SlaveInv
<1>8. {} \in SUBSET Item /\ TRUE \in BOOLEAN
  OBVIOUS
<1>9. SlaveInv'
  BY <1>0, <1>2, <1>5, <1>6, <1>7, <1>8, UpdateTwo
<1>10. QED
  BY <1>1, <1>5, <1>9

\* What a peer's channel and the socket do.
LEMMA PeerKeeps ==
    ASSUME PeerInv, NEW p \in Peer,
           \/ QueueSend(p) \/ ChannelStep(p) \/ Crash(p) \/ RecvStep(p)
    PROVE  PeerInv'
<1> USE DEF PeerInv
<1>0. message_queue[p] \in Seq(Message) /\ accepted[p] \in Seq(Message) /\ wire[p] \in Seq(Chunk)
  OBVIOUS
<1>1. CASE QueueSend(p)
  <2> DEFINE m == Script[p][offered[p] + 1]
  <2>1. /\ offered[p] \in Nat /\ offered[p] < Len(Script[p]) /\ Script[p] \in Seq(Message)
        /\ offered' = [offered EXCEPT ![p] = @ + 1]
        /\ UNCHANGED <<header_sent, wire, crashed, reading>>
    BY <1>1, ContentAssumption DEF QueueSend, socketVars
  <2>2. m \in Message
    <3>1. offered[p] + 1 \in 1..Len(Script[p])
      BY <2>1
    <3> QED BY <2>1, <3>1, ElementOfSeq
  <2>3. offered' \in [Peer -> Nat]
    BY <2>1
  <2> HIDE DEF m
  <2>4. CASE UNCHANGED <<message_queue, accepted>>
    BY <2>1, <2>3, <2>4
  <2>5. CASE HasRoom(message_queue[p])
    <3>1. /\ message_queue' = [message_queue EXCEPT ![p] = Append(message_queue[p], m)]
          /\ accepted' = [accepted EXCEPT ![p] = Append(accepted[p], m)]
      BY <1>1, <2>5 DEF QueueSend, m
    <3>2. /\ Append(message_queue[p], m) \in Seq(Message) /\ Append(accepted[p], m) \in Seq(Message)
          /\ Append(message_queue[p], m) # << >>
          /\ Len(Append(message_queue[p], m)) <= MAX_MESSAGES_QUEUE_SIZE
      <4> HIDE DEF PeerInv
      <4>1. /\ Append(message_queue[p], m) \in Seq(Message) /\ Append(accepted[p], m) \in Seq(Message)
            /\ Len(Append(message_queue[p], m)) = Len(message_queue[p]) + 1 /\ Len(message_queue[p]) \in Nat
        BY <1>0, <2>2
      <4>2. Append(message_queue[p], m) # << >>
        BY <4>1
      <4>3. Len(message_queue[p]) < MAX_MESSAGES_QUEUE_SIZE
        BY <2>5 DEF HasRoom
      <4>4. QED
        BY <4>1, <4>2, <4>3, BoundAssumption
    <3>3. message_queue' \in [Peer -> Seq(Message)] /\ accepted' \in [Peer -> Seq(Message)]
      BY <3>1, <3>2
    <3>4. \A x \in Peer : message_queue'[x] = IF x = p THEN Append(message_queue[p], m) ELSE message_queue[x]
      BY <3>1
    <3> HIDE DEF HasRoom
    <3>5. QED
      BY <2>1, <2>3, <3>2, <3>3, <3>4
  <2>6. QED
    BY <1>1, <2>4, <2>5 DEF QueueSend
<1>2. CASE WriteHeader(p)
  <2>1. /\ message_queue[p] # << >>
        /\ wire' = [wire EXCEPT ![p] = Append(wire[p], [part |-> "header", msg |-> Head(message_queue[p])])]
        /\ header_sent' = [header_sent EXCEPT ![p] = TRUE]
        /\ UNCHANGED <<offered, message_queue, accepted, crashed, reading>>
    BY <1>2 DEF WriteHeader, Put
  <2>2. [part |-> "header", msg |-> Head(message_queue[p])] \in Chunk
    BY <1>0, <2>1 DEF Chunk
  <2>3. Append(wire[p], [part |-> "header", msg |-> Head(message_queue[p])]) \in Seq(Chunk)
    BY <1>0, <2>2
  <2>4. wire' \in [Peer -> Seq(Chunk)] /\ header_sent' \in [Peer -> BOOLEAN]
    BY <2>1, <2>3
  <2>5. \A x \in Peer : header_sent'[x] => message_queue[x] # << >>
    BY <2>1
  <2>6. QED
    BY <2>1, <2>4, <2>5
<1>3. CASE WriteBody(p)
  <2>1. /\ header_sent[p]
        /\ wire' = [wire EXCEPT ![p] = Append(wire[p], [part |-> "body", msg |-> Head(message_queue[p])])]
        /\ message_queue' = [message_queue EXCEPT ![p] = Tail(message_queue[p])]
        /\ header_sent' = [header_sent EXCEPT ![p] = FALSE]
        /\ UNCHANGED <<offered, accepted, crashed, reading>>
    BY <1>3 DEF WriteBody, Put
  <2>2. message_queue[p] # << >>
    BY <2>1
  <2>3. [part |-> "body", msg |-> Head(message_queue[p])] \in Chunk
    BY <1>0, <2>2 DEF Chunk
  <2>4. Append(wire[p], [part |-> "body", msg |-> Head(message_queue[p])]) \in Seq(Chunk)
    BY <1>0, <2>3
  <2>5. Tail(message_queue[p]) \in Seq(Message) /\ Len(Tail(message_queue[p])) = Len(message_queue[p]) - 1
        /\ Len(message_queue[p]) \in Nat
    BY <1>0, <2>2
  <2>6. wire' \in [Peer -> Seq(Chunk)] /\ header_sent' \in [Peer -> BOOLEAN] /\ message_queue' \in [Peer -> Seq(Message)]
    BY <2>1, <2>4, <2>5
  <2>7. \A x \in Peer : x # p => message_queue'[x] = message_queue[x] /\ header_sent'[x] = header_sent[x]
    BY <2>1
  <2>8. message_queue'[p] = Tail(message_queue[p]) /\ header_sent'[p] = FALSE
    BY <2>1
  <2>9. \A x \in Peer : Len(message_queue'[x]) <= MAX_MESSAGES_QUEUE_SIZE
    <3>1. Len(message_queue[p]) <= MAX_MESSAGES_QUEUE_SIZE /\ MAX_MESSAGES_QUEUE_SIZE \in Nat
      BY BoundAssumption
    <3>2. Len(message_queue'[p]) <= MAX_MESSAGES_QUEUE_SIZE
      <4> HIDE DEF PeerInv
      <4> QED BY <2>5, <2>8, <3>1
    <3>3. QED
      BY <2>7, <3>2
  <2>10. \A x \in Peer : header_sent'[x] => message_queue'[x] # << >>
    BY <2>7, <2>8
  <2>11. QED
    BY <2>1, <2>6, <2>9, <2>10
<1>4. CASE Crash(p)
  <2>1. PICK k \in 0..Len(wire[p]) : wire' = [wire EXCEPT ![p] = SubSeq(wire[p], 1, k)]
    BY <1>4 DEF Crash
  <2>2. SubSeq(wire[p], 1, k) \in Seq(Chunk)
    BY <1>0
  <2>3. wire' \in [Peer -> Seq(Chunk)]
    BY <2>1, <2>2
  <2>4. crashed' \subseteq Peer /\ UNCHANGED <<offered, message_queue, header_sent, accepted, reading>>
    BY <1>4 DEF Crash, peerVars
  <2>5. QED
    BY <2>3, <2>4
<1>5. CASE RecvStep(p)
  <2>1. UNCHANGED <<offered, message_queue, header_sent, accepted, crashed>>
    BY <1>5 DEF RecvStep, ReadHeader, ReadBody, ReadCut, ReadEnd, peerVars
  <2>2. wire' = wire \/ (wire[p] # << >> /\ wire' = [wire EXCEPT ![p] = Tail(wire[p])])
    BY <1>5 DEF RecvStep, ReadHeader, ReadBody, ReadCut, ReadEnd
  <2>3. wire[p] # << >> => Tail(wire[p]) \in Seq(Chunk)
    BY <1>0
  <2>4. wire' \in [Peer -> Seq(Chunk)]
    BY <2>2, <2>3
  <2>5. reading' \in [Peer -> {"header", "body", "closed"}]
    BY <1>5 DEF RecvStep, ReadHeader, ReadBody, ReadCut, ReadEnd
  <2>6. QED
    BY <2>1, <2>4, <2>5
<1>6. QED
  BY <1>1, <1>2, <1>3, <1>4, <1>5 DEF ChannelStep

\* The actions, grouped by what they may change.
LEMMA NextSplit ==
    ASSUME Next
    PROVE  \/ \E p \in Peer : /\ QueueSend(p) \/ ChannelStep(p) \/ Crash(p) \/ ReadHeader(p) \/ ReadEnd(p)
                              /\ UNCHANGED slaveVars
           \/ \E p \in Peer : ReadBody(p) \/ ReadCut(p)
           \/ \E s \in Scheduler : FinishTask(s)
           \/ \E item \in posted[Server] : Forward(item)
           \/ \E item \in posted[Server] : Refuse(item) \/ Ignore(item)
           \/ \E item \in posted[Server] : HandleGroup(item)
           \/ \E t \in TabletId : \E item \in posted[t] : TabletHandle(t, item)
<1>1. ASSUME NEW p \in Peer, QueueSend(p) \/ ChannelStep(p) \/ Crash(p) \/ ReadHeader(p) \/ ReadEnd(p)
      PROVE  UNCHANGED slaveVars
  BY <1>1 DEF QueueSend, ChannelStep, WriteHeader, WriteBody, Crash, ReadHeader, ReadEnd
<1>2. Server \in Scheduler /\ TabletId \subseteq Scheduler
  BY DEF Scheduler
<1>3. QED
  BY <1>1, <1>2 DEF Next, RecvStep, ServerStep, TabletStep, Dispatch

\* What the network thread receives is a message.
LEMMA ReadFacts ==
    ASSUME PeerInv, SlaveInv, NEW p \in Peer, ReadBody(p) \/ ReadCut(p)
    PROVE  \E m \in Message : Receive(p, m)
<1>1. CASE ReadBody(p)
  <2>1. wire[p] # << >> /\ Receive(p, Head(wire[p]).msg) /\ wire[p] \in Seq(Chunk)
    BY <1>1 DEF ReadBody, PeerInv
  <2>2. Head(wire[p]) \in Chunk
    BY <2>1
  <2>3. Head(wire[p]).msg \in Message
    BY <2>2 DEF Chunk
  <2> QED BY <2>1, <2>3
<1>2. CASE ReadCut(p)
  <2>1. PICK m \in {Unknown} \cup {handled[Server][k].msg : k \in DOMAIN handled[Server]}
                           \cup {queue[Server][k].msg : k \in DOMAIN queue[Server]} : Receive(p, m)
    BY <1>2 DEF ReadCut
  <2>2. handled[Server] \in Seq(Item) /\ queue[Server] \in Seq(Item)
    BY DEF SlaveInv, Scheduler
  <2>3. /\ \A k \in DOMAIN handled[Server] : handled[Server][k] \in Item
        /\ \A k \in DOMAIN queue[Server] : queue[Server][k] \in Item
    BY <2>2
  <2>4. \A i \in Item : i.msg \in Message
    BY DEF Item
  <2> QED BY <2>1, <2>3, <2>4, ContentAssumption
<1>3. QED
  BY <1>1, <1>2

LEMMA InvInit == Init => PeerInv /\ SlaveInv
<1> SUFFICES ASSUME Init PROVE PeerInv /\ SlaveInv
  OBVIOUS
<1>1. PeerInv
  BY BoundAssumption DEF Init, PeerInv
<1>2. tp_map \in TpMap
  <2>1. DOMAIN tp_map = {} /\ tp_map \in [DOMAIN tp_map -> Thread] /\ IsFiniteSet({})
    BY FS_EmptySet DEF Init
  <2>2. \A i : participants(tp_map, i) = 0
    <3>1. \A i : {t \in DOMAIN tp_map : tp_map[t] = i} = {}
      BY <2>1
    <3> QED BY <3>1, FS_EmptySet DEF participants
  <2>3. Balanced(tp_map)
    BY <2>2 DEF Balanced
  <2>4. QED
    BY <2>1, <2>3, TpMapParts
<1>3. SlaveInv
  BY <1>2 DEF Init, SlaveInv, HeadTask
<1>4. QED
  BY <1>1, <1>3

LEMMA InvStep == PeerInv /\ SlaveInv /\ [Next]_vars => PeerInv' /\ SlaveInv'
<1> SUFFICES ASSUME PeerInv, SlaveInv, [Next]_vars PROVE PeerInv' /\ SlaveInv'
  OBVIOUS
<1>s. ASSUME UNCHANGED slaveVars PROVE SlaveInv'
  BY <1>s DEF slaveVars, SlaveInv, HeadTask
<1>p. ASSUME UNCHANGED <<peerVars, socketVars>> PROVE PeerInv'
  BY <1>p DEF peerVars, socketVars, PeerInv
<1>0. Server \in Scheduler /\ TabletId \subseteq Scheduler
  BY DEF Scheduler
<1>1. ASSUME NEW p \in Peer, UNCHANGED slaveVars,
             QueueSend(p) \/ ChannelStep(p) \/ Crash(p) \/ ReadHeader(p) \/ ReadEnd(p)
      PROVE  PeerInv' /\ SlaveInv'
  BY <1>1, <1>s, PeerKeeps DEF RecvStep
<1>2. ASSUME NEW p \in Peer, ReadBody(p) \/ ReadCut(p) PROVE PeerInv' /\ SlaveInv'
  BY <1>2, ReadFacts, ReceiveKeeps, PeerKeeps DEF RecvStep
<1>3. ASSUME NEW s \in Scheduler, FinishTask(s) PROVE PeerInv' /\ SlaveInv'
  BY <1>3, <1>p, FinishKeeps
<1>4. ASSUME NEW item \in posted[Server], Forward(item) PROVE PeerInv' /\ SlaveInv'
  <2>1. UNCHANGED <<peerVars, socketVars>>
    BY <1>4 DEF Forward, Begin
  <2> QED BY <1>4, <1>p, <2>1, ForwardKeeps
<1>5. ASSUME NEW item \in posted[Server], Refuse(item) \/ Ignore(item) PROVE PeerInv' /\ SlaveInv'
  <2>1. UNCHANGED <<peerVars, socketVars>>
    BY <1>5 DEF Refuse, Ignore, Begin
  <2> QED BY <1>5, <1>p, <2>1, DropKeeps
<1>6. ASSUME NEW item \in posted[Server], HandleGroup(item) PROVE PeerInv' /\ SlaveInv'
  <2>1. UNCHANGED <<peerVars, socketVars>>
    BY <1>6 DEF HandleGroup, Begin
  <2> QED BY <1>6, <1>p, <2>1, HandleGroupKeeps
<1>7. ASSUME NEW t \in TabletId, NEW item \in posted[t], TabletHandle(t, item) PROVE PeerInv' /\ SlaveInv'
  <2>1. UNCHANGED <<peerVars, socketVars>>
    BY <1>7 DEF TabletHandle, Begin
  <2> QED BY <1>7, <1>p, <2>1, TabletHandleKeeps
<1>8. CASE UNCHANGED vars
  BY <1>8, <1>s, <1>p DEF vars
<1>9. CASE Next
  BY <1>9, <1>1, <1>2, <1>3, <1>4, <1>5, <1>6, <1>7, NextSplit
<1>10. QED
  BY <1>8, <1>9

\* The queues, the socket and the tasks hold what they should, and no send queue exceeds
\* its limit, whatever the peers send and whenever they crash.
THEOREM TypeCorrect == Spec => []TypeOK
<1>1. PeerInv /\ SlaveInv => TypeOK
  BY InvImplies
<1>2. QED
  BY <1>1, InvInit, InvStep, PTL DEF Spec

\* An AsyncSchedulerImpl has a task for the message in front and no other, however the
\* threads that queue messages and the callback that queues more of them interleave.
THEOREM OneTask == Spec => []OneTaskForTheHead
<1>1. PeerInv /\ SlaveInv => OneTaskForTheHead
  BY InvImplies
<1>2. QED
  BY <1>1, InvInit, InvStep, PTL DEF Spec

\* tp_provider keeps the threads balanced, for any number of threads and any sequence of
\* key space changes.
THEOREM TabletsAreBalanced == Spec => []ThreadsBalanced
<1>1. PeerInv /\ SlaveInv => ThreadsBalanced
  BY InvImplies
<1>2. QED
  BY <1>1, InvInit, InvStep, PTL DEF Spec

-----------------------------------------------------------------------------
(* The items of a sequence that come from one peer.                        *)

FromIteration(f, seq, p) ==
    [k \in 0..Len(seq) |->
        IF k = 0 THEN << >>
        ELSE IF seq[k].from = p THEN Append(f[k - 1], seq[k]) ELSE f[k - 1]]

\* What the function From defines has done after n rounds.
Selects(f, seq, p, n) ==
    /\ f[0] = << >>
    /\ \A k \in 1..n : f[k] = IF seq[k].from = p THEN Append(f[k - 1], seq[k]) ELSE f[k - 1]

\* The function that From chooses exists.
LEMMA FromIterationExists ==
    ASSUME NEW seq \in Seq(Item), NEW p
    PROVE  \E f : f = FromIteration(f, seq, p)
<1> DEFINE n == Len(seq)
           Step(s, k) == IF seq[k].from = p THEN Append(s, seq[k]) ELSE s
           g == [k \in 1..n |-> [s \in Seq(Item) |-> Step(s, k)]]
<1>1. n \in Nat /\ << >> \in Seq(Item) /\ \A k \in 1..n : seq[k] \in Item
  OBVIOUS
<1>2. g \in Steps(Seq(Item), n)
  <2>1. ASSUME NEW k \in 1..n, NEW s \in Seq(Item) PROVE Step(s, k) \in Seq(Item)
    BY <1>1
  <2> HIDE DEF Step
  <2>2. QED
    BY <2>1 DEF Steps
<1> HIDE DEF Step
<1>3. \A s \in Seq(Item), k \in 1..n : g[k][s] = Step(s, k)
  OBVIOUS
<1> HIDE DEF g, n
<1>4. PICK f \in [0..n -> Seq(Item)] :
          f[0] = << >> /\ \A k \in 1..n : f[k] = g[k][f[k - 1]]
  <2> DEFINE S == Seq(Item)
             e == << >>
  <2>1. e \in S /\ g \in Steps(S, n)
    BY <1>1, <1>2
  <2>2. n \in Nat
    BY <1>1
  <2> HIDE DEF S, e
  <2>3. \E f \in [0..n -> S] : f[0] = e /\ \A k \in 1..n : f[k] = g[k][f[k - 1]]
    BY <2>1, <2>2, Recursion
  <2> QED BY <2>3 DEF S, e
<1> USE DEF n
<1> DEFINE h == FromIteration(f, seq, p)
<1>5. \A k \in 0..n : f[k] = h[k]
  <2> SUFFICES ASSUME NEW k \in 0..n PROVE f[k] = h[k]
    OBVIOUS
  <2>1. CASE k = 0
    BY <2>1, <1>4 DEF FromIteration
  <2>2. CASE k # 0
    <3>1. k \in 1..n /\ k - 1 \in 0..n
      BY <2>2, <1>1
    <3>2. f[k] = Step(f[k - 1], k)
      BY <1>3, <1>4, <3>1
    <3>3. QED
      BY <2>2, <3>2 DEF FromIteration, Step
  <2>3. QED
    BY <2>1, <2>2
<1>6. h = [k \in 0..n |-> h[k]]
  BY DEF FromIteration
<1> HIDE DEF h
<1>7. f = h
  BY <1>4, <1>5, <1>6
<1>8. QED
  BY <1>7 DEF h

\* From is the last value of a function that selects.
LEMMA FromIs ==
    ASSUME NEW seq \in Seq(Item), NEW p
    PROVE  \E f : Selects(f, seq, p, Len(seq)) /\ From(seq, p) = f[Len(seq)]
<1> DEFINE F == CHOOSE f : f = FromIteration(f, seq, p)
<1>1. F = FromIteration(F, seq, p)
  BY FromIterationExists
<1>2. From(seq, p) = F[Len(seq)]
  BY Zenon DEF From, FromIteration
<1> HIDE DEF F
<1>3. \A k \in 0..Len(seq) : F[k] = IF k = 0 THEN << >>
          ELSE IF seq[k].from = p THEN Append(F[k - 1], seq[k]) ELSE F[k - 1]
  <2>1. \A k \in 0..Len(seq) : FromIteration(F, seq, p)[k] = IF k = 0 THEN << >>
          ELSE IF seq[k].from = p THEN Append(F[k - 1], seq[k]) ELSE F[k - 1]
    BY DEF FromIteration
  <2> QED BY <1>1, <2>1
<1>4. Selects(F, seq, p, Len(seq))
  BY <1>3 DEF Selects
<1>5. QED
  BY <1>2, <1>4

Alike(s, t, n) == \A k \in 1..n : s[k] = t[k]

\* Sequences that agree on their first n elements are treated alike.
LEMMA SelectsAlike ==
    ASSUME NEW n \in Nat, NEW s, NEW t, Alike(s, t, n),
           NEW p, NEW f, NEW g, Selects(f, s, p, n), Selects(g, t, p, n)
    PROVE  \A k \in 0..n : f[k] = g[k]
<1> DEFINE G == {k \in 0..n : f[k] = g[k]}
<1>1. 0 \in G
  BY DEF Selects
<1>2. ASSUME NEW k \in 1..n, k - 1 \in G PROVE k \in G
  BY <1>2 DEF Selects, Alike
<1> HIDE DEF G
<1>3. \A k \in 0..n : k \in G
  BY <1>1, <1>2, Induction
<1>4. QED
  BY <1>3 DEF G

\* What is selected is a sequence of items of the peer, and has them all.
LEMMA SelectsFacts ==
    ASSUME NEW n \in Nat, NEW seq \in Seq(Item), n <= Len(seq), NEW p, NEW f, Selects(f, seq, p, n)
    PROVE  \A k \in 0..n : /\ f[k] \in Seq(Item)
                           /\ \A i \in 1..Len(f[k]) : f[k][i].from = p /\ \E j \in 1..k : seq[j] = f[k][i]
                           /\ \A j \in 1..k : seq[j].from = p => \E i \in 1..Len(f[k]) : f[k][i] = seq[j]
<1> DEFINE Sound(k) == \A i \in 1..Len(f[k]) : f[k][i].from = p /\ \E j \in 1..k : seq[j] = f[k][i]
           Complete(k) == \A j \in 1..k : seq[j].from = p => \E i \in 1..Len(f[k]) : f[k][i] = seq[j]
           G == {k \in 0..n : f[k] \in Seq(Item) /\ Sound(k) /\ Complete(k)}
<1>1. 0 \in G
  <2>1. f[0] = << >>
    BY DEF Selects
  <2>2. f[0] \in Seq(Item) /\ Len(f[0]) = 0
    BY <2>1
  <2>3. 1..Len(f[0]) = {} /\ 1..0 = {}
    BY <2>2
  <2>4. Sound(0) /\ Complete(0)
    BY <2>3
  <2> QED BY <2>2, <2>4
<1>2. ASSUME NEW k \in 1..n, k - 1 \in G PROVE k \in G
  <2>0. seq[k] \in Item
    OBVIOUS
  <2>1. f[k - 1] \in Seq(Item) /\ Sound(k - 1) /\ Complete(k - 1) /\ seq[k] \in Item
    <3> HIDE DEF Sound, Complete
    <3> QED BY <1>2, <2>0
  <2>2. f[k] = IF seq[k].from = p THEN Append(f[k - 1], seq[k]) ELSE f[k - 1]
    BY DEF Selects
  <2>3. CASE seq[k].from # p
    <3>1. f[k] = f[k - 1]
      BY <2>2, <2>3
    <3>2. Sound(k)
      <4>1. 1..(k - 1) \subseteq 1..k
        OBVIOUS
      <4> QED BY <2>1, <3>1, <4>1
    <3>3. Complete(k)
      <4> SUFFICES ASSUME NEW j \in 1..k, seq[j].from = p
                   PROVE  \E i \in 1..Len(f[k]) : f[k][i] = seq[j]
        OBVIOUS
      <4>1. j \in 1..(k - 1)
        BY <2>3
      <4> QED BY <2>1, <3>1, <4>1
    <3> HIDE DEF Sound, Complete
    <3>4. QED
      BY <2>1, <3>1, <3>2, <3>3
  <2>4. CASE seq[k].from = p
    <3> DEFINE a == f[k - 1]
    <3>1. f[k] = Append(a, seq[k]) /\ a \in Seq(Item)
      BY <2>1, <2>2, <2>4
    <3>2. /\ f[k] \in Seq(Item) /\ Len(f[k]) = Len(a) + 1 /\ Len(a) \in Nat
          /\ f[k][Len(a) + 1] = seq[k] /\ \A i \in 1..Len(a) : f[k][i] = a[i]
      BY <3>1, <2>1
    <3>3. Sound(k)
      <4> SUFFICES ASSUME NEW i \in 1..Len(f[k])
                   PROVE  f[k][i].from = p /\ \E j \in 1..k : seq[j] = f[k][i]
        OBVIOUS
      <4>1. CASE i = Len(a) + 1
        BY <4>1, <3>2, <2>4
      <4>2. CASE i # Len(a) + 1
        <5>1. i \in 1..Len(a)
          BY <4>2, <3>2
        <5>2. f[k][i] = a[i] /\ a[i].from = p /\ \E j \in 1..(k - 1) : seq[j] = a[i]
          BY <5>1, <3>2, <2>1
        <5> QED BY <5>2
      <4>3. QED
        BY <4>1, <4>2
    <3>4. Complete(k)
      <4> SUFFICES ASSUME NEW j \in 1..k, seq[j].from = p
                   PROVE  \E i \in 1..Len(f[k]) : f[k][i] = seq[j]
        OBVIOUS
      <4>1. CASE j = k
        BY <4>1, <3>2
      <4>2. CASE j # k
        <5>1. j \in 1..(k - 1)
          BY <4>2
        <5>2. PICK i \in 1..Len(a) : a[i] = seq[j]
          BY <5>1, <2>1
        <5> QED BY <5>2, <3>2
      <4>3. QED
        BY <4>1, <4>2
    <3>5. QED
      BY <3>2, <3>3, <3>4
  <2>5. QED
    BY <2>3, <2>4
<1> HIDE DEF G
<1>3. \A k \in 0..n : k \in G
  BY <1>1, <1>2, Induction
<1>4. QED
  BY <1>3 DEF G

\* From returns the items of the peer, in Seq(Item), and misses none.
LEMMA FromFacts ==
    ASSUME NEW seq \in Seq(Item), NEW p
    PROVE  /\ From(seq, p) \in Seq(Item)
           /\ \A i \in 1..Len(From(seq, p)) :
                  From(seq, p)[i].from = p /\ \E j \in 1..Len(seq) : seq[j] = From(seq, p)[i]
           /\ \A j \in 1..Len(seq) : seq[j].from = p =>
                  \E i \in 1..Len(From(seq, p)) : From(seq, p)[i] = seq[j]
<1>1. PICK f : Selects(f, seq, p, Len(seq)) /\ From(seq, p) = f[Len(seq)]
  BY FromIs
<1>2. Len(seq) \in Nat /\ Len(seq) <= Len(seq) /\ Len(seq) \in 0..Len(seq)
  OBVIOUS
<1>3. QED
  BY <1>1, <1>2, SelectsFacts

\* More items do not change what was selected before.
LEMMA FromGrows ==
    ASSUME NEW h \in Seq(Item), NEW q \in Seq(Item), NEW p
    PROVE  /\ Len(From(h, p)) <= Len(From(h \o q, p))
           /\ \A i \in 1..Len(From(h, p)) : From(h \o q, p)[i] = From(h, p)[i]
           /\ (\A k \in 1..Len(q) : q[k].from # p) => From(h \o q, p) = From(h, p)
<1> DEFINE s == h \o q
           a == From(h, p)
<1>1. /\ s \in Seq(Item) /\ Len(s) = Len(h) + Len(q) /\ Len(h) \in Nat /\ Len(q) \in Nat
      /\ \A k \in 1..Len(h) : s[k] = h[k]
      /\ \A k \in 1..Len(q) : s[Len(h) + k] = q[k]
  BY ConcatProperties
<1> HIDE DEF s
<1>2. PICK f : Selects(f, s, p, Len(s)) /\ From(s, p) = f[Len(s)]
  BY <1>1, FromIs
<1>3. PICK e : Selects(e, h, p, Len(h)) /\ a = e[Len(h)]
  BY FromIs
<1>4. f[Len(h)] = a
  <2>1. Selects(f, s, p, Len(h))
    BY <1>1, <1>2 DEF Selects
  <2>2. Alike(s, h, Len(h))
    BY <1>1 DEF Alike
  <2>3. \A k \in 0..Len(h) : f[k] = e[k]
    BY <1>1, <1>3, <2>1, <2>2, SelectsAlike
  <2> QED BY <1>1, <1>3, <2>3
<1> HIDE DEF a
<1>5. ASSUME NEW k \in 0..Len(q) PROVE f[Len(h) + k] \in Seq(Item)
  <2>1. Len(h) + k \in 0..Len(s) /\ Len(s) \in Nat /\ Len(s) <= Len(s)
    BY <1>1
  <2>2. QED
    BY <1>1, <1>2, <2>1, SelectsFacts
<1>6. ASSUME NEW k \in 1..Len(q)
      PROVE  f[Len(h) + k] = IF q[k].from = p THEN Append(f[Len(h) + (k - 1)], q[k]) ELSE f[Len(h) + (k - 1)]
  <2>0. s[Len(h) + k] = q[k]
    BY <1>1
  <2>1. Len(h) + k \in 1..Len(s) /\ (Len(h) + k) - 1 = Len(h) + (k - 1) /\ s[Len(h) + k] = q[k]
    BY <1>1, <2>0
  <2>2. f[Len(h) + k] = IF s[Len(h) + k].from = p THEN Append(f[(Len(h) + k) - 1], s[Len(h) + k])
                        ELSE f[(Len(h) + k) - 1]
    BY <1>2, <2>1 DEF Selects
  <2>3. QED
    BY <2>1, <2>2
<1>a. a \in Seq(Item) /\ Len(a) \in Nat
  <2>1. 0 \in 0..Len(q) /\ Len(h) + 0 = Len(h)
    BY <1>1
  <2> QED BY <1>4, <1>5, <2>1
<1> DEFINE Extends(b) == Len(a) <= Len(b) /\ \A i \in 1..Len(a) : b[i] = a[i]
           G == {k \in 0..Len(q) : Extends(f[Len(h) + k])}
<1>7. 0 \in G
  BY <1>1, <1>4, <1>a
<1>8. ASSUME NEW k \in 1..Len(q), k - 1 \in G PROVE k \in G
  <2> DEFINE b == f[Len(h) + (k - 1)]
  <2>1. k - 1 \in 0..Len(q) /\ q[k] \in Item /\ Extends(b) /\ k \in 0..Len(q)
    BY <1>8, <1>1
  <2>2. b \in Seq(Item)
    BY <1>5, <2>1
  <2>3. Extends(Append(b, q[k]))
    <3> HIDE DEF b
    <3>1. Len(Append(b, q[k])) = Len(b) + 1 /\ Len(b) \in Nat /\ \A i \in 1..Len(b) : Append(b, q[k])[i] = b[i]
      BY <2>1, <2>2
    <3> QED BY <1>a, <2>1, <3>1
  <2>4. Extends(f[Len(h) + k])
    <3> HIDE DEF Extends, b
    <3>1. f[Len(h) + k] = IF q[k].from = p THEN Append(b, q[k]) ELSE b
      BY <1>6 DEF b
    <3> QED BY <2>1, <2>3, <3>1
  <2> HIDE DEF Extends
  <2>5. QED
    BY <2>1, <2>4
<1> HIDE DEF G
<1>9. Len(q) \in G
  <2>1. \A k \in 0..Len(q) : k \in G
    BY <1>1, <1>7, <1>8, Induction
  <2> QED BY <1>1, <2>1
<1>10. Extends(From(s, p))
  BY <1>1, <1>2, <1>9 DEF G
<1>11. ASSUME \A k \in 1..Len(q) : q[k].from # p PROVE From(s, p) = a
  <2> DEFINE H == {k \in 0..Len(q) : f[Len(h) + k] = a}
  <2>1. 0 \in H
    BY <1>1, <1>4
  <2>2. ASSUME NEW k \in 1..Len(q), k - 1 \in H PROVE k \in H
    <3>1. f[Len(h) + k] = f[Len(h) + (k - 1)]
      BY <1>6, <1>11
    <3> QED BY <2>2, <3>1
  <2> HIDE DEF H
  <2>3. \A k \in 0..Len(q) : k \in H
    BY <1>1, <2>1, <2>2, Induction
  <2>4. Len(q) \in H
    BY <1>1, <2>3
  <2>5. f[Len(h) + Len(q)] = a
    BY <2>4 DEF H
  <2>6. QED
    BY <1>1, <1>2, <2>5
<1>12. QED
  BY <1>10, <1>11 DEF s, a

\* From after one more item.
LEMMA FromAppend ==
    ASSUME NEW h \in Seq(Item), NEW x \in Item, NEW p
    PROVE  From(Append(h, x), p) = IF x.from = p THEN Append(From(h, p), x) ELSE From(h, p)
<1> DEFINE s == Append(h, x)
           n == Len(h)
<1>1. s \in Seq(Item) /\ Len(s) = n + 1 /\ n \in Nat /\ s[n + 1] = x /\ \A k \in 1..n : s[k] = h[k]
  OBVIOUS
<1> HIDE DEF s, n
<1>2. PICK f : Selects(f, s, p, Len(s)) /\ From(s, p) = f[Len(s)]
  BY <1>1, FromIs
<1>3. PICK e : Selects(e, h, p, n) /\ From(h, p) = e[n]
  BY FromIs DEF n
<1>4. f[n] = From(h, p)
  <2>1. Selects(f, s, p, n)
    BY <1>1, <1>2 DEF Selects
  <2>2. Alike(s, h, n)
    BY <1>1 DEF Alike
  <2>3. \A k \in 0..n : f[k] = e[k]
    BY <1>1, <1>3, <2>1, <2>2, SelectsAlike
  <2> QED BY <1>1, <1>3, <2>3
<1>5. f[n + 1] = IF s[n + 1].from = p THEN Append(f[(n + 1) - 1], s[n + 1]) ELSE f[(n + 1) - 1]
  <2>1. n + 1 \in 1..Len(s)
    BY <1>1
  <2> QED BY <1>2, <2>1 DEF Selects
<1>6. (n + 1) - 1 = n
  BY <1>1
<1>7. QED
  BY <1>1, <1>2, <1>4, <1>5, <1>6 DEF s

\* Nothing is selected from nothing.
LEMMA FromEmpty == \A p : From(<< >>, p) = << >>
<1> SUFFICES ASSUME NEW p PROVE From(<< >>, p) = << >>
  OBVIOUS
<1> DEFINE e == << >>
<1>1. e \in Seq(Item) /\ Len(e) = 0
  OBVIOUS
<1> HIDE DEF e
<1>2. PICK f : Selects(f, e, p, Len(e)) /\ From(e, p) = f[Len(e)]
  BY <1>1, FromIs
<1>3. QED
  BY <1>1, <1>2 DEF Selects, e

-----------------------------------------------------------------------------
(* A channel and the socket behind it.                                     *)

\* What the network thread has got from a peer, g, is what the peer's channel accepted
\* first; the rest is in the socket, a header and a body for each message, and in the
\* send queue.  The header of the next message has been read if off is 1.
Intact(g, acc, mq, hs, w, off, cr) ==
    /\ Len(g) <= Len(acc) /\ \A i \in 1..Len(g) : g[i].msg = acc[i]
    /\ Len(mq) <= Len(acc) /\ \A i \in 1..Len(mq) : mq[i] = acc[(Len(acc) - Len(mq)) + i]
    /\ 2 * Len(g) + off + Len(w) <= 2 * (Len(acc) - Len(mq)) + hs
    /\ cr = 0 => 2 * Len(g) + off + Len(w) = 2 * (Len(acc) - Len(mq)) + hs
    /\ \A k \in 1..Len(w), i \in Nat : k + off = 2 * i => w[k].msg = acc[Len(g) + i]

\* A body was cut off by a crash, and whatever the buffer held has been taken for it.
Cut(g, acc, w, off, cr) ==
    /\ cr = 1 /\ w = << >> /\ off = 0
    /\ Len(g) > 0 /\ Len(g) - 1 <= Len(acc) /\ \A i \in 1..(Len(g) - 1) : g[i].msg = acc[i]

\* The sequences of a channel.
ChannelTypes(g, acc, mq, w) ==
    /\ g \in Seq(Item) /\ acc \in Seq(Message) /\ mq \in Seq(Message) /\ w \in Seq(Chunk)
    /\ Len(g) \in Nat /\ Len(acc) \in Nat /\ Len(mq) \in Nat /\ Len(w) \in Nat

\* queue_send appends to the channel's queue and to what it accepted.
LEMMA IntactAfterQueueSend ==
    ASSUME NEW g, NEW acc, NEW mq, NEW hs \in {0, 1}, NEW w, NEW off \in {0, 1}, NEW cr \in {0, 1}, NEW m \in Message,
           ChannelTypes(g, acc, mq, w), Intact(g, acc, mq, hs, w, off, cr)
    PROVE  Intact(g, Append(acc, m), Append(mq, m), hs, w, off, cr)
<1> DEFINE acc2 == Append(acc, m)
           mq2 == Append(mq, m)
<1>0. /\ acc \in Seq(Message) /\ mq \in Seq(Message) /\ Len(g) \in Nat /\ Len(acc) \in Nat
      /\ Len(mq) \in Nat /\ Len(w) \in Nat
  BY DEF ChannelTypes
<1>1. /\ Len(acc2) = Len(acc) + 1 /\ acc2[Len(acc) + 1] = m /\ \A i \in 1..Len(acc) : acc2[i] = acc[i]
      /\ Len(mq2) = Len(mq) + 1 /\ mq2[Len(mq) + 1] = m /\ \A i \in 1..Len(mq) : mq2[i] = mq[i]
  <2>1. Len(acc2) = Len(acc) + 1 /\ acc2[Len(acc) + 1] = m /\ \A i \in 1..Len(acc) : acc2[i] = acc[i]
    BY <1>0
  <2>2. Len(mq2) = Len(mq) + 1 /\ mq2[Len(mq) + 1] = m /\ \A i \in 1..Len(mq) : mq2[i] = mq[i]
    BY <1>0
  <2> QED BY <2>1, <2>2
<1> HIDE DEF acc2, mq2
<1>2. Len(g) <= Len(acc2) /\ \A i \in 1..Len(g) : g[i].msg = acc2[i]
  BY <1>0, <1>1 DEF Intact
<1>3. Len(mq2) <= Len(acc2) /\ Len(acc2) - Len(mq2) = Len(acc) - Len(mq)
  BY <1>0, <1>1 DEF Intact
<1>4. ASSUME NEW i \in 1..Len(mq2) PROVE mq2[i] = acc2[(Len(acc2) - Len(mq2)) + i]
  <2>1. CASE i = Len(mq) + 1
    <3>1. (Len(acc2) - Len(mq2)) + i = Len(acc) + 1
      BY <1>0, <1>3, <2>1
    <3> QED BY <1>1, <2>1, <3>1
  <2>2. CASE i # Len(mq) + 1
    <3>1. i \in 1..Len(mq) /\ (Len(acc) - Len(mq)) + i \in 1..Len(acc)
      BY <1>0, <1>1, <2>2 DEF Intact
    <3>2. mq[i] = acc[(Len(acc) - Len(mq)) + i]
      BY <3>1 DEF Intact
    <3> QED BY <1>1, <1>3, <3>1, <3>2
  <2>3. QED
    BY <2>1, <2>2
<1>5. ASSUME NEW k \in 1..Len(w), NEW i \in Nat, k + off = 2 * i PROVE w[k].msg = acc2[Len(g) + i]
  <2>1. w[k].msg = acc[Len(g) + i]
    BY <1>5 DEF Intact
  <2>2. 2 * Len(g) + off + Len(w) <= 2 * (Len(acc) - Len(mq)) + hs
    BY DEF Intact
  <2>3. Len(g) + i \in 1..Len(acc)
    BY <1>0, <1>5, <2>2
  <2> QED BY <1>1, <2>1, <2>3
<1>6. /\ 2 * Len(g) + off + Len(w) <= 2 * (Len(acc2) - Len(mq2)) + hs
      /\ cr = 0 => 2 * Len(g) + off + Len(w) = 2 * (Len(acc2) - Len(mq2)) + hs
  BY <1>3 DEF Intact
<1>7. Intact(g, acc2, mq2, hs, w, off, cr)
  BY <1>2, <1>3, <1>4, <1>5, <1>6 DEF Intact
<1>8. QED
  BY <1>7 DEF acc2, mq2

\* The header of the first queued message is written.
LEMMA IntactAfterHeader ==
    ASSUME NEW g, NEW acc, NEW mq, NEW w, NEW off \in {0, 1}, NEW c \in Chunk,
           ChannelTypes(g, acc, mq, w), Intact(g, acc, mq, 0, w, off, 0)
    PROVE  Intact(g, acc, mq, 1, Append(w, c), off, 0)
<1> DEFINE w2 == Append(w, c)
<1>0. w \in Seq(Chunk) /\ Len(g) \in Nat /\ Len(acc) \in Nat /\ Len(mq) \in Nat /\ Len(w) \in Nat
  BY DEF ChannelTypes
<1>1. Len(w2) = Len(w) + 1 /\ \A k \in 1..Len(w) : w2[k] = w[k]
  BY <1>0
<1> HIDE DEF w2
<1>2. 2 * Len(g) + off + Len(w) = 2 * (Len(acc) - Len(mq)) 
  BY <1>0 DEF Intact
<1>3. ASSUME NEW k \in 1..Len(w2), NEW i \in Nat, k + off = 2 * i PROVE w2[k].msg = acc[Len(g) + i]
  <2>1. k \in 1..Len(w)
    BY <1>0, <1>1, <1>2, <1>3
  <2> QED BY <1>1, <1>3, <2>1 DEF Intact
<1>a. 2 * Len(g) + off + Len(w2) = 2 * (Len(acc) - Len(mq)) + 1
  <2>1. off \in Nat /\ Len(w2) = Len(w) + 1 /\ 2 * Len(g) + off + Len(w) = 2 * (Len(acc) - Len(mq))
    BY <1>1, <1>2
  <2> QED BY <1>0, <2>1
<1>4. 2 * Len(g) + off + Len(w2) = 2 * (Len(acc) - Len(mq)) + 1
  BY <1>a, <1>2
<1>5. 2 * Len(g) + off + Len(w2) <= 2 * (Len(acc) - Len(mq)) + 1
  <2>1. 2 * (Len(acc) - Len(mq)) + 1 <= 2 * (Len(acc) - Len(mq)) + 1
    BY <1>0
  <2> QED BY <1>a, <1>2, <2>1
<1>6. Intact(g, acc, mq, 1, w2, off, 0)
  BY <1>3, <1>4, <1>5 DEF Intact
<1>7. QED
  BY <1>6 DEF w2

\* The body is written and its message leaves the queue.
LEMMA IntactAfterBody ==
    ASSUME NEW g, NEW acc, NEW mq, NEW w, NEW off \in {0, 1}, NEW c \in Chunk,
           mq # << >>, c.msg = Head(mq),
           ChannelTypes(g, acc, mq, w), Intact(g, acc, mq, 1, w, off, 0)
    PROVE  Intact(g, acc, Tail(mq), 0, Append(w, c), off, 0)
<1> DEFINE w2 == Append(w, c)
           mq2 == Tail(mq)
<1>0. /\ w \in Seq(Chunk) /\ mq \in Seq(Message) /\ acc \in Seq(Message)
      /\ Len(g) \in Nat /\ Len(acc) \in Nat /\ Len(mq) \in Nat /\ Len(w) \in Nat
  BY DEF ChannelTypes
<1>1. Len(w2) = Len(w) + 1 /\ w2[Len(w) + 1] = c /\ \A k \in 1..Len(w) : w2[k] = w[k]
  BY <1>0
<1>2. Len(mq) > 0 /\ Len(mq2) = Len(mq) - 1 /\ Head(mq) = mq[1] /\ \A i \in 1..Len(mq2) : mq2[i] = mq[i + 1]
  BY <1>0
<1> HIDE DEF w2, mq2
<1>3. /\ 2 * Len(g) + off + Len(w) = 2 * (Len(acc) - Len(mq)) + 1
      /\ Len(mq) <= Len(acc)
  BY <1>0 DEF Intact
<1>c. /\ \A i \in Nat : (Len(w) + 1) + off = 2 * i => Len(g) + i = (Len(acc) - Len(mq)) + 1
      /\ 2 * Len(g) + off + (Len(w) + 1) = 2 * (Len(acc) - (Len(mq) - 1))
      /\ 2 * Len(g) + off + (Len(w) + 1) <= 2 * (Len(acc) - (Len(mq) - 1))
      /\ Len(mq) - 1 <= Len(acc)
  <2> DEFINE G == Len(g)
             A == Len(acc)
             Q == Len(mq)
             W == Len(w)
  <2>1. /\ G \in Nat /\ A \in Nat /\ Q \in Nat /\ W \in Nat /\ Q > 0 /\ Q <= A
        /\ 2 * G + off + W = 2 * (A - Q) + 1
    BY <1>0, <1>2, <1>3
  <2> HIDE DEF G, A, Q, W
  <2>2. /\ \A i \in Nat : (W + 1) + off = 2 * i => G + i = (A - Q) + 1
        /\ 2 * G + off + (W + 1) = 2 * (A - (Q - 1))
        /\ 2 * G + off + (W + 1) <= 2 * (A - (Q - 1))
        /\ Q - 1 <= A
    BY <2>1
  <2> QED BY <2>2 DEF G, A, Q, W
<1>4. ASSUME NEW k \in 1..Len(w2), NEW i \in Nat, k + off = 2 * i PROVE w2[k].msg = acc[Len(g) + i]
  <2>1. CASE k \in 1..Len(w)
    BY <1>1, <1>4, <2>1 DEF Intact
  <2>2. CASE k \notin 1..Len(w)
    <3>1. k = Len(w) + 1 /\ Len(g) + i = (Len(acc) - Len(mq)) + 1
      <4>1. k = Len(w) + 1
        BY <1>0, <1>1, <2>2
      <4> QED BY <1>c, <1>4, <4>1
    <3>2. 1 \in 1..Len(mq) /\ mq[1] = acc[(Len(acc) - Len(mq)) + 1]
      <4>1. 1 \in 1..Len(mq)
        BY <1>0, <1>2
      <4> QED BY <4>1 DEF Intact
    <3> QED BY <1>1, <1>2, <3>1, <3>2
  <2>3. QED
    BY <2>1, <2>2
<1>5. ASSUME NEW i \in 1..Len(mq2) PROVE mq2[i] = acc[(Len(acc) - Len(mq2)) + i]
  <2>1. i + 1 \in 1..Len(mq) /\ (Len(acc) - Len(mq)) + (i + 1) = (Len(acc) - Len(mq2)) + i
    BY <1>0, <1>2
  <2>2. mq[i + 1] = acc[(Len(acc) - Len(mq)) + (i + 1)]
    BY <2>1 DEF Intact
  <2> QED BY <1>2, <2>1, <2>2
<1>6. /\ 2 * Len(g) + off + Len(w2) = 2 * (Len(acc) - Len(mq2)) + 0
      /\ 2 * Len(g) + off + Len(w2) <= 2 * (Len(acc) - Len(mq2)) + 0
      /\ Len(mq2) <= Len(acc)
  <2>1. Len(w2) = Len(w) + 1 /\ Len(mq2) = Len(mq) - 1
    BY <1>1, <1>2, <1>3
  <2>2. 2 * (Len(acc) - (Len(mq) - 1)) + 0 = 2 * (Len(acc) - (Len(mq) - 1))
    BY <1>0
  <2> QED BY <1>c, <2>1, <2>2
<1>7. Intact(g, acc, mq2, 0, w2, off, 0)
  BY <1>4, <1>5, <1>6 DEF Intact
<1>8. QED
  BY <1>7 DEF w2, mq2

\* A crash leaves a prefix of what was on the wire.
LEMMA IntactAfterCrash ==
    ASSUME NEW g, NEW acc, NEW mq, NEW hs \in {0, 1}, NEW w, NEW off \in {0, 1}, NEW cr \in {0, 1}, NEW n \in 0..Len(w),
           ChannelTypes(g, acc, mq, w), Intact(g, acc, mq, hs, w, off, cr)
    PROVE  Intact(g, acc, mq, hs, SubSeq(w, 1, n), off, 1)
<1> DEFINE w2 == SubSeq(w, 1, n)
<1>0. w \in Seq(Chunk) /\ Len(g) \in Nat /\ Len(acc) \in Nat /\ Len(mq) \in Nat /\ Len(w) \in Nat
  BY DEF ChannelTypes
<1>1. Len(w2) = n /\ \A k \in 1..n : w2[k] = w[k]
  BY <1>0
<1> HIDE DEF w2
<1>2. 2 * Len(g) + off + Len(w2) <= 2 * (Len(acc) - Len(mq)) + hs
  BY <1>0, <1>1 DEF Intact
<1>3. ASSUME NEW k \in 1..Len(w2), NEW i \in Nat, k + off = 2 * i PROVE w2[k].msg = acc[Len(g) + i]
  <2>1. k \in 1..Len(w) /\ w2[k] = w[k]
    BY <1>0, <1>1
  <2> QED BY <1>3, <2>1 DEF Intact
<1>4. Intact(g, acc, mq, hs, w2, off, 1)
  BY <1>2, <1>3 DEF Intact
<1>5. QED
  BY <1>4 DEF w2

\* A header is read.
LEMMA IntactAfterReadHeader ==
    ASSUME NEW g, NEW acc, NEW mq, NEW hs \in {0, 1}, NEW w, NEW cr \in {0, 1}, w # << >>,
           ChannelTypes(g, acc, mq, w), Intact(g, acc, mq, hs, w, 0, cr)
    PROVE  Intact(g, acc, mq, hs, Tail(w), 1, cr)
<1> DEFINE w2 == Tail(w)
<1>0. w \in Seq(Chunk) /\ Len(g) \in Nat /\ Len(acc) \in Nat /\ Len(mq) \in Nat /\ Len(w) \in Nat
  BY DEF ChannelTypes
<1>1. Len(w2) = Len(w) - 1 /\ \A k \in 1..Len(w2) : w2[k] = w[k + 1]
  BY <1>0
<1> HIDE DEF w2
<1>2. 2 * Len(g) + 1 + Len(w2) = 2 * Len(g) + 0 + Len(w)
  BY <1>0, <1>1
<1>3. ASSUME NEW k \in 1..Len(w2), NEW i \in Nat, k + 1 = 2 * i PROVE w2[k].msg = acc[Len(g) + i]
  <2>1. k + 1 \in 1..Len(w) /\ (k + 1) + 0 = 2 * i
    BY <1>0, <1>1, <1>3
  <2>2. w[k + 1].msg = acc[Len(g) + i]
    BY <2>1 DEF Intact
  <2> QED BY <1>1, <2>2
<1>4. Intact(g, acc, mq, hs, w2, 1, cr)
  BY <1>2, <1>3 DEF Intact
<1>5. QED
  BY <1>4 DEF w2

\* A body is read, and its message is the next one accepted.
LEMMA IntactAfterReadBody ==
    ASSUME NEW g, NEW acc, NEW mq, NEW hs \in {0, 1}, NEW w, NEW cr \in {0, 1}, NEW x \in Item, w # << >>, x.msg = Head(w).msg,
           ChannelTypes(g, acc, mq, w), Intact(g, acc, mq, hs, w, 1, cr)
    PROVE  Intact(Append(g, x), acc, mq, hs, Tail(w), 0, cr)
<1> DEFINE w2 == Tail(w)
           g2 == Append(g, x)
<1>0. /\ w \in Seq(Chunk) /\ g \in Seq(Item)
      /\ Len(g) \in Nat /\ Len(acc) \in Nat /\ Len(mq) \in Nat /\ Len(w) \in Nat
  BY DEF ChannelTypes
<1>1. Len(w) > 0 /\ Len(w2) = Len(w) - 1 /\ Head(w) = w[1] /\ \A k \in 1..Len(w2) : w2[k] = w[k + 1]
  BY <1>0
<1>2. Len(g2) = Len(g) + 1 /\ g2[Len(g) + 1] = x /\ \A i \in 1..Len(g) : g2[i] = g[i]
  BY <1>0
<1> HIDE DEF w2, g2
<1>3. 2 * Len(g2) + 0 + Len(w2) = 2 * Len(g) + 1 + Len(w)
  BY <1>0, <1>1, <1>2
<1>4. x.msg = acc[Len(g) + 1]
  <2>1. 1 \in 1..Len(w) /\ 1 + 1 = 2 * 1 /\ 1 \in Nat
    BY <1>0, <1>1
  <2>2. w[1].msg = acc[Len(g) + 1]
    BY <2>1 DEF Intact
  <2> QED BY <1>1, <2>2
<1>5. Len(g2) <= Len(acc)
  <2>1. 2 * Len(g) + 1 + Len(w) <= 2 * (Len(acc) - Len(mq)) + hs
    BY DEF Intact
  <2> QED BY <1>0, <1>1, <1>2, <2>1
<1>6. ASSUME NEW i \in 1..Len(g2) PROVE g2[i].msg = acc[i]
  <2>1. CASE i = Len(g) + 1
    BY <1>2, <1>4, <2>1
  <2>2. CASE i # Len(g) + 1
    <3>1. i \in 1..Len(g)
      BY <1>0, <1>2, <2>2
    <3> QED BY <1>2, <3>1 DEF Intact
  <2>3. QED
    BY <2>1, <2>2
<1>7. ASSUME NEW k \in 1..Len(w2), NEW i \in Nat, k + 0 = 2 * i PROVE w2[k].msg = acc[Len(g2) + i]
  <2>1. k + 1 \in 1..Len(w) /\ (k + 1) + 1 = 2 * (i + 1) /\ i + 1 \in Nat /\ Len(g) + (i + 1) = Len(g2) + i
    BY <1>0, <1>1, <1>2, <1>7
  <2>2. w[k + 1].msg = acc[Len(g) + (i + 1)]
    BY <2>1 DEF Intact
  <2> QED BY <1>1, <2>1, <2>2
<1>8. Intact(g2, acc, mq, hs, w2, 0, cr)
  BY <1>3, <1>5, <1>6, <1>7 DEF Intact
<1>9. QED
  BY <1>8 DEF w2, g2

\* After a crash a header without a body yields one message that nobody sent.
LEMMA CutAfterReadCut ==
    ASSUME NEW g, NEW acc, NEW mq, NEW hs \in {0, 1}, NEW w, NEW cr \in {0, 1}, NEW x \in Item, w = << >>, cr = 1,
           ChannelTypes(g, acc, mq, w), Intact(g, acc, mq, hs, w, 1, cr)
    PROVE  Cut(Append(g, x), acc, w, 0, cr)
<1> DEFINE g2 == Append(g, x)
<1>0. g \in Seq(Item) /\ Len(g) \in Nat /\ Len(acc) \in Nat
  BY DEF ChannelTypes
<1>1. Len(g2) = Len(g) + 1 /\ \A i \in 1..Len(g) : g2[i] = g[i]
  BY <1>0
<1> HIDE DEF g2
<1>2. Len(g2) - 1 = Len(g) /\ Len(g2) > 0
  BY <1>0, <1>1
<1>3. Cut(g2, acc, w, 0, cr)
  BY <1>1, <1>2 DEF Cut, Intact
<1>4. QED
  BY <1>3 DEF g2

-----------------------------------------------------------------------------
(* What a scheduler has got: what its callback has got and what waits.     *)

Pending(s) == IF running[s] THEN Tail(queue[s]) ELSE queue[s]
Got(s) == handled[s] \o Pending(s)

\* The tail of a concatenation is that of its first, non-empty part.
LEMMA TailOfConcat ==
    ASSUME NEW q \in Seq(Item), NEW r \in Seq(Item), q # << >>
    PROVE  Tail(q \o r) = Tail(q) \o r /\ q \o r # << >> /\ Tail(q) \in Seq(Item)
<1>1. /\ q \o r \in Seq(Item) /\ Len(q \o r) = Len(q) + Len(r) /\ Len(q) \in Nat /\ Len(r) \in Nat /\ Len(q) > 0
      /\ \A i \in 1..(Len(q) + Len(r)) : (q \o r)[i] = IF i <= Len(q) THEN q[i] ELSE r[i - Len(q)]
  BY ConcatProperties
<1>2. /\ Tail(q) \in Seq(Item) /\ Len(Tail(q)) = Len(q) - 1 /\ \A i \in 1..(Len(q) - 1) : Tail(q)[i] = q[i + 1]
  OBVIOUS
<1>3. q \o r # << >>
  BY <1>1
<1> DEFINE a == q \o r
           b == Tail(q)
<1>4. /\ Tail(a) \in Seq(Item) /\ Len(Tail(a)) = Len(a) - 1 /\ \A i \in 1..(Len(a) - 1) : Tail(a)[i] = a[i + 1]
  <2> HIDE DEF a
  <2>1. a \in Seq(Item) /\ a # << >>
    BY <1>1, <1>3 DEF a
  <2> QED BY <2>1
<1>5. /\ b \o r \in Seq(Item) /\ Len(b \o r) = Len(b) + Len(r)
      /\ \A i \in 1..(Len(b) + Len(r)) : (b \o r)[i] = IF i <= Len(b) THEN b[i] ELSE r[i - Len(b)]
  BY <1>2, ConcatProperties
<1>6. ASSUME NEW i \in 1..Len(Tail(a)) PROVE Tail(a)[i] = (b \o r)[i]
  <2>1. i + 1 \in 1..(Len(q) + Len(r)) /\ i \in 1..(Len(b) + Len(r)) /\ i \in 1..(Len(a) - 1)
        /\ (i + 1) - Len(q) = i - Len(b)
    BY <1>1, <1>2, <1>4
  <2>2. Tail(a)[i] = IF i + 1 <= Len(q) THEN q[i + 1] ELSE r[i - Len(b)]
    BY <1>1, <1>4, <2>1
  <2>3. (b \o r)[i] = IF i <= Len(b) THEN b[i] ELSE r[i - Len(b)]
    BY <1>5, <2>1
  <2>4. CASE i <= Len(b)
    <3>1. i + 1 <= Len(q) /\ i \in 1..(Len(q) - 1)
      BY <1>1, <1>2, <2>4
    <3> QED BY <1>2, <2>2, <2>3, <2>4, <3>1
  <2>5. CASE ~(i <= Len(b))
    <3>1. ~(i + 1 <= Len(q))
      BY <1>1, <1>2, <2>5
    <3> QED BY <2>2, <2>3, <2>5, <3>1
  <2>6. QED
    BY <2>4, <2>5
<1>7. Len(Tail(a)) = Len(b \o r)
  BY <1>1, <1>2, <1>4, <1>5
<1> HIDE DEF a, b
<1>8. Tail(a) = b \o r
  BY <1>4, <1>5, <1>6, <1>7, SeqEqual
<1>9. QED
  BY <1>2, <1>3, <1>8 DEF a, b

\* Moving the head of b to the end of a keeps their concatenation.
LEMMA HeadMoves ==
    ASSUME NEW h \in Seq(Item), NEW q \in Seq(Item), q # << >>
    PROVE  Append(h, Head(q)) \o Tail(q) = h \o q
<1> DEFINE x == Head(q)
           b == Tail(q)
<1>1. x \in Item /\ b \in Seq(Item) /\ <<x>> \in Seq(Item)
  OBVIOUS
<1>2. q = <<x>> \o b
  OBVIOUS
<1> HIDE DEF x, b
<1>3. Append(h, x) = h \o <<x>>
  BY <1>1, AppendIsConcat
<1>4. (h \o <<x>>) \o b = h \o (<<x>> \o b)
  BY <1>1, ConcatAssociative
<1>5. QED
  BY <1>2, <1>3, <1>4 DEF x, b

\* What a scheduler handled, has pending and got are sequences of items.
LEMMA GotTypes ==
    ASSUME SlaveInv, NEW s \in Scheduler
    PROVE  /\ handled[s] \in Seq(Item) /\ Pending(s) \in Seq(Item) /\ Got(s) \in Seq(Item)
           /\ queue[s] \in Seq(Item) /\ (running[s] => queue[s] # << >>)
<1>1. handled[s] \in Seq(Item) /\ queue[s] \in Seq(Item) /\ HeadTask(queue[s], posted[s], running[s])
  BY DEF SlaveInv
<1>2. running[s] => queue[s] # << >>
  BY <1>1 DEF HeadTask
<1>3. queue[s] # << >> => Tail(queue[s]) \in Seq(Item)
  BY <1>1
<1>4. Pending(s) \in Seq(Item)
  BY <1>1, <1>2, <1>3 DEF Pending
<1>5. Got(s) \in Seq(Item)
  BY <1>1, <1>4, ConcatProperties DEF Got
<1>6. QED
  BY <1>1, <1>2, <1>4, <1>5

\* Items are queued while the scheduler is idle or its callback runs.
LEMMA GotMore ==
    ASSUME SlaveInv, NEW s \in Scheduler, NEW r \in Seq(Item), queue'[s] = queue[s] \o r,
           running'[s] = running[s], handled'[s] = handled[s]
    PROVE  Got(s)' = Got(s) \o r
<1>1. /\ handled[s] \in Seq(Item) /\ Pending(s) \in Seq(Item) /\ queue[s] \in Seq(Item)
      /\ (running[s] => queue[s] # << >>)
  BY GotTypes
<1>2. Pending(s)' = Pending(s) \o r
  <2>1. CASE running[s]
    <3>1. Pending(s)' = Tail(queue[s] \o r) /\ Pending(s) = Tail(queue[s])
      BY <2>1 DEF Pending
    <3> QED BY <1>1, <2>1, <3>1, TailOfConcat
  <2>2. CASE ~running[s]
    BY <2>2 DEF Pending
  <2>3. QED
    BY <2>1, <2>2
<1>3. Got(s)' = handled[s] \o (Pending(s) \o r)
  BY <1>2 DEF Got
<1>4. handled[s] \o (Pending(s) \o r) = (handled[s] \o Pending(s)) \o r
  <2> DEFINE a == handled[s]
             b == Pending(s)
  <2>1. a \in Seq(Item) /\ b \in Seq(Item)
    BY <1>1
  <2> HIDE DEF a, b
  <2>2. a \o (b \o r) = (a \o b) \o r
    BY <2>1, ConcatAssociative
  <2> QED BY <2>2 DEF a, b
<1>5. QED
  BY <1>3, <1>4 DEF Got

\* A task begins, and its callback may queue items.
LEMMA GotBegin ==
    ASSUME SlaveInv, NEW s \in Scheduler, NEW item, Begin(s, item),
           NEW r \in Seq(Item), queue'[s] = queue[s] \o r
    PROVE  /\ Got(s)' = Got(s) \o r
           /\ \E rest \in Seq(Item) : Got(s) = Append(handled[s], item) \o rest
           /\ item \in Item /\ handled'[s] = Append(handled[s], item)
<1>1. /\ queue[s] \in Seq(Item) /\ queue[s] # << >> /\ item = Head(queue[s]) /\ ~running[s] /\ item \in Item
      /\ running' = [running EXCEPT ![s] = TRUE] /\ handled' = [handled EXCEPT ![s] = Append(@, item)]
  BY BeginFacts
<1>2. running \in [Scheduler -> BOOLEAN] /\ handled \in [Scheduler -> Seq(Item)]
  BY DEF SlaveInv
<1>3. running'[s] /\ handled'[s] = Append(handled[s], item) /\ handled[s] \in Seq(Item)
  BY <1>1, <1>2
<1>4. Got(s) = handled[s] \o queue[s]
  BY <1>1 DEF Got, Pending
<1>5. Got(s)' = Append(handled[s], item) \o Tail(queue[s] \o r)
  BY <1>3 DEF Got, Pending
<1>6. Tail(queue[s] \o r) = Tail(queue[s]) \o r /\ Tail(queue[s]) \in Seq(Item)
  BY <1>1, TailOfConcat
<1>7. Got(s) = Append(handled[s], item) \o Tail(queue[s])
  BY <1>1, <1>3, <1>4, HeadMoves
<1>8. Append(handled[s], item) \in Seq(Item)
  BY <1>1, <1>3
<1>9. Append(handled[s], item) \o (Tail(queue[s]) \o r) = (Append(handled[s], item) \o Tail(queue[s])) \o r
  <2> DEFINE a == Append(handled[s], item)
             b == Tail(queue[s])
  <2>1. a \in Seq(Item) /\ b \in Seq(Item)
    BY <1>6, <1>8
  <2> HIDE DEF a, b
  <2>2. a \o (b \o r) = (a \o b) \o r
    BY <2>1, ConcatAssociative
  <2> QED BY <2>2 DEF a, b
<1>10. QED
  BY <1>1, <1>3, <1>5, <1>6, <1>7, <1>9

\* The message of a finished task is popped.
LEMMA GotFinish ==
    ASSUME SlaveInv, NEW s \in Scheduler, FinishTask(s)
    PROVE  \A u \in Scheduler : Got(u)' = Got(u)
<1>1. /\ running[s] /\ queue' = [queue EXCEPT ![s] = Tail(queue[s])]
      /\ running' = [running EXCEPT ![s] = FALSE] /\ UNCHANGED handled
  BY FinishKeeps
<1>2. queue \in [Scheduler -> Seq(Item)] /\ running \in [Scheduler -> BOOLEAN]
  BY DEF SlaveInv
<1>3. Pending(s)' = Pending(s)
  <2>1. queue'[s] = Tail(queue[s]) /\ ~running'[s]
    BY <1>1, <1>2
  <2> QED BY <1>1, <2>1 DEF Pending
<1>4. ASSUME NEW u \in Scheduler, u # s PROVE Pending(u)' = Pending(u)
  <2>1. queue'[u] = queue[u] /\ running'[u] = running[u]
    BY <1>1, <1>2, <1>4
  <2> QED BY <2>1 DEF Pending
<1>5. QED
  BY <1>1, <1>3, <1>4 DEF Got

-----------------------------------------------------------------------------
(* The steps, as what they do to what the schedulers have got.             *)

SelfItems(r) == r \in Seq(Item) /\ \A k \in 1..Len(r) : r[k].from = Self /\ ~IsRequest(r[k])

\* The server's callback gets the item in front.
NextItem(item) ==
    /\ item \in Item /\ \E rest \in Seq(Item) : Got(Server) = Append(handled[Server], item) \o rest
    /\ handled'[Server] = Append(handled[Server], item)

TabletsSame == \A t \in TabletId : Got(t)' = Got(t)
Quiet == Got(Server)' = Got(Server) /\ TabletsSame /\ handled'[Server] = handled[Server] /\ refused' = refused
Received(p, m) ==
    /\ Got(Server)' = Append(Got(Server), [from |-> p, msg |-> m]) /\ TabletsSame
    /\ handled'[Server] = handled[Server] /\ refused' = refused
Internal ==
    /\ UNCHANGED <<peerVars, socketVars>> /\ TabletsSame /\ refused' = refused
    /\ \E r : SelfItems(r) /\ Got(Server)' = Got(Server) \o r
    /\ handled'[Server] = handled[Server] \/ \E item : NextItem(item)
Refused(item) ==
    /\ UNCHANGED <<peerVars, socketVars>> /\ TabletsSame /\ Got(Server)' = Got(Server)
    /\ NextItem(item) /\ IsRequest(item) /\ (refused' = refused \/ refused' = Append(refused, item))
Forwarded(item, t) ==
    /\ UNCHANGED <<peerVars, socketVars>> /\ Got(Server)' = Got(Server) /\ refused' = refused
    /\ NextItem(item) /\ t \in TabletId /\ t \in Targets(item.msg) /\ Got(t)' = Append(Got(t), item)
    /\ \A u \in TabletId : u # t => Got(u)' = Got(u)

\* Items of the slave itself are from no peer.
LEMMA FromSelfItems ==
    ASSUME NEW m \in Message PROVE SelfItems(FromSelf(m))
<1> DEFINE b == Content[m].broadcast
           quiet == {x \in Message : Content[x].kind # "request"}
<1>1. b \in Seq(quiet)
  BY ContentAssumption
<1>2. FromSelf(m) \in Seq(Item) /\ \A k \in DOMAIN FromSelf(m) : FromSelf(m)[k].from = Self
  BY FromSelfType
<1>3. DOMAIN FromSelf(m) = DOMAIN b /\ \A k \in DOMAIN b : FromSelf(m)[k].msg = b[k]
  BY DEF FromSelf
<1>4. DOMAIN FromSelf(m) = 1..Len(FromSelf(m))
  BY <1>2, LenProperties
<1>5. DOMAIN b = 1..Len(b)
  BY <1>1, LenProperties
<1> HIDE DEF b
<1>6. \A k \in DOMAIN b : b[k] \in quiet
  <2> HIDE DEF quiet
  <2> QED BY <1>1, <1>5, ElementOfSeq
<1>7. \A k \in DOMAIN b : Content[b[k]].kind # "request"
  BY <1>6
<1>8. QED
  BY <1>2, <1>3, <1>4, <1>7 DEF SelfItems, IsRequest

\* A callback may queue nothing.
LEMMA NoItems == SelfItems(<< >>) /\ \A s \in Seq(Item) : s \o << >> = s
<1>1. << >> \in Seq(Item) /\ Len(<< >>) = 0
  OBVIOUS
<1>2. SelfItems(<< >>)
  BY <1>1 DEF SelfItems
<1>3. QED
  BY <1>2, ConcatEmptySeq

\* A scheduler that a step does not touch.
LEMMA GotSame ==
    ASSUME NEW s, queue'[s] = queue[s], running'[s] = running[s], handled'[s] = handled[s]
    PROVE  Got(s)' = Got(s)
  BY DEF Got, Pending

\* What a receive does to the schedulers.
LEMMA ReceiveEffect ==
    ASSUME SlaveInv, NEW p \in Peer, NEW m \in Message, Receive(p, m)
    PROVE  Received(p, m)
<1> DEFINE x == [from |-> p, msg |-> m]
<1>0. Server \in Scheduler /\ TabletId \subseteq Scheduler /\ \A t \in TabletId : t # Server
  BY SchedulerAssumption DEF Scheduler
<1>1. /\ queue' = [queue EXCEPT ![Server] = Append(queue[Server], x)]
      /\ UNCHANGED <<tp_map, running, handled, refused>>
  BY ReceiveKeeps
<1>2. x \in Item /\ queue \in [Scheduler -> Seq(Item)]
  BY DEF Item, SlaveInv
<1> HIDE DEF x
<1>3. queue'[Server] = Append(queue[Server], x) /\ \A t \in TabletId : queue'[t] = queue[t]
  BY <1>0, <1>1, <1>2
<1>4. queue[Server] \in Seq(Item) /\ Got(Server) \in Seq(Item)
  BY <1>0, GotTypes
<1>5. <<x>> \in Seq(Item) /\ Append(queue[Server], x) = queue[Server] \o <<x>>
      /\ Append(Got(Server), x) = Got(Server) \o <<x>>
  <2>1. <<x>> \in Seq(Item)
    BY <1>2
  <2> QED BY <1>2, <1>4, <2>1, AppendIsConcat
<1>6. Got(Server)' = Append(Got(Server), x)
  <2>1. queue'[Server] = queue[Server] \o <<x>> /\ running'[Server] = running[Server] /\ handled'[Server] = handled[Server]
    BY <1>1, <1>3, <1>5
  <2>2. Got(Server)' = Got(Server) \o <<x>>
    BY <1>0, <1>5, <2>1, GotMore
  <2> QED BY <1>5, <2>2
<1>7. TabletsSame
  BY <1>1, <1>3, GotSame DEF TabletsSame
<1>8. QED
  BY <1>1, <1>6, <1>7 DEF Received, x

\* Finishing a task changes nothing that a scheduler got or handled.
LEMMA FinishEffect ==
    ASSUME SlaveInv, NEW s \in Scheduler, FinishTask(s)
    PROVE  Internal
<1>0. Server \in Scheduler /\ TabletId \subseteq Scheduler
  BY DEF Scheduler
<1>1. UNCHANGED <<peerVars, socketVars, handled, refused>>
  BY DEF FinishTask
<1>2. \A u \in Scheduler : Got(u)' = Got(u)
  BY GotFinish
<1>3. Got(Server) \in Seq(Item)
  BY <1>0, GotTypes
<1>4. Got(Server)' = Got(Server) \o << >>
  BY <1>0, <1>2, <1>3, NoItems
<1>5. TabletsSame
  BY <1>0, <1>2 DEF TabletsSame
<1>6. QED
  BY <1>1, <1>4, <1>5, NoItems DEF Internal

\* The server begins a task that may queue items at the server.
LEMMA ServerBegins ==
    ASSUME SlaveInv, NEW item, Begin(Server, item), NEW r \in Seq(Item),
           queue'[Server] = queue[Server] \o r
    PROVE  /\ NextItem(item) /\ Got(Server)' = Got(Server) \o r
           /\ (\A t \in TabletId : queue'[t] = queue[t]) => TabletsSame
           /\ \A t \in TabletId : running'[t] = running[t] /\ handled'[t] = handled[t]
<1>0. Server \in Scheduler /\ TabletId \subseteq Scheduler /\ \A t \in TabletId : t # Server
  BY SchedulerAssumption DEF Scheduler
<1>1. /\ Got(Server)' = Got(Server) \o r /\ item \in Item /\ handled'[Server] = Append(handled[Server], item)
      /\ \E rest \in Seq(Item) : Got(Server) = Append(handled[Server], item) \o rest
  BY <1>0, GotBegin
<1>2. running' = [running EXCEPT ![Server] = TRUE] /\ handled' = [handled EXCEPT ![Server] = Append(@, item)]
  BY <1>0, BeginFacts
<1>3. running \in [Scheduler -> BOOLEAN] /\ handled \in [Scheduler -> Seq(Item)]
  BY DEF SlaveInv
<1>4. \A t \in TabletId : running'[t] = running[t] /\ handled'[t] = handled[t]
  BY <1>0, <1>2, <1>3
<1>5. (\A t \in TabletId : queue'[t] = queue[t]) => TabletsSame
  BY <1>4, GotSame DEF TabletsSame
<1>6. QED
  BY <1>1, <1>4, <1>5 DEF NextItem

\* A message for no tablet and not for the group is refused or dropped.
LEMMA DropEffect ==
    ASSUME SlaveInv, NEW item \in posted[Server], Refuse(item) \/ Ignore(item)
    PROVE  Internal \/ Refused(item)
<1>0. Server \in Scheduler
  BY DEF Scheduler
<1>1. Begin(Server, item) /\ UNCHANGED queue
  BY DEF Refuse, Ignore
<1>2. UNCHANGED <<peerVars, socketVars>>
  BY <1>1 DEF Begin
<1>3. << >> \in Seq(Item) /\ queue[Server] \in Seq(Item) /\ Got(Server) \in Seq(Item)
  BY <1>0, GotTypes
<1>4. queue'[Server] = queue[Server] \o << >>
  BY <1>1, <1>3, NoItems
<1>5. NextItem(item) /\ Got(Server)' = Got(Server) \o << >> /\ TabletsSame
  BY <1>1, <1>3, <1>4, ServerBegins
<1>6. Got(Server) \o << >> = Got(Server)
  BY <1>3, NoItems
<1>7. CASE Refuse(item)
  <2>1. IsRequest(item) /\ (refused' = refused \/ refused' = Append(refused, item))
    BY <1>7 DEF Refuse, ClientRespond, IsRequest
  <2> QED BY <1>2, <1>5, <1>6, <2>1 DEF Refused
<1>8. CASE Ignore(item)
  <2>1. refused' = refused
    BY <1>8 DEF Ignore
  <2> QED BY <1>2, <1>5, <2>1, NoItems DEF Internal
<1>9. QED
  BY <1>7, <1>8

\* A message for the group is handled by the server, which may queue items for itself.
LEMMA HandleGroupEffect ==
    ASSUME SlaveInv, NEW item \in posted[Server], HandleGroup(item)
    PROVE  Internal
<1> DEFINE r == FromSelf(item.msg)
<1>0. Server \in Scheduler /\ TabletId \subseteq Scheduler /\ \A t \in TabletId : t # Server
  BY SchedulerAssumption DEF Scheduler
<1>1. /\ Begin(Server, item) /\ queue' = [queue EXCEPT ![Server] = queue[Server] \o r]
      /\ UNCHANGED refused
  BY HandleGroupKeeps
<1>2. UNCHANGED <<peerVars, socketVars>>
  BY <1>1 DEF Begin
<1>3. queue \in [Scheduler -> Seq(Item)]
  BY DEF SlaveInv
<1>4. SelfItems(r)
  <2>1. item.msg \in Message
    BY <1>0, <1>1, BeginFacts
  <2> QED BY <2>1, FromSelfItems
<1> HIDE DEF r
<1>5. queue'[Server] = queue[Server] \o r /\ \A t \in TabletId : queue'[t] = queue[t]
  BY <1>0, <1>1, <1>3
<1>6. NextItem(item) /\ Got(Server)' = Got(Server) \o r /\ TabletsSame
  BY <1>1, <1>4, <1>5, ServerBegins DEF SelfItems
<1>7. QED
  BY <1>1, <1>2, <1>4, <1>6 DEF Internal

\* A tablet's task may queue items at the server, none of them a request.
LEMMA TabletHandleEffect ==
    ASSUME SlaveInv, NEW t \in TabletId, NEW item \in posted[t], TabletHandle(t, item)
    PROVE  Internal
<1> DEFINE r == FromSelf(item.msg)
<1>0. Server \in Scheduler /\ TabletId \subseteq Scheduler /\ t # Server /\ \A u \in TabletId : u # Server
  BY SchedulerAssumption DEF Scheduler
<1>1. /\ Begin(t, item) /\ queue' = [queue EXCEPT ![Server] = queue[Server] \o r]
      /\ UNCHANGED refused
  BY TabletHandleKeeps
<1>2. UNCHANGED <<peerVars, socketVars>>
  BY <1>1 DEF Begin
<1>3. queue \in [Scheduler -> Seq(Item)] /\ running \in [Scheduler -> BOOLEAN] /\ handled \in [Scheduler -> Seq(Item)]
  BY DEF SlaveInv
<1>4. SelfItems(r)
  <2>1. item.msg \in Message
    BY <1>0, <1>1, BeginFacts
  <2> QED BY <2>1, FromSelfItems
<1> HIDE DEF r
<1>5. queue'[Server] = queue[Server] \o r /\ \A u \in TabletId : queue'[u] = queue[u]
  BY <1>0, <1>1, <1>3
<1>6. running' = [running EXCEPT ![t] = TRUE] /\ handled' = [handled EXCEPT ![t] = Append(@, item)]
  BY <1>0, <1>1, BeginFacts
<1>7. \A u \in Scheduler : u # t => running'[u] = running[u] /\ handled'[u] = handled[u]
  BY <1>3, <1>6
<1>8. Got(Server)' = Got(Server) \o r
  BY <1>0, <1>4, <1>5, <1>7, GotMore DEF SelfItems
<1>9. Got(t)' = Got(t)
  <2>1. << >> \in Seq(Item) /\ queue[t] \in Seq(Item) /\ Got(t) \in Seq(Item)
    BY <1>0, GotTypes
  <2>2. queue'[t] = queue[t] \o << >>
    BY <1>5, <2>1, NoItems
  <2>3. Got(t)' = Got(t) \o << >>
    BY <1>0, <1>1, <2>1, <2>2, GotBegin
  <2> QED BY <2>1, <2>3, NoItems
<1>10. TabletsSame
  <2>1. ASSUME NEW u \in TabletId, u # t PROVE Got(u)' = Got(u)
    BY <1>0, <1>5, <1>7, <2>1, GotSame
  <2> QED BY <1>9, <2>1 DEF TabletsSame
<1>11. QED
  BY <1>0, <1>1, <1>2, <1>4, <1>7, <1>8, <1>10 DEF Internal

\* A message in the range of a tablet goes to that tablet.
LEMMA ForwardEffect ==
    ASSUME SlaveInv, NEW item \in posted[Server], Forward(item)
    PROVE  \E t : Forwarded(item, t)
<1>0. Server \in Scheduler /\ TabletId \subseteq Scheduler /\ \A t \in TabletId : t # Server
  BY SchedulerAssumption DEF Scheduler
<1>1. PICK t \in TabletId : t \in Targets(item.msg) /\ queue' = [queue EXCEPT ![t] = Append(queue[t], item)]
  BY ForwardKeeps
<1>2. Begin(Server, item) /\ UNCHANGED <<peerVars, socketVars>> /\ UNCHANGED refused
  BY DEF Forward, Begin
<1>3. queue \in [Scheduler -> Seq(Item)] /\ << >> \in Seq(Item)
  BY DEF SlaveInv
<1>4. /\ queue'[Server] = queue[Server] /\ queue'[t] = Append(queue[t], item)
      /\ \A u \in TabletId : u # t => queue'[u] = queue[u]
  BY <1>0, <1>1, <1>3
<1>5. /\ queue[Server] \in Seq(Item) /\ Got(Server) \in Seq(Item) /\ queue[t] \in Seq(Item) /\ Got(t) \in Seq(Item)
  BY <1>0, GotTypes
<1>6. queue'[Server] = queue[Server] \o << >> /\ Got(Server) \o << >> = Got(Server)
  BY <1>4, <1>5, NoItems
<1>7. /\ NextItem(item) /\ Got(Server)' = Got(Server) \o << >>
      /\ \A u \in TabletId : running'[u] = running[u] /\ handled'[u] = handled[u]
  BY <1>2, <1>3, <1>6, ServerBegins
<1>8. Got(t)' = Append(Got(t), item)
  <2>1. item \in Item
    BY <1>7 DEF NextItem
  <2>2. <<item>> \in Seq(Item)
    BY <2>1
  <2>3. Append(queue[t], item) = queue[t] \o <<item>> /\ Append(Got(t), item) = Got(t) \o <<item>>
    BY <1>5, <2>1, <2>2, AppendIsConcat
  <2>4. queue'[t] = queue[t] \o <<item>> /\ running'[t] = running[t] /\ handled'[t] = handled[t]
    BY <1>4, <1>7, <2>3
  <2>5. Got(t)' = Got(t) \o <<item>>
    BY <1>0, <2>2, <2>4, GotMore
  <2> QED BY <2>3, <2>5
<1>9. \A u \in TabletId : u # t => Got(u)' = Got(u)
  BY <1>4, <1>7, GotSame
<1>10. QED
  BY <1>1, <1>2, <1>6, <1>7, <1>8, <1>9 DEF Forwarded

\* Every step is one of the effects.
LEMMA StepEffect ==
    ASSUME PeerInv, SlaveInv, [Next]_vars
    PROVE  \/ \E p \in Peer : /\ QueueSend(p) \/ ChannelStep(p) \/ Crash(p) \/ ReadHeader(p) \/ ReadEnd(p)
                              /\ Quiet
           \/ \E p \in Peer : \E m \in Message :
                  /\ (ReadBody(p) /\ m = Head(wire[p]).msg) \/ ReadCut(p)
                  /\ Received(p, m)
           \/ Internal
           \/ \E item : Refused(item)
           \/ \E item, t : Forwarded(item, t)
<1>0. Server \in Scheduler /\ TabletId \subseteq Scheduler
  BY DEF Scheduler
<1>1. ASSUME UNCHANGED slaveVars PROVE Quiet
  BY <1>1 DEF slaveVars, Quiet, TabletsSame, Got, Pending
<1>2. ASSUME UNCHANGED vars PROVE Internal
  <2>1. Quiet /\ UNCHANGED <<peerVars, socketVars>>
    BY <1>1, <1>2 DEF vars
  <2>2. Got(Server) \in Seq(Item)
    BY <1>0, GotTypes
  <2>3. Got(Server)' = Got(Server) \o << >>
    BY <2>1, <2>2, NoItems DEF Quiet
  <2> QED BY <2>1, <2>3, NoItems DEF Internal, Quiet
<1>3. ASSUME NEW p \in Peer, ReadBody(p)
      PROVE  \E m \in Message : m = Head(wire[p]).msg /\ Received(p, m)
  <2>1. wire[p] # << >> /\ Receive(p, Head(wire[p]).msg) /\ wire[p] \in Seq(Chunk)
    BY <1>3 DEF ReadBody, PeerInv
  <2>2. Head(wire[p]) \in Chunk
    BY <2>1
  <2>3. Head(wire[p]).msg \in Message
    BY <2>2 DEF Chunk
  <2> QED BY <2>1, <2>3, ReceiveEffect
<1>4. ASSUME NEW p \in Peer, ReadCut(p)
      PROVE  \E m \in Message : Received(p, m)
  BY <1>4, ReadFacts, ReceiveEffect
<1>5. CASE Next
  <2>1. ASSUME NEW p \in Peer, UNCHANGED slaveVars PROVE Quiet
    BY <1>1, <2>1
  <2>2. QED
    BY <1>0, <1>1, <1>3, <1>4, <1>5, NextSplit, FinishEffect, DropEffect, HandleGroupEffect, TabletHandleEffect, ForwardEffect
<1>6. QED
  BY <1>2, <1>5

-----------------------------------------------------------------------------
(* The invariant behind HandledInOrder.                                    *)

HeaderBit(p) == IF header_sent[p] THEN 1 ELSE 0
ReadBit(p) == IF reading[p] = "body" THEN 1 ELSE 0
CrashBit(p) == IF p \in crashed THEN 1 ELSE 0
Seen(p) == From(Got(Server), p)

Channel(p) ==
    \/ Intact(Seen(p), accepted[p], message_queue[p], HeaderBit(p), wire[p], ReadBit(p), CrashBit(p))
    \/ Cut(Seen(p), accepted[p], wire[p], ReadBit(p), CrashBit(p))

\* The elements of a are elements of b, and any two of them are there in the same order.
Ordered(a, b) ==
    /\ \A j \in 1..Len(a) : \E i \in 1..Len(b) : b[i] = a[j]
    /\ \A j, k \in 1..Len(a) : j < k => \E i, l \in 1..Len(b) : i < l /\ b[i] = a[j] /\ b[l] = a[k]

OrderInv ==
    /\ \A p \in Peer : Channel(p)
    /\ \A p \in Peer, t \in TabletId : Ordered(From(Got(t), p), From(handled[Server], p))

\* Ordered is kept when both sequences get the same item.
LEMMA OrderedGrows ==
    ASSUME NEW a \in Seq(Item), NEW b \in Seq(Item), NEW x \in Item, Ordered(a, b)
    PROVE  Ordered(a, Append(b, x)) /\ Ordered(Append(a, x), Append(b, x))
<1> DEFINE a2 == Append(a, x)
           b2 == Append(b, x)
<1>1. Len(a2) = Len(a) + 1 /\ Len(a) \in Nat /\ a2[Len(a) + 1] = x /\ \A i \in 1..Len(a) : a2[i] = a[i]
  OBVIOUS
<1>2. Len(b2) = Len(b) + 1 /\ Len(b) \in Nat /\ b2[Len(b) + 1] = x /\ \A i \in 1..Len(b) : b2[i] = b[i]
  OBVIOUS
<1> HIDE DEF a2, b2
<1>3. ASSUME NEW j \in 1..Len(a) PROVE \E i \in 1..Len(b) : i \in 1..Len(b2) /\ i < Len(b2) /\ b2[i] = a[j]
  <2>1. PICK i \in 1..Len(b) : b[i] = a[j]
    BY DEF Ordered
  <2>2. i \in 1..Len(b2) /\ i < Len(b2) /\ b2[i] = a[j]
    BY <1>2, <2>1
  <2> QED BY <2>2
<1>4. ASSUME NEW j \in 1..Len(a), NEW k \in 1..Len(a), j < k
      PROVE  \E i, l \in 1..Len(b2) : i < l /\ b2[i] = a[j] /\ b2[l] = a[k]
  <2>1. PICK i, l \in 1..Len(b) : i < l /\ b[i] = a[j] /\ b[l] = a[k]
    BY <1>4 DEF Ordered
  <2>2. i \in 1..Len(b2) /\ l \in 1..Len(b2) /\ b2[i] = a[j] /\ b2[l] = a[k]
    BY <1>2, <2>1
  <2> QED BY <2>1, <2>2
<1>5. Ordered(a, b2)
  BY <1>3, <1>4 DEF Ordered
<1>6. ASSUME NEW j \in 1..Len(a2) PROVE \E i \in 1..Len(b2) : b2[i] = a2[j]
  <2>1. CASE j = Len(a) + 1
    BY <1>1, <1>2, <2>1
  <2>2. CASE j # Len(a) + 1
    <3>1. j \in 1..Len(a)
      BY <1>1, <2>2
    <3> QED BY <1>1, <1>3, <3>1
  <2> QED BY <2>1, <2>2
<1>7. ASSUME NEW j \in 1..Len(a2), NEW k \in 1..Len(a2), j < k
      PROVE  \E i, l \in 1..Len(b2) : i < l /\ b2[i] = a2[j] /\ b2[l] = a2[k]
  <2>0. j \in 1..Len(a) /\ a2[j] = a[j]
    BY <1>1, <1>7
  <2>1. CASE k = Len(a) + 1
    <3>1. PICK i \in 1..Len(b) : i \in 1..Len(b2) /\ i < Len(b2) /\ b2[i] = a[j]
      BY <1>3, <2>0
    <3>2. Len(b2) \in 1..Len(b2) /\ b2[Len(b2)] = x /\ a2[k] = x
      BY <1>1, <1>2, <2>1
    <3> QED BY <2>0, <3>1, <3>2
  <2>2. CASE k # Len(a) + 1
    <3>1. k \in 1..Len(a) /\ a2[k] = a[k]
      BY <1>1, <2>2
    <3> QED BY <1>4, <1>7, <2>0, <3>1
  <2> QED BY <2>1, <2>2
<1>8. Ordered(a2, b2)
  BY <1>6, <1>7 DEF Ordered
<1>9. QED
  BY <1>5, <1>8 DEF a2, b2

\* The values of a channel and their lengths.
LEMMA SeenTypes ==
    ASSUME PeerInv, SlaveInv, NEW p \in Peer
    PROVE  /\ ChannelTypes(Seen(p), accepted[p], message_queue[p], wire[p])
           /\ HeaderBit(p) \in {0, 1} /\ ReadBit(p) \in {0, 1} /\ CrashBit(p) \in {0, 1}
<1>1. Server \in Scheduler
  BY DEF Scheduler
<1>2. Got(Server) \in Seq(Item)
  BY <1>1, GotTypes
<1>3. Seen(p) \in Seq(Item)
  BY <1>2, FromFacts DEF Seen
<1>4. accepted[p] \in Seq(Message) /\ message_queue[p] \in Seq(Message) /\ wire[p] \in Seq(Chunk)
  BY DEF PeerInv
<1>5. ChannelTypes(Seen(p), accepted[p], message_queue[p], wire[p])
  BY <1>3, <1>4 DEF ChannelTypes
<1>6. QED
  BY <1>5 DEF HeaderBit, ReadBit, CrashBit

\* A step that gives the server nothing from a peer.
LEMMA SeenSame ==
    ASSUME SlaveInv, NEW p \in Peer, NEW r, SelfItems(r), Got(Server)' = Got(Server) \o r
    PROVE  Seen(p)' = Seen(p)
<1>1. Server \in Scheduler /\ p # Self
  BY ContentAssumption DEF Scheduler
<1>2. Got(Server) \in Seq(Item)
  BY <1>1, GotTypes
<1>3. r \in Seq(Item) /\ \A k \in 1..Len(r) : r[k].from # p
  BY <1>1 DEF SelfItems
<1> DEFINE g == Got(Server)
<1> HIDE DEF g
<1>4. From(g \o r, p) = From(g, p)
  BY <1>2, <1>3, FromGrows DEF g
<1>5. QED
  BY <1>4 DEF Seen, g

\* A received message is the last one seen from its peer.
LEMMA SeenReceived ==
    ASSUME SlaveInv, NEW p \in Peer, NEW m \in Message, Received(p, m), NEW q \in Peer
    PROVE  Seen(q)' = IF q = p THEN Append(Seen(q), [from |-> p, msg |-> m]) ELSE Seen(q)
<1> DEFINE x == [from |-> p, msg |-> m]
<1>1. Server \in Scheduler /\ x \in Item /\ x.from = p
  BY DEF Scheduler, Item
<1>2. Got(Server) \in Seq(Item) /\ Got(Server)' = Append(Got(Server), x)
  BY <1>1, GotTypes DEF Received
<1> HIDE DEF x
<1>3. From(Append(Got(Server), x), q) = IF x.from = q THEN Append(From(Got(Server), q), x) ELSE From(Got(Server), q)
  BY <1>1, <1>2, FromAppend
<1>4. QED
  BY <1>1, <1>2, <1>3 DEF Seen, x

\* What concerns the channel of a peer has not changed.
ChannelSame(q) ==
    /\ accepted'[q] = accepted[q] /\ message_queue'[q] = message_queue[q] /\ header_sent'[q] = header_sent[q]
    /\ wire'[q] = wire[q] /\ ReadBit(q)' = ReadBit(q) /\ CrashBit(q)' = CrashBit(q)

\* A step that leaves the peer alone keeps its channel invariant.
LEMMA ChannelStays ==
    ASSUME NEW q, Channel(q), Seen(q)' = Seen(q), ChannelSame(q)
    PROVE  Channel(q)'
<1>1. HeaderBit(q)' = HeaderBit(q)
  BY DEF HeaderBit, ChannelSame
<1>2. QED
  BY <1>1 DEF Channel, ChannelSame

\* A peer that has not crashed has an intact channel.
LEMMA AliveIntact ==
    ASSUME NEW p, Channel(p), p \notin crashed
    PROVE  /\ Intact(Seen(p), accepted[p], message_queue[p], HeaderBit(p), wire[p], ReadBit(p), 0)
           /\ CrashBit(p) = 0
<1>1. CrashBit(p) = 0
  BY DEF CrashBit
<1>2. ~Cut(Seen(p), accepted[p], wire[p], ReadBit(p), CrashBit(p))
  BY <1>1 DEF Cut
<1>3. QED
  BY <1>1, <1>2 DEF Channel

\* A step of a peer leaves the channels of the others alone.
LEMMA OthersSame ==
    ASSUME PeerInv, NEW p \in Peer, NEW q \in Peer, q # p,
           \/ QueueSend(p) \/ ChannelStep(p) \/ Crash(p) \/ RecvStep(p)
    PROVE  ChannelSame(q)
<1>0. /\ accepted \in [Peer -> Seq(Message)] /\ message_queue \in [Peer -> Seq(Message)]
      /\ wire \in [Peer -> Seq(Chunk)] /\ header_sent \in [Peer -> BOOLEAN]
      /\ reading \in [Peer -> {"header", "body", "closed"}]
  BY DEF PeerInv
<1>1. CASE QueueSend(p)
  BY <1>0, <1>1 DEF QueueSend, socketVars, ChannelSame, ReadBit, CrashBit
<1>2. CASE WriteHeader(p)
  BY <1>0, <1>2 DEF WriteHeader, Put, ChannelSame, ReadBit, CrashBit
<1>3. CASE WriteBody(p)
  BY <1>0, <1>3 DEF WriteBody, Put, ChannelSame, ReadBit, CrashBit
<1>4. CASE Crash(p)
  <2>1. PICK k \in 0..Len(wire[p]) : wire' = [wire EXCEPT ![p] = SubSeq(wire[p], 1, k)]
    BY <1>4 DEF Crash
  <2>2. crashed' = crashed \cup {p} /\ UNCHANGED <<message_queue, header_sent, accepted, reading>>
    BY <1>4 DEF Crash, peerVars
  <2>3. (q \in crashed') <=> (q \in crashed)
    BY <2>2
  <2> QED BY <1>0, <2>1, <2>2, <2>3 DEF ChannelSame, ReadBit, CrashBit
<1>5. CASE RecvStep(p)
  <2>1. UNCHANGED <<message_queue, header_sent, accepted, crashed>>
    BY <1>5 DEF RecvStep, ReadHeader, ReadBody, ReadCut, ReadEnd, peerVars
  <2>2. wire'[q] = wire[q]
    BY <1>0, <1>5 DEF RecvStep, ReadHeader, ReadBody, ReadCut, ReadEnd
  <2>3. reading'[q] = reading[q]
    BY <1>0, <1>5 DEF RecvStep, ReadHeader, ReadBody, ReadCut, ReadEnd
  <2> QED BY <2>1, <2>2, <2>3 DEF ChannelSame, ReadBit, CrashBit
<1>6. QED
  BY <1>1, <1>2, <1>3, <1>4, <1>5 DEF ChannelStep

\* The channel invariant after each step of its peer and of its reader.
LEMMA ChannelAfterQueueSend ==
    ASSUME PeerInv, SlaveInv, NEW p \in Peer, Channel(p), QueueSend(p), Seen(p)' = Seen(p)
    PROVE  Channel(p)'
<1> DEFINE m == Script[p][offered[p] + 1]
<1>1. /\ p \notin crashed /\ offered[p] \in Nat /\ offered[p] < Len(Script[p]) /\ Script[p] \in Seq(Message)
      /\ UNCHANGED <<header_sent, wire, crashed, reading>>
  BY ContentAssumption DEF QueueSend, socketVars, PeerInv
<1>2. m \in Message
  <2>1. offered[p] + 1 \in 1..Len(Script[p])
    BY <1>1
  <2> QED BY <1>1, <2>1, ElementOfSeq
<1>3. HeaderBit(p)' = HeaderBit(p) /\ ReadBit(p)' = ReadBit(p) /\ CrashBit(p)' = CrashBit(p)
  BY <1>1 DEF HeaderBit, ReadBit, CrashBit
<1>4. CASE UNCHANGED <<message_queue, accepted>>
  BY <1>1, <1>3, <1>4, ChannelStays DEF ChannelSame
<1>5. CASE HasRoom(message_queue[p])
  <2> HIDE DEF m
  <2>1. /\ message_queue' = [message_queue EXCEPT ![p] = Append(message_queue[p], m)]
        /\ accepted' = [accepted EXCEPT ![p] = Append(accepted[p], m)]
    BY <1>5 DEF QueueSend, m
  <2>2. message_queue'[p] = Append(message_queue[p], m) /\ accepted'[p] = Append(accepted[p], m)
    BY <2>1 DEF PeerInv
  <2>3. Intact(Seen(p), accepted[p], message_queue[p], HeaderBit(p), wire[p], ReadBit(p), CrashBit(p))
    BY <1>1, AliveIntact
  <2>4. Intact(Seen(p), Append(accepted[p], m), Append(message_queue[p], m), HeaderBit(p), wire[p], ReadBit(p), CrashBit(p))
    BY <1>2, <2>3, SeenTypes, IntactAfterQueueSend
  <2>5. QED
    BY <1>1, <1>3, <2>2, <2>4 DEF Channel
<1>6. QED
  BY <1>4, <1>5 DEF QueueSend

LEMMA ChannelAfterHeader ==
    ASSUME PeerInv, SlaveInv, NEW p \in Peer, Channel(p), WriteHeader(p), Seen(p)' = Seen(p)
    PROVE  Channel(p)'
<1> DEFINE c == [part |-> "header", msg |-> Head(message_queue[p])]
<1>1. /\ p \notin crashed /\ message_queue[p] # << >> /\ ~header_sent[p] /\ message_queue[p] \in Seq(Message)
      /\ wire' = [wire EXCEPT ![p] = Append(wire[p], c)] /\ wire \in [Peer -> Seq(Chunk)]
      /\ header_sent' = [header_sent EXCEPT ![p] = TRUE] /\ header_sent \in [Peer -> BOOLEAN]
      /\ UNCHANGED <<message_queue, accepted, crashed, reading>>
  BY DEF WriteHeader, Put, PeerInv
<1>2. c \in Chunk
  BY <1>1 DEF Chunk
<1> HIDE DEF c
<1>3. wire'[p] = Append(wire[p], c) /\ header_sent'[p] = TRUE
  BY <1>1
<1>4. HeaderBit(p) = 0 /\ HeaderBit(p)' = 1 /\ ReadBit(p)' = ReadBit(p) /\ CrashBit(p)' = 0
  BY <1>1, <1>3 DEF HeaderBit, ReadBit, CrashBit
<1>5. Intact(Seen(p), accepted[p], message_queue[p], 0, wire[p], ReadBit(p), 0)
  BY <1>1, <1>4, AliveIntact
<1>6. Intact(Seen(p), accepted[p], message_queue[p], 1, Append(wire[p], c), ReadBit(p), 0)
  BY <1>2, <1>5, SeenTypes, IntactAfterHeader
<1>7. QED
  BY <1>1, <1>3, <1>4, <1>6 DEF Channel

LEMMA ChannelAfterBody ==
    ASSUME PeerInv, SlaveInv, NEW p \in Peer, Channel(p), WriteBody(p), Seen(p)' = Seen(p)
    PROVE  Channel(p)'
<1> DEFINE c == [part |-> "body", msg |-> Head(message_queue[p])]
<1>1. /\ p \notin crashed /\ header_sent[p] /\ message_queue[p] # << >> /\ message_queue[p] \in Seq(Message)
      /\ wire' = [wire EXCEPT ![p] = Append(wire[p], c)] /\ wire \in [Peer -> Seq(Chunk)]
      /\ header_sent' = [header_sent EXCEPT ![p] = FALSE] /\ header_sent \in [Peer -> BOOLEAN]
      /\ message_queue' = [message_queue EXCEPT ![p] = Tail(message_queue[p])]
      /\ message_queue \in [Peer -> Seq(Message)]
      /\ UNCHANGED <<accepted, crashed, reading>>
  BY DEF WriteBody, Put, PeerInv
<1>2. c \in Chunk /\ c.msg = Head(message_queue[p])
  BY <1>1 DEF Chunk
<1> HIDE DEF c
<1>3. wire'[p] = Append(wire[p], c) /\ header_sent'[p] = FALSE /\ message_queue'[p] = Tail(message_queue[p])
  BY <1>1
<1>4. HeaderBit(p) = 1 /\ HeaderBit(p)' = 0 /\ ReadBit(p)' = ReadBit(p) /\ CrashBit(p)' = 0
  BY <1>1, <1>3 DEF HeaderBit, ReadBit, CrashBit
<1>5. Intact(Seen(p), accepted[p], message_queue[p], 1, wire[p], ReadBit(p), 0)
  BY <1>1, <1>4, AliveIntact
<1>6. Intact(Seen(p), accepted[p], Tail(message_queue[p]), 0, Append(wire[p], c), ReadBit(p), 0)
  <2> DEFINE mq == message_queue[p]
  <2>1. mq # << >> /\ c.msg = Head(mq) /\ ReadBit(p) \in {0, 1}
    BY <1>1, <1>2, SeenTypes
  <2>2. ChannelTypes(Seen(p), accepted[p], mq, wire[p])
    BY SeenTypes
  <2>3. Intact(Seen(p), accepted[p], mq, 1, wire[p], ReadBit(p), 0)
    BY <1>5
  <2> HIDE DEF mq
  <2>4. Intact(Seen(p), accepted[p], Tail(mq), 0, Append(wire[p], c), ReadBit(p), 0)
    BY <1>2, <2>1, <2>2, <2>3, IntactAfterBody
  <2> QED BY <2>4 DEF mq
<1>7. QED
  BY <1>1, <1>3, <1>4, <1>6 DEF Channel

LEMMA ChannelAfterCrash ==
    ASSUME PeerInv, SlaveInv, NEW p \in Peer, Channel(p), Crash(p), Seen(p)' = Seen(p)
    PROVE  Channel(p)'
<1>1. PICK k \in 0..Len(wire[p]) : wire' = [wire EXCEPT ![p] = SubSeq(wire[p], 1, k)]
  BY DEF Crash
<1>2. /\ p \notin crashed /\ p \in crashed' /\ UNCHANGED <<message_queue, header_sent, accepted, reading>>
      /\ wire \in [Peer -> Seq(Chunk)]
  BY DEF Crash, peerVars, PeerInv
<1>3. wire'[p] = SubSeq(wire[p], 1, k)
  BY <1>1, <1>2
<1>4. HeaderBit(p)' = HeaderBit(p) /\ ReadBit(p)' = ReadBit(p) /\ CrashBit(p)' = 1
  BY <1>2 DEF HeaderBit, ReadBit, CrashBit
<1>5. Intact(Seen(p), accepted[p], message_queue[p], HeaderBit(p), wire[p], ReadBit(p), CrashBit(p))
  BY <1>2, AliveIntact
<1>6. Intact(Seen(p), accepted[p], message_queue[p], HeaderBit(p), SubSeq(wire[p], 1, k), ReadBit(p), 1)
  BY <1>5, SeenTypes, IntactAfterCrash
<1>7. QED
  BY <1>2, <1>3, <1>4, <1>6 DEF Channel

LEMMA ChannelAfterReadHeader ==
    ASSUME PeerInv, SlaveInv, NEW p \in Peer, Channel(p), ReadHeader(p), Seen(p)' = Seen(p)
    PROVE  Channel(p)'
<1>1. /\ reading[p] = "header" /\ wire[p] # << >> /\ wire' = [wire EXCEPT ![p] = Tail(wire[p])]
      /\ reading' = [reading EXCEPT ![p] = "body"] /\ UNCHANGED <<message_queue, header_sent, accepted, crashed>>
      /\ wire \in [Peer -> Seq(Chunk)] /\ reading \in [Peer -> {"header", "body", "closed"}]
  BY DEF ReadHeader, peerVars, PeerInv
<1>2. wire'[p] = Tail(wire[p]) /\ reading'[p] = "body"
  BY <1>1
<1>3. HeaderBit(p)' = HeaderBit(p) /\ ReadBit(p) = 0 /\ ReadBit(p)' = 1 /\ CrashBit(p)' = CrashBit(p)
  BY <1>1, <1>2 DEF HeaderBit, ReadBit, CrashBit
<1>4. Intact(Seen(p), accepted[p], message_queue[p], HeaderBit(p), wire[p], 0, CrashBit(p))
  BY <1>1, <1>3 DEF Channel, Cut
<1>5. Intact(Seen(p), accepted[p], message_queue[p], HeaderBit(p), Tail(wire[p]), 1, CrashBit(p))
  BY <1>1, <1>4, SeenTypes, IntactAfterReadHeader
<1>6. QED
  BY <1>1, <1>2, <1>3, <1>5 DEF Channel

LEMMA ChannelAfterReadEnd ==
    ASSUME PeerInv, NEW p \in Peer, Channel(p), ReadEnd(p), Seen(p)' = Seen(p)
    PROVE  Channel(p)'
<1>1. /\ reading[p] = "header" /\ reading' = [reading EXCEPT ![p] = "closed"]
      /\ UNCHANGED <<message_queue, header_sent, accepted, wire, crashed>>
      /\ reading \in [Peer -> {"header", "body", "closed"}]
  BY DEF ReadEnd, peerVars, PeerInv
<1>2. reading'[p] = "closed"
  BY <1>1
<1>3. ReadBit(p)' = ReadBit(p) /\ CrashBit(p)' = CrashBit(p)
  BY <1>1, <1>2 DEF ReadBit, CrashBit
<1>4. QED
  BY <1>1, <1>3, ChannelStays DEF ChannelSame

LEMMA ChannelAfterReadBody ==
    ASSUME PeerInv, SlaveInv, NEW p \in Peer, Channel(p), ReadBody(p), NEW x \in Item,
           x.msg = Head(wire[p]).msg, Seen(p)' = Append(Seen(p), x)
    PROVE  Channel(p)'
<1>1. /\ reading[p] = "body" /\ wire[p] # << >> /\ wire' = [wire EXCEPT ![p] = Tail(wire[p])]
      /\ reading' = [reading EXCEPT ![p] = "header"] /\ UNCHANGED <<message_queue, header_sent, accepted, crashed>>
      /\ wire \in [Peer -> Seq(Chunk)] /\ reading \in [Peer -> {"header", "body", "closed"}]
  BY DEF ReadBody, peerVars, PeerInv
<1>2. wire'[p] = Tail(wire[p]) /\ reading'[p] = "header"
  BY <1>1
<1>3. HeaderBit(p)' = HeaderBit(p) /\ ReadBit(p) = 1 /\ ReadBit(p)' = 0 /\ CrashBit(p)' = CrashBit(p)
  BY <1>1, <1>2 DEF HeaderBit, ReadBit, CrashBit
<1>4. Intact(Seen(p), accepted[p], message_queue[p], HeaderBit(p), wire[p], 1, CrashBit(p))
  BY <1>1, <1>3 DEF Channel, Cut
<1>5. Intact(Append(Seen(p), x), accepted[p], message_queue[p], HeaderBit(p), Tail(wire[p]), 0, CrashBit(p))
  BY <1>1, <1>4, SeenTypes, IntactAfterReadBody
<1>6. QED
  BY <1>1, <1>2, <1>3, <1>5 DEF Channel

LEMMA ChannelAfterReadCut ==
    ASSUME PeerInv, SlaveInv, NEW p \in Peer, Channel(p), ReadCut(p), NEW x \in Item,
           Seen(p)' = Append(Seen(p), x)
    PROVE  Channel(p)'
<1>1. /\ reading[p] = "body" /\ wire[p] = << >> /\ p \in crashed
      /\ reading' = [reading EXCEPT ![p] = "header"] /\ UNCHANGED <<accepted, wire, crashed>>
      /\ reading \in [Peer -> {"header", "body", "closed"}]
  BY DEF ReadCut, peerVars, PeerInv
<1>2. reading'[p] = "header"
  BY <1>1
<1>3. ReadBit(p) = 1 /\ ReadBit(p)' = 0 /\ CrashBit(p) = 1 /\ CrashBit(p)' = 1
  BY <1>1, <1>2 DEF ReadBit, CrashBit
<1>4. Intact(Seen(p), accepted[p], message_queue[p], HeaderBit(p), wire[p], 1, CrashBit(p))
  BY <1>3 DEF Channel, Cut
<1>5. Cut(Append(Seen(p), x), accepted[p], wire[p], 0, CrashBit(p))
  BY <1>1, <1>3, <1>4, SeenTypes, CutAfterReadCut
<1>6. QED
  BY <1>1, <1>3, <1>5 DEF Channel

\* The channels and the tablets start in order.
LEMMA OrderInit == Init => OrderInv
<1> SUFFICES ASSUME Init PROVE OrderInv
  OBVIOUS
<1>0. Server \in Scheduler /\ TabletId \subseteq Scheduler
  BY DEF Scheduler
<1>1. \A s \in Scheduler : Got(s) = << >> /\ handled[s] = << >>
  <2>1. \A s \in Scheduler : handled[s] = << >> /\ queue[s] = << >> /\ ~running[s]
    BY DEF Init
  <2>2. << >> \o << >> = << >>
    OBVIOUS
  <2> QED BY <2>1, <2>2 DEF Got, Pending
<1>2. ASSUME NEW p \in Peer PROVE Channel(p)
  <2>1. /\ accepted[p] = << >> /\ message_queue[p] = << >> /\ wire[p] = << >> /\ HeaderBit(p) = 0
        /\ ReadBit(p) = 0 /\ CrashBit(p) = 0
    BY DEF Init, HeaderBit, ReadBit, CrashBit
  <2>2. Seen(p) = << >>
    BY <1>0, <1>1, FromEmpty DEF Seen
  <2>3. Intact(<< >>, << >>, << >>, 0, << >>, 0, 0)
    <3>1. Len(<< >>) = 0 /\ 1..0 = {}
      OBVIOUS
    <3> QED BY <3>1 DEF Intact
  <2> QED BY <2>1, <2>2, <2>3 DEF Channel
<1>3. Ordered(<< >>, << >>)
  <2>1. Len(<< >>) = 0 /\ 1..0 = {}
    OBVIOUS
  <2> QED BY <2>1 DEF Ordered
<1>4. QED
  BY <1>0, <1>1, <1>2, <1>3, FromEmpty DEF OrderInv

\* The server's callback gets an item that no tablet gets.
LEMMA OrderedKept ==
    ASSUME SlaveInv, NEW p \in Peer, NEW t \in TabletId, Ordered(From(Got(t), p), From(handled[Server], p)),
           Got(t)' = Got(t), handled'[Server] = handled[Server] \/ \E item : NextItem(item)
    PROVE  Ordered(From(Got(t), p), From(handled[Server], p))'
<1>0. Server \in Scheduler /\ t \in Scheduler
  BY DEF Scheduler
<1>1. handled[Server] \in Seq(Item) /\ Got(t) \in Seq(Item)
  BY <1>0, GotTypes
<1>2. From(handled[Server], p) \in Seq(Item) /\ From(Got(t), p) \in Seq(Item)
  BY <1>1, FromFacts
<1>3. CASE handled'[Server] = handled[Server]
  BY <1>3
<1>4. CASE \E item : NextItem(item)
  <2>1. PICK item : item \in Item /\ handled'[Server] = Append(handled[Server], item)
    BY <1>4 DEF NextItem
  <2>2. From(Append(handled[Server], item), p) =
            IF item.from = p THEN Append(From(handled[Server], p), item) ELSE From(handled[Server], p)
    BY <1>1, <2>1, FromAppend
  <2>3. Ordered(From(Got(t), p), Append(From(handled[Server], p), item))
    BY <1>2, <2>1, OrderedGrows
  <2>4. Ordered(From(Got(t), p), From(Append(handled[Server], item), p))
    BY <2>2, <2>3
  <2> QED BY <2>1, <2>4
<1>5. QED
  BY <1>3, <1>4

\* A forwarded item is the last one on both sides.
LEMMA OrderedForwarded ==
    ASSUME SlaveInv, NEW p \in Peer, NEW t \in TabletId, Ordered(From(Got(t), p), From(handled[Server], p)),
           NEW item \in Item, Got(t)' = Append(Got(t), item), handled'[Server] = Append(handled[Server], item)
    PROVE  Ordered(From(Got(t), p), From(handled[Server], p))'
<1>0. Server \in Scheduler /\ t \in Scheduler
  BY DEF Scheduler
<1>1. handled[Server] \in Seq(Item) /\ Got(t) \in Seq(Item)
  BY <1>0, GotTypes
<1>2. From(handled[Server], p) \in Seq(Item) /\ From(Got(t), p) \in Seq(Item)
  BY <1>1, FromFacts
<1>3. /\ From(Append(handled[Server], item), p) =
             IF item.from = p THEN Append(From(handled[Server], p), item) ELSE From(handled[Server], p)
      /\ From(Append(Got(t), item), p) = IF item.from = p THEN Append(From(Got(t), p), item) ELSE From(Got(t), p)
  BY <1>1, FromAppend
<1>4. Ordered(Append(From(Got(t), p), item), Append(From(handled[Server], p), item))
  BY <1>2, OrderedGrows
<1>5. Ordered(From(Append(Got(t), item), p), From(Append(handled[Server], item), p))
  BY <1>3, <1>4
<1>6. QED
  BY <1>5

\* Every step keeps the channels and the tablets in order.
LEMMA OrderStep == PeerInv /\ SlaveInv /\ OrderInv /\ [Next]_vars => OrderInv'
<1> SUFFICES ASSUME PeerInv, SlaveInv, OrderInv, [Next]_vars PROVE OrderInv'
  OBVIOUS
<1> DEFINE TabletsOrdered == \A p \in Peer, t \in TabletId : Ordered(From(Got(t), p), From(handled[Server], p))
           Channels == \A p \in Peer : Channel(p)
<1>0. TabletsOrdered /\ Channels
  BY DEF OrderInv
<1>t. ASSUME TabletsSame, handled'[Server] = handled[Server] \/ \E item : NextItem(item)
      PROVE  TabletsOrdered'
  <2> SUFFICES ASSUME NEW p \in Peer, NEW t \in TabletId
               PROVE  Ordered(From(Got(t), p), From(handled[Server], p))'
    OBVIOUS
  <2>1. Got(t)' = Got(t) /\ Ordered(From(Got(t), p), From(handled[Server], p))
    BY <1>0, <1>t DEF TabletsSame
  <2> QED BY <1>t, <2>1, OrderedKept
<1>q. ASSUME Got(Server)' = Got(Server) PROVE \A q \in Peer : Seen(q)' = Seen(q)
  BY <1>q DEF Seen
<1>u. ASSUME UNCHANGED <<peerVars, socketVars>>, \A q \in Peer : Seen(q)' = Seen(q) PROVE Channels'
  <2>1. \A q \in Peer : ChannelSame(q)
    BY <1>u DEF peerVars, socketVars, ChannelSame, ReadBit, CrashBit
  <2> QED BY <1>0, <1>u, <2>1, ChannelStays
<1>1. ASSUME NEW p \in Peer, Quiet,
             QueueSend(p) \/ ChannelStep(p) \/ Crash(p) \/ ReadHeader(p) \/ ReadEnd(p)
      PROVE  TabletsOrdered' /\ Channels'
  <2>1. TabletsOrdered'
    BY <1>1, <1>t DEF Quiet
  <2>2. \A q \in Peer : Seen(q)' = Seen(q)
    BY <1>1, <1>q DEF Quiet
  <2>3. ASSUME NEW q \in Peer, q # p PROVE Channel(q)'
    <3>1. ChannelSame(q)
      BY <1>1, <2>3, OthersSame DEF RecvStep
    <3> QED BY <1>0, <2>2, <3>1, ChannelStays
  <2>4. Channel(p) /\ Seen(p)' = Seen(p)
    BY <1>0, <2>2
  <2>5. Channel(p)'
    BY <1>1, <2>4, ChannelAfterQueueSend, ChannelAfterHeader, ChannelAfterBody, ChannelAfterCrash,
       ChannelAfterReadHeader, ChannelAfterReadEnd DEF ChannelStep
  <2> QED BY <2>1, <2>3, <2>5
<1>2. ASSUME NEW p \in Peer, NEW m \in Message, Received(p, m),
             (ReadBody(p) /\ m = Head(wire[p]).msg) \/ ReadCut(p)
      PROVE  TabletsOrdered' /\ Channels'
  <2> DEFINE x == [from |-> p, msg |-> m]
  <2>0. x \in Item /\ x.msg = m
    BY DEF Item
  <2> HIDE DEF x
  <2>1. TabletsOrdered'
    BY <1>2, <1>t DEF Received
  <2>2. \A q \in Peer : Seen(q)' = IF q = p THEN Append(Seen(q), x) ELSE Seen(q)
    BY <1>2, SeenReceived DEF x
  <2>3. ASSUME NEW q \in Peer, q # p PROVE Channel(q)'
    <3>1. ChannelSame(q)
      BY <1>2, <2>3, OthersSame DEF RecvStep
    <3>2. Seen(q)' = Seen(q)
      BY <2>2, <2>3
    <3> QED BY <1>0, <3>1, <3>2, ChannelStays
  <2>4. Channel(p) /\ Seen(p)' = Append(Seen(p), x)
    BY <1>0, <2>2
  <2>5. Channel(p)'
    BY <1>2, <2>0, <2>4, ChannelAfterReadBody, ChannelAfterReadCut
  <2> QED BY <2>1, <2>3, <2>5
<1>3. ASSUME Internal PROVE TabletsOrdered' /\ Channels'
  <2>1. TabletsOrdered'
    BY <1>3, <1>t DEF Internal
  <2>2. \A q \in Peer : Seen(q)' = Seen(q)
    BY <1>3, SeenSame DEF Internal
  <2> QED BY <1>3, <1>u, <2>1, <2>2 DEF Internal
<1>4. ASSUME NEW item, Refused(item) PROVE TabletsOrdered' /\ Channels'
  <2>1. TabletsOrdered'
    BY <1>4, <1>t DEF Refused
  <2> QED BY <1>4, <1>u, <1>q, <2>1 DEF Refused
<1>5. ASSUME NEW item, NEW t, Forwarded(item, t) PROVE TabletsOrdered' /\ Channels'
  <2>1. /\ NextItem(item) /\ t \in TabletId /\ Got(t)' = Append(Got(t), item) /\ Got(Server)' = Got(Server)
        /\ UNCHANGED <<peerVars, socketVars>> /\ \A u \in TabletId : u # t => Got(u)' = Got(u)
    BY <1>5 DEF Forwarded
  <2>2. item \in Item /\ handled'[Server] = Append(handled[Server], item)
    BY <2>1 DEF NextItem
  <2>3. ASSUME NEW p \in Peer, NEW u \in TabletId PROVE Ordered(From(Got(u), p), From(handled[Server], p))'
    <3>1. Ordered(From(Got(u), p), From(handled[Server], p))
      BY <1>0
    <3>2. CASE u = t
      BY <2>1, <2>2, <3>1, <3>2, OrderedForwarded
    <3>3. CASE u # t
      BY <2>1, <3>1, <3>3, OrderedKept
    <3> QED BY <3>2, <3>3
  <2> QED BY <1>u, <1>q, <2>1, <2>3
<1>6. TabletsOrdered' /\ Channels'
  <2> HIDE DEF TabletsOrdered, Channels
  <2> QED BY <1>1, <1>2, <1>3, <1>4, <1>5, StepEffect
<1>7. QED
  BY <1>6 DEF OrderInv

\* Messages takes the message of every item.
LEMMA MessagesFacts ==
    ASSUME NEW a \in Seq(Item)
    PROVE  /\ Messages(a) \in Seq(Message) /\ Len(Messages(a)) = Len(a) /\ DOMAIN Messages(a) = 1..Len(a)
           /\ \A i \in 1..Len(a) : Messages(a)[i] = a[i].msg
<1> DEFINE n == Len(a)
           b == [k \in 1..n |-> a[k].msg]
<1>1. n \in Nat /\ DOMAIN a = 1..n
  OBVIOUS
<1>2. \A k \in 1..n : a[k] \in Item
  OBVIOUS
<1>3. \A k \in 1..n : a[k].msg \in Message
  BY <1>2 DEF Item
<1>4. Messages(a) = b
  BY <1>1 DEF Messages
<1> HIDE DEF n
<1>5. b \in Seq(Message) /\ Len(b) = n /\ DOMAIN b = 1..n
  BY <1>1, <1>3
<1>6. \A i \in 1..n : b[i] = a[i].msg
  OBVIOUS
<1>7. QED
  BY <1>4, <1>5, <1>6 DEF n

\* A shorter sequence with the same elements is a prefix.
LEMMA PrefixByElements ==
    ASSUME NEW a \in Seq(Message), NEW b \in Seq(Message), Len(a) <= Len(b),
           \A i \in 1..Len(a) : a[i] = b[i]
    PROVE  IsPrefix(a, b)
<1> DEFINE n == Len(a)
<1>1. n \in Nat /\ Len(b) \in Nat /\ (\A i \in 1..n : a[i] \in Message) /\ (\A i \in 1..n : b[i] \in Message)
  OBVIOUS
<1>2. /\ SubSeq(a, 1, n) \in Seq(Message) /\ Len(SubSeq(a, 1, n)) = n
      /\ \A i \in 1..n : SubSeq(a, 1, n)[i] = a[i]
  BY <1>1
<1>3. /\ SubSeq(b, 1, n) \in Seq(Message) /\ Len(SubSeq(b, 1, n)) = n
      /\ \A i \in 1..n : SubSeq(b, 1, n)[i] = b[i]
  BY <1>1
<1> DEFINE c == SubSeq(a, 1, n)
           d == SubSeq(b, 1, n)
<1>4. Len(c) = Len(d) /\ \A i \in 1..Len(c) : c[i] = d[i]
  BY <1>2, <1>3
<1>5. c \in Seq(Message) /\ d \in Seq(Message)
  BY <1>2, <1>3
<1> HIDE DEF c, d
<1>6. c = d
  BY <1>4, <1>5, SeqEqual
<1>7. QED
  BY <1>6 DEF IsPrefix, c, d

\* What a scheduler has handled from a peer is the beginning of what it has got from it.
LEMMA HandledIsFirst ==
    ASSUME SlaveInv, NEW s \in Scheduler, NEW p
    PROVE  /\ From(handled[s], p) \in Seq(Item) /\ From(Got(s), p) \in Seq(Item)
           /\ Len(From(handled[s], p)) <= Len(From(Got(s), p))
           /\ \A i \in 1..Len(From(handled[s], p)) : From(Got(s), p)[i] = From(handled[s], p)[i]
<1> DEFINE h == handled[s]
           r == Pending(s)
<1>1. h \in Seq(Item) /\ r \in Seq(Item) /\ Got(s) \in Seq(Item) /\ Got(s) = h \o r
  BY GotTypes DEF Got
<1> HIDE DEF h, r
<1>2. /\ Len(From(h, p)) <= Len(From(h \o r, p))
      /\ \A i \in 1..Len(From(h, p)) : From(h \o r, p)[i] = From(h, p)[i]
  BY <1>1, FromGrows
<1>3. From(h, p) \in Seq(Item) /\ From(Got(s), p) \in Seq(Item)
  BY <1>1, FromFacts
<1>4. QED
  BY <1>1, <1>2, <1>3 DEF h

\* The order invariant implies the property.
LEMMA OrderImplies == PeerInv /\ SlaveInv /\ OrderInv => HandledInOrder
<1> SUFFICES ASSUME PeerInv, SlaveInv, OrderInv, NEW p \in Peer
             PROVE  /\ LET got == Messages(From(handled[Server], p))
                       IN \/ IsPrefix(got, accepted[p])
                          \/ p \in crashed /\ IsPrefix(Front(got), accepted[p])
                    /\ p \notin crashed =>
                           \A t \in TabletId :
                               LET got == Messages(From(handled[t], p))
                               IN \A j, k \in DOMAIN got : j < k =>
                                      \E a, b \in DOMAIN accepted[p] :
                                          a < b /\ accepted[p][a] = got[j] /\ accepted[p][b] = got[k]
  BY DEF HandledInOrder
<1>0. Server \in Scheduler /\ TabletId \subseteq Scheduler
  BY DEF Scheduler
<1> DEFINE h == From(handled[Server], p)
           g == Seen(p)
           acc == accepted[p]
           got == Messages(h)
<1>1. /\ h \in Seq(Item) /\ g \in Seq(Item) /\ Len(h) <= Len(g) /\ \A i \in 1..Len(h) : g[i] = h[i]
  BY <1>0, HandledIsFirst DEF Seen
<1>2. acc \in Seq(Message) /\ Len(acc) \in Nat /\ DOMAIN acc = 1..Len(acc)
  BY DEF PeerInv
<1>3. Channel(p)
  BY DEF OrderInv
<1>4. /\ got \in Seq(Message) /\ Len(got) = Len(h) /\ \A i \in 1..Len(h) : got[i] = h[i].msg
  BY <1>1, MessagesFacts
<1>5. Len(h) \in Nat /\ Len(g) \in Nat
  BY <1>1
<1>6. ASSUME Intact(g, acc, message_queue[p], HeaderBit(p), wire[p], ReadBit(p), CrashBit(p))
      PROVE  Len(h) <= Len(acc) /\ \A i \in 1..Len(h) : h[i].msg = acc[i]
  <2>1. Len(g) <= Len(acc) /\ \A i \in 1..Len(g) : g[i].msg = acc[i]
    BY <1>6 DEF Intact
  <2> HIDE DEF h, g, acc
  <2> QED BY <1>1, <1>2, <1>5, <2>1
<1>7. ASSUME Cut(g, acc, wire[p], ReadBit(p), CrashBit(p))
      PROVE  p \in crashed /\ Len(g) - 1 <= Len(acc) /\ \A i \in 1..(Len(g) - 1) : g[i].msg = acc[i]
  BY <1>7 DEF Cut, CrashBit
<1>8. \/ IsPrefix(got, acc)
      \/ p \in crashed /\ IsPrefix(Front(got), acc)
  <2>1. CASE Intact(g, acc, message_queue[p], HeaderBit(p), wire[p], ReadBit(p), CrashBit(p))
    <3>1. Len(h) <= Len(acc) /\ \A i \in 1..Len(h) : h[i].msg = acc[i]
      BY <1>6, <2>1
    <3> HIDE DEF h, acc, got
    <3>2. Len(got) <= Len(acc) /\ \A i \in 1..Len(got) : got[i] = acc[i]
      BY <1>4, <3>1
    <3> QED BY <1>2, <1>4, <3>2, PrefixByElements
  <2>2. CASE Cut(g, acc, wire[p], ReadBit(p), CrashBit(p))
    <3>1. p \in crashed /\ Len(g) - 1 <= Len(acc) /\ \A i \in 1..(Len(g) - 1) : g[i].msg = acc[i]
      BY <1>7, <2>2
    <3> HIDE DEF h, acc, got, g
    <3>2. CASE Len(h) < Len(g)
      <4>1. Len(got) <= Len(acc)
        BY <1>2, <1>4, <1>5, <3>1, <3>2
      <4>2. ASSUME NEW i \in 1..Len(got) PROVE got[i] = acc[i]
        <5>1. i \in 1..Len(h) /\ i \in 1..(Len(g) - 1)
          BY <1>4, <1>5, <3>2
        <5> QED BY <1>1, <1>4, <3>1, <5>1
      <4> QED BY <1>2, <1>4, <4>1, <4>2, PrefixByElements
    <3>3. CASE Len(h) = Len(g)
      <4> DEFINE n == Len(got) - 1
                 f == Front(got)
      <4>0. Len(g) > 0
        BY <2>2 DEF Cut
      <4>1. n \in Nat /\ n = Len(g) - 1 /\ n <= Len(got)
        BY <1>4, <1>5, <3>3, <4>0
      <4>2. f \in Seq(Message) /\ Len(f) = n /\ \A i \in 1..n : f[i] = got[i]
        <5> HIDE DEF n
        <5>1. f = SubSeq(got, 1, n)
          BY DEF Front, n
        <5>2. \A i \in 1..n : got[i] \in Message
          BY <1>4, <4>1
        <5> QED BY <4>1, <5>1, <5>2
      <4> HIDE DEF n, f
      <4>3. Len(f) <= Len(acc)
        BY <3>1, <4>1, <4>2
      <4>4. ASSUME NEW i \in 1..Len(f) PROVE f[i] = acc[i]
        <5>1. i \in 1..n /\ i \in 1..Len(h) /\ i \in 1..(Len(g) - 1)
          BY <1>5, <3>3, <4>1, <4>2
        <5> QED BY <1>1, <1>4, <3>1, <4>2, <5>1
      <4>5. IsPrefix(f, acc)
        BY <1>2, <4>2, <4>3, <4>4, PrefixByElements
      <4> QED BY <3>1, <4>5 DEF f
    <3>4. QED
      BY <1>1, <1>5, <3>2, <3>3
  <2>3. QED
    BY <1>3, <2>1, <2>2 DEF Channel
<1>9. ASSUME p \notin crashed, NEW t \in TabletId,
             NEW j \in DOMAIN Messages(From(handled[t], p)), NEW k \in DOMAIN Messages(From(handled[t], p)), j < k
      PROVE  \E a, b \in DOMAIN acc : /\ a < b /\ acc[a] = Messages(From(handled[t], p))[j]
                                     /\ acc[b] = Messages(From(handled[t], p))[k]
  <2> DEFINE x == From(handled[t], p)
             y == From(Got(t), p)
  <2>1. /\ x \in Seq(Item) /\ y \in Seq(Item) /\ Len(x) <= Len(y) /\ \A i \in 1..Len(x) : y[i] = x[i]
    BY <1>0, HandledIsFirst
  <2>2. Ordered(y, h)
    BY DEF OrderInv
  <2>3. Intact(g, acc, message_queue[p], HeaderBit(p), wire[p], ReadBit(p), CrashBit(p))
    BY <1>3, <1>9, AliveIntact
  <2>4. Len(h) <= Len(acc) /\ \A i \in 1..Len(h) : h[i].msg = acc[i]
    BY <1>6, <2>3
  <2>5. /\ DOMAIN Messages(x) = 1..Len(x) /\ \A i \in 1..Len(x) : Messages(x)[i] = x[i].msg
    BY <2>1, MessagesFacts
  <2>6. j \in 1..Len(x) /\ k \in 1..Len(x)
    BY <1>9, <2>5
  <2> HIDE DEF x, y, h, acc, g
  <2>7. j \in 1..Len(y) /\ k \in 1..Len(y) /\ y[j] = x[j] /\ y[k] = x[k]
    BY <2>1, <2>6
  <2>8. PICK a, b \in 1..Len(h) : a < b /\ h[a] = y[j] /\ h[b] = y[k]
    BY <1>9, <2>2, <2>7 DEF Ordered
  <2>9. a \in DOMAIN acc /\ b \in DOMAIN acc
    BY <1>2, <1>5, <2>4, <2>8
  <2>10. acc[a] = Messages(x)[j] /\ acc[b] = Messages(x)[k]
    BY <2>4, <2>5, <2>6, <2>7, <2>8
  <2> QED BY <2>8, <2>9, <2>10 DEF x
<1>10. QED
  BY <1>8, <1>9

\* The server gets what a peer's channel has accepted in that order, once and without gaps,
\* up to one message that a crash cut off; a tablet gets what is for it in the order in
\* which the peer sent it: for any number of peers, messages, tablets and threads, and
\* however these interleave.
THEOREM HandlesInOrder == Spec => []HandledInOrder
<1>1. PeerInv /\ SlaveInv /\ OrderInv => HandledInOrder
  BY OrderImplies
<1>2. QED
  BY <1>1, InvInit, InvStep, OrderInit, OrderStep, PTL DEF Spec

-----------------------------------------------------------------------------
(* The invariant behind RoutedOnce.                                        *)

\* The key space has a key once: the masters assign a table to one range.
DisjointRanges ==
    \A t, u \in TabletId, m \in Message :
        /\ Content[m].kind = "request"
        /\ within_range(RangeOf[t], m) /\ within_range(RangeOf[u], m)
        => t = u

\* A message of a script is one sending of it.
DistinctMessages ==
    \A p \in Peer : \A j, k \in 1..Len(Script[p]) : Script[p][j] = Script[p][k] => j = k

Elements(s) == {s[i] : i \in 1..Len(s)}

\* The elements of longer sequences.
LEMMA ElementsFacts ==
    /\ Elements(<< >>) = {}
    /\ \A s \in Seq(Item), x \in Item : Elements(Append(s, x)) = Elements(s) \cup {x}
    /\ \A s, r \in Seq(Item) : Elements(s \o r) = Elements(s) \cup Elements(r)
<1>1. Elements(<< >>) = {}
  <2>1. Len(<< >>) = 0 /\ 1..0 = {}
    OBVIOUS
  <2> QED BY <2>1 DEF Elements
<1>2. ASSUME NEW s \in Seq(Item), NEW x \in Item PROVE Elements(Append(s, x)) = Elements(s) \cup {x}
  <2> DEFINE a == Append(s, x)
             n == Len(s)
  <2>1. n \in Nat /\ Len(a) = n + 1 /\ a[n + 1] = x /\ \A i \in 1..n : a[i] = s[i]
    OBVIOUS
  <2> HIDE DEF a, n
  <2>2. 1..(n + 1) = 1..n \cup {n + 1}
    BY <2>1
  <2>3. {a[i] : i \in 1..(n + 1)} = {s[i] : i \in 1..n} \cup {x}
    BY <2>1, <2>2
  <2> QED BY <2>1, <2>3 DEF Elements, a, n
<1>3. ASSUME NEW s \in Seq(Item), NEW r \in Seq(Item) PROVE Elements(s \o r) = Elements(s) \cup Elements(r)
  <2> DEFINE a == s \o r
             n == Len(s)
             l == Len(r)
  <2>1. n \in Nat /\ l \in Nat /\ Len(a) = n + l /\ \A i \in 1..(n + l) : a[i] = IF i <= n THEN s[i] ELSE r[i - n]
    BY ConcatProperties
  <2> HIDE DEF a, n, l
  <2>2. ASSUME NEW i \in 1..(n + l) PROVE a[i] \in {s[k] : k \in 1..n} \cup {r[k] : k \in 1..l}
    <3>1. CASE i <= n
      <4>1. i \in 1..n /\ a[i] = s[i]
        BY <2>1, <3>1
      <4> QED BY <4>1
    <3>2. CASE ~(i <= n)
      <4>1. i - n \in 1..l /\ a[i] = r[i - n]
        BY <2>1, <3>2
      <4> QED BY <4>1
    <3> QED BY <3>1, <3>2
  <2>3. ASSUME NEW i \in 1..n PROVE s[i] \in {a[k] : k \in 1..(n + l)}
    <3>1. i \in 1..(n + l) /\ a[i] = s[i]
      BY <2>1
    <3> QED BY <3>1
  <2>4. ASSUME NEW i \in 1..l PROVE r[i] \in {a[k] : k \in 1..(n + l)}
    <3>1. i + n \in 1..(n + l) /\ a[i + n] = r[(i + n) - n] /\ (i + n) - n = i
      BY <2>1
    <3> QED BY <3>1
  <2>5. {a[k] : k \in 1..(n + l)} = {s[k] : k \in 1..n} \cup {r[k] : k \in 1..l}
    BY <2>2, <2>3, <2>4
  <2> QED BY <2>1, <2>5 DEF Elements, a, n, l
<1>4. QED
  BY <1>1, <1>2, <1>3

\* What a peer's channel accepted is what it was offered, in part, and so has no message twice.
ScriptInv ==
    \A p \in Peer :
        /\ \A i \in 1..Len(accepted[p]) : \E a \in 1..offered[p] : a \in 1..Len(Script[p]) /\ accepted[p][i] = Script[p][a]
        /\ \A i, j \in 1..Len(accepted[p]) : accepted[p][i] = accepted[p][j] => i = j

RouteInv ==
    /\ \A t \in TabletId : \A x \in Elements(Got(t)) : IsRequest(x) => within_range(RangeOf[t], x.msg)
    /\ \A x \in Elements(Got(Server)) : x.from = Self => ~IsRequest(x)
    /\ \A t \in TabletId : Elements(Got(t)) \subseteq Elements(handled[Server])
    /\ Elements(refused) \subseteq Elements(handled[Server])
    /\ \A x \in Elements(refused) : x.from \in Peer
    /\ \A t \in TabletId : \A x \in Elements(Got(t)) \cap Elements(refused) : x.from \in crashed

\* Nothing is accepted at the start.
LEMMA ScriptInit == Init => ScriptInv
<1> SUFFICES ASSUME Init, NEW p \in Peer
             PROVE  /\ \A i \in 1..Len(accepted[p]) : \E a \in 1..offered[p] : a \in 1..Len(Script[p]) /\ accepted[p][i] = Script[p][a]
                    /\ \A i, j \in 1..Len(accepted[p]) : accepted[p][i] = accepted[p][j] => i = j
  BY DEF ScriptInv
<1>1. accepted[p] = << >>
  BY DEF Init
<1>2. Len(<< >>) = 0 /\ 1..0 = {}
  OBVIOUS
<1>3. QED
  BY <1>1, <1>2

\* What a channel accepted is part of the script, without repetitions.
LEMMA ScriptStep ==
    ASSUME DistinctMessages, PeerInv, SlaveInv, ScriptInv, [Next]_vars
    PROVE  ScriptInv'
<1>1. ASSUME NEW p \in Peer, QueueSend(p), HasRoom(message_queue[p]) PROVE ScriptInv'
  <2> DEFINE n == offered[p]
             s == Script[p]
             acc == accepted[p]
             m == s[n + 1]
  <2>1. /\ n \in Nat /\ n < Len(s) /\ s \in Seq(Message) /\ acc \in Seq(Message)
        /\ offered' = [offered EXCEPT ![p] = n + 1] /\ offered \in [Peer -> Nat]
        /\ accepted' = [accepted EXCEPT ![p] = Append(acc, m)] /\ accepted \in [Peer -> Seq(Message)]
    BY <1>1, ContentAssumption DEF QueueSend, PeerInv
  <2>2. n + 1 \in 1..Len(s)
    BY <2>1
  <2>3. m \in Message
    BY <2>1, <2>2, ElementOfSeq
  <2>4. offered'[p] = n + 1 /\ accepted'[p] = Append(acc, m)
    BY <2>1
  <2>5. \A q \in Peer : q # p => offered'[q] = offered[q] /\ accepted'[q] = accepted[q]
    BY <2>1
  <2> DEFINE acc2 == Append(acc, m)
  <2>6. Len(acc) \in Nat /\ Len(acc2) = Len(acc) + 1 /\ acc2[Len(acc) + 1] = m /\ \A i \in 1..Len(acc) : acc2[i] = acc[i]
    <3> HIDE DEF m, acc
    <3> QED BY <2>1, <2>3
  <2>7. /\ \A i \in 1..Len(acc) : \E a \in 1..n : a \in 1..Len(s) /\ acc[i] = s[a]
        /\ \A i, j \in 1..Len(acc) : acc[i] = acc[j] => i = j
    BY DEF ScriptInv
  <2>8. \A j, k \in 1..Len(s) : s[j] = s[k] => j = k
    BY DEF DistinctMessages
  <2>9. ASSUME NEW i \in 1..Len(acc) PROVE acc[i] # m
    <3>1. PICK a \in 1..n : a \in 1..Len(s) /\ acc[i] = s[a]
      BY <2>7
    <3>2. a # n + 1
      BY <2>1
    <3> QED BY <2>2, <2>8, <3>1, <3>2
  <2>m. s[n + 1] = m /\ Script[p] = s
    OBVIOUS
  <2>a. accepted'[p] = acc2
    BY <2>4
  <2> HIDE DEF acc2, acc, n, s, m
  <2>10. ASSUME NEW i \in 1..Len(acc2) PROVE \E a \in 1..(n + 1) : a \in 1..Len(s) /\ acc2[i] = s[a]
    <3>1. CASE i = Len(acc) + 1
      <4>1. n + 1 \in 1..(n + 1)
        BY <2>1
      <4> QED BY <2>2, <2>6, <2>m, <3>1, <4>1
    <3>2. CASE i # Len(acc) + 1
      <4>1. i \in 1..Len(acc)
        BY <2>6, <3>2
      <4>2. PICK a \in 1..n : a \in 1..Len(s) /\ acc[i] = s[a]
        BY <2>7, <4>1
      <4>3. a \in 1..(n + 1)
        BY <2>1
      <4> QED BY <2>6, <4>1, <4>2, <4>3
    <3> QED BY <3>1, <3>2
  <2>11. ASSUME NEW i \in 1..Len(acc2), NEW j \in 1..Len(acc2), acc2[i] = acc2[j] PROVE i = j
    <3>1. \A k \in 1..Len(acc2) : k = Len(acc) + 1 \/ k \in 1..Len(acc)
      BY <2>6
    <3> QED BY <2>6, <2>7, <2>9, <2>11, <3>1
  <2>12. ASSUME NEW q \in Peer
         PROVE  /\ \A i \in 1..Len(accepted'[q]) : \E a \in 1..offered'[q] : a \in 1..Len(Script[q]) /\ accepted'[q][i] = Script[q][a]
                /\ \A i, j \in 1..Len(accepted'[q]) : accepted'[q][i] = accepted'[q][j] => i = j
    <3>1. CASE q = p
      BY <2>4, <2>a, <2>m, <2>10, <2>11, <3>1
    <3>2. CASE q # p
      BY <2>5, <3>2 DEF ScriptInv
    <3> QED BY <3>1, <3>2
  <2> QED BY <2>12 DEF ScriptInv
<1>2. ASSUME NEW p \in Peer, QueueSend(p), ~HasRoom(message_queue[p]) PROVE ScriptInv'
  <2>1. /\ offered[p] \in Nat /\ offered' = [offered EXCEPT ![p] = offered[p] + 1] /\ offered \in [Peer -> Nat]
        /\ UNCHANGED accepted
    BY <1>2 DEF QueueSend, PeerInv
  <2>2. \A q \in Peer : 1..offered[q] \subseteq 1..offered'[q]
    BY <2>1
  <2> QED BY <2>1, <2>2 DEF ScriptInv
<1>3. ASSUME UNCHANGED <<offered, accepted>> PROVE ScriptInv'
  BY <1>3 DEF ScriptInv
<1>4. ASSUME NEW p \in Peer, ChannelStep(p) \/ Crash(p) \/ RecvStep(p) PROVE UNCHANGED <<offered, accepted>>
  BY <1>4 DEF ChannelStep, WriteHeader, WriteBody, Crash, RecvStep, ReadHeader, ReadBody, ReadCut, ReadEnd, peerVars
<1>5. ASSUME Internal \/ (\E item : Refused(item)) \/ \E item, t : Forwarded(item, t) PROVE UNCHANGED <<offered, accepted>>
  BY <1>5 DEF Internal, Refused, Forwarded, peerVars
<1>6. QED
  BY <1>1, <1>2, <1>3, <1>4, <1>5, StepEffect DEF RecvStep

\* Nothing is routed at the start.
LEMMA RouteInit == Init => RouteInv
<1> SUFFICES ASSUME Init PROVE RouteInv
  OBVIOUS
<1>0. Server \in Scheduler /\ TabletId \subseteq Scheduler
  BY DEF Scheduler
<1>1. \A s \in Scheduler : Got(s) = << >> /\ handled[s] = << >>
  <2>1. \A s \in Scheduler : handled[s] = << >> /\ queue[s] = << >> /\ ~running[s]
    BY DEF Init
  <2>2. << >> \o << >> = << >>
    OBVIOUS
  <2> QED BY <2>1, <2>2 DEF Got, Pending
<1>2. refused = << >> /\ Elements(<< >>) = {}
  BY ElementsFacts DEF Init
<1>3. QED
  BY <1>0, <1>1, <1>2 DEF RouteInv

\* An item of a peer that has not crashed comes to the server's callback once.
LEMMA FreshItem ==
    ASSUME SlaveInv, ScriptInv, NEW item, NextItem(item), item.from \in Peer, item.from \notin crashed,
           Channel(item.from)
    PROVE  item \notin Elements(handled[Server])
<1> DEFINE p == item.from
           g == Seen(p)
           h == From(handled[Server], p)
           acc == accepted[p]
<1>0. Server \in Scheduler
  BY DEF Scheduler
<1>1. handled[Server] \in Seq(Item) /\ Got(Server) \in Seq(Item)
  BY <1>0, GotTypes
<1>2. PICK rest \in Seq(Item) : Got(Server) = Append(handled[Server], item) \o rest
  BY DEF NextItem
<1>3. item \in Item /\ h \in Seq(Item)
  BY <1>1, FromFacts DEF NextItem
<1>4. From(Append(handled[Server], item), p) = Append(h, item) /\ Append(handled[Server], item) \in Seq(Item)
  BY <1>1, <1>3, FromAppend
<1>5. /\ Len(Append(h, item)) <= Len(g)
      /\ \A i \in 1..Len(Append(h, item)) : g[i] = Append(h, item)[i]
  <2> DEFINE a == Append(handled[Server], item)
  <2>1. a \in Seq(Item) /\ Got(Server) = a \o rest /\ From(a, p) = Append(h, item)
    BY <1>2, <1>4
  <2> HIDE DEF a
  <2>2. /\ Len(From(a, p)) <= Len(From(a \o rest, p))
        /\ \A i \in 1..Len(From(a, p)) : From(a \o rest, p)[i] = From(a, p)[i]
    BY <2>1, FromGrows
  <2> QED BY <2>1, <2>2 DEF Seen
<1>6. Len(g) <= Len(acc) /\ \A i \in 1..Len(g) : g[i].msg = acc[i]
  BY AliveIntact DEF Intact
<1>7. \A i, j \in 1..Len(acc) : acc[i] = acc[j] => i = j
  BY DEF ScriptInv
<1>8. \A j \in 1..Len(handled[Server]) : handled[Server][j].from = p =>
          \E i \in 1..Len(h) : h[i] = handled[Server][j]
  BY <1>1, FromFacts
<1>n. Len(g) \in Nat /\ Len(acc) \in Int
  <2>1. Len(h) \in Nat /\ Len(Append(h, item)) = Len(h) + 1
    BY <1>3
  <2>2. g \in Seq(Item)
    BY <1>1, FromFacts DEF Seen
  <2>3. Len(g) \in Nat
    BY <2>2
  <2> QED BY <2>3, <1>6
<1>9. SUFFICES ASSUME item \in Elements(handled[Server]) PROVE FALSE
  OBVIOUS
<1>10. PICK j \in 1..Len(handled[Server]) : handled[Server][j] = item
  BY <1>9 DEF Elements
<1>11. PICK i \in 1..Len(h) : h[i] = item
  BY <1>8, <1>10
<1> DEFINE n == Len(h)
<1>12. /\ n \in Nat /\ Len(Append(h, item)) = n + 1 /\ Append(h, item)[n + 1] = item
       /\ Append(h, item)[i] = h[i] /\ i \in 1..n
  BY <1>3, <1>11
<1> HIDE DEF h, g, acc, n, p
<1>13. i \in 1..(n + 1) /\ n + 1 \in 1..(n + 1) /\ i # n + 1
  BY <1>12
<1>14. g[i] = item /\ g[n + 1] = item /\ n + 1 <= Len(g)
  BY <1>5, <1>11, <1>12, <1>13
<1>15. i \in 1..Len(g) /\ n + 1 \in 1..Len(g) /\ i \in 1..Len(acc) /\ n + 1 \in 1..Len(acc)
  BY <1>6, <1>n, <1>12, <1>13, <1>14
<1>16. acc[i] = acc[n + 1]
  BY <1>6, <1>14, <1>15
<1>17. QED
  BY <1>7, <1>13, <1>15, <1>16

\* The item in front is one that the server has got.
LEMMA NextItemFacts ==
    ASSUME SlaveInv, NEW item, NextItem(item)
    PROVE  /\ item \in Item /\ item \in Elements(Got(Server))
           /\ Elements(handled'[Server]) = Elements(handled[Server]) \cup {item}
<1>0. Server \in Scheduler
  BY DEF Scheduler
<1>1. handled[Server] \in Seq(Item) /\ item \in Item /\ handled'[Server] = Append(handled[Server], item)
  BY <1>0, GotTypes DEF NextItem
<1>2. PICK rest \in Seq(Item) : Got(Server) = Append(handled[Server], item) \o rest
  BY DEF NextItem
<1> DEFINE a == Append(handled[Server], item)
<1>3. a \in Seq(Item) /\ Elements(a) = Elements(handled[Server]) \cup {item}
  BY <1>1, ElementsFacts
<1> HIDE DEF a
<1>4. Elements(a \o rest) = Elements(a) \cup Elements(rest)
  BY <1>3, ElementsFacts
<1>5. QED
  BY <1>1, <1>2, <1>3, <1>4 DEF a

\* A crashed peer stays crashed.
LEMMA CrashedGrows ==
    ASSUME NEW p \in Peer, QueueSend(p) \/ ChannelStep(p) \/ Crash(p) \/ RecvStep(p)
    PROVE  crashed \subseteq crashed' /\ (RecvStep(p) => crashed' = crashed)
  BY DEF QueueSend, socketVars, ChannelStep, WriteHeader, WriteBody, Crash, RecvStep, ReadHeader, ReadBody, ReadCut, ReadEnd

\* Every step keeps the routing invariant.
LEMMA RouteStep ==
    ASSUME PeerInv, SlaveInv, OrderInv, ScriptInv, RouteInv, [Next]_vars
    PROVE  RouteInv'
<1> DEFINE HS == Elements(handled[Server])
           GS == Elements(Got(Server))
           RF == Elements(refused)
           GT(t) == Elements(Got(t))
<1>0. Server \in Scheduler /\ TabletId \subseteq Scheduler /\ Self \notin Peer
  BY ContentAssumption DEF Scheduler
<1>i. /\ \A t \in TabletId : \A x \in GT(t) : IsRequest(x) => within_range(RangeOf[t], x.msg)
      /\ \A x \in GS : x.from = Self => ~IsRequest(x)
      /\ \A t \in TabletId : GT(t) \subseteq HS
      /\ RF \subseteq HS
      /\ \A x \in RF : x.from \in Peer
      /\ \A t \in TabletId : \A x \in GT(t) \cap RF : x.from \in crashed
  BY DEF RouteInv
<1>g. Got(Server) \in Seq(Item) /\ refused \in Seq(Item) /\ \A t \in TabletId : Got(t) \in Seq(Item)
  BY <1>0, GotTypes DEF SlaveInv
<1>f. ASSUME NEW item, NextItem(item), item.from \in Peer, item.from \notin crashed PROVE item \notin HS
  BY <1>f, FreshItem DEF OrderInv
<1>1. ASSUME NEW p \in Peer, Quiet,
             QueueSend(p) \/ ChannelStep(p) \/ Crash(p) \/ ReadHeader(p) \/ ReadEnd(p)
      PROVE  RouteInv'
  <2>1. HS' = HS /\ GS' = GS /\ RF' = RF /\ \A t \in TabletId : GT(t)' = GT(t)
    BY <1>1 DEF Quiet, TabletsSame
  <2>2. crashed \subseteq crashed'
    BY <1>1, CrashedGrows DEF RecvStep
  <2> HIDE DEF HS, GS, RF, GT
  <2> QED BY <1>i, <2>1, <2>2 DEF RouteInv, HS, GS, RF, GT
<1>2. ASSUME NEW p \in Peer, NEW m \in Message, Received(p, m), ReadBody(p) \/ ReadCut(p)
      PROVE  RouteInv'
  <2> DEFINE x == [from |-> p, msg |-> m]
  <2>0. x \in Item /\ x.from = p /\ p # Self
    BY <1>0 DEF Item
  <2> HIDE DEF x
  <2>1. HS' = HS /\ RF' = RF /\ \A t \in TabletId : GT(t)' = GT(t)
    BY <1>2 DEF Received, TabletsSame
  <2>2. GS' = GS \cup {x}
    BY <1>2, <1>g, <2>0, ElementsFacts DEF Received, x
  <2>3. crashed' = crashed
    BY <1>2, CrashedGrows DEF RecvStep
  <2> HIDE DEF HS, GS, RF, GT
  <2>4. \A y \in GS' : y.from = Self => ~IsRequest(y)
    BY <1>i, <2>0, <2>2
  <2> QED BY <1>i, <2>1, <2>3, <2>4 DEF RouteInv, HS, GS, RF, GT
<1>3. ASSUME Internal PROVE RouteInv'
  <2>1. RF' = RF /\ (\A t \in TabletId : GT(t)' = GT(t)) /\ crashed' = crashed
    BY <1>3 DEF Internal, TabletsSame, socketVars
  <2>2. HS \subseteq HS'
    BY <1>3, NextItemFacts DEF Internal
  <2>3. PICK r : SelfItems(r) /\ Got(Server)' = Got(Server) \o r
    BY <1>3 DEF Internal
  <2>4. r \in Seq(Item) /\ \A x \in Elements(r) : ~IsRequest(x)
    BY <2>3 DEF SelfItems, Elements
  <2>5. GS' = GS \cup Elements(r)
    BY <1>g, <2>3, <2>4, ElementsFacts
  <2> HIDE DEF HS, GS, RF, GT
  <2>6. \A y \in GS' : y.from = Self => ~IsRequest(y)
    BY <1>i, <2>4, <2>5
  <2> QED BY <1>i, <2>1, <2>2, <2>6 DEF RouteInv, HS, GS, RF, GT
<1>4. ASSUME NEW item, Refused(item) PROVE RouteInv'
  <2>1. NextItem(item) /\ IsRequest(item) /\ (refused' = refused \/ refused' = Append(refused, item))
    BY <1>4 DEF Refused
  <2>2. item \in Item /\ item \in GS /\ HS' = HS \cup {item}
    BY <2>1, NextItemFacts
  <2>3. GS' = GS /\ (\A t \in TabletId : GT(t)' = GT(t)) /\ crashed' = crashed
    BY <1>4 DEF Refused, TabletsSame, socketVars
  <2>4. RF' = RF \/ RF' = RF \cup {item}
    BY <1>g, <2>1, <2>2, ElementsFacts
  <2>5. item.from \in Peer
    <3>1. item.from # Self
      BY <1>i, <2>1, <2>2
    <3>2. item.from \in Peer \cup {Self}
      BY <2>2 DEF Item
    <3> QED BY <3>1, <3>2
  <2>6. item.from \notin crashed => item \notin HS
    BY <1>f, <2>1, <2>5
  <2> HIDE DEF HS, GS, RF, GT
  <2>7. \A t \in TabletId : \A x \in GT(t)' \cap RF' : x.from \in crashed'
    BY <1>i, <2>3, <2>4, <2>6
  <2>8. RF' \subseteq HS' /\ (\A x \in RF' : x.from \in Peer) /\ \A t \in TabletId : GT(t)' \subseteq HS'
    BY <1>i, <2>2, <2>3, <2>4, <2>5
  <2> QED BY <1>i, <2>3, <2>7, <2>8 DEF RouteInv, HS, GS, RF, GT
<1>5. ASSUME NEW item, NEW t, Forwarded(item, t) PROVE RouteInv'
  <2>1. /\ NextItem(item) /\ t \in TabletId /\ t \in Targets(item.msg) /\ Got(t)' = Append(Got(t), item)
        /\ \A u \in TabletId : u # t => Got(u)' = Got(u)
    BY <1>5 DEF Forwarded
  <2>2. item \in Item /\ HS' = HS \cup {item}
    BY <2>1, NextItemFacts
  <2>3. GS' = GS /\ RF' = RF /\ crashed' = crashed
    BY <1>5 DEF Forwarded, socketVars
  <2>4. GT(t)' = GT(t) \cup {item} /\ \A u \in TabletId : u # t => GT(u)' = GT(u)
    BY <1>g, <2>1, <2>2, ElementsFacts
  <2>5. IsRequest(item) => within_range(RangeOf[t], item.msg)
    BY <2>1 DEF IsRequest, Targets
  <2>6. item \in RF => item.from \in crashed
    <3> SUFFICES ASSUME item \in RF, item.from \notin crashed PROVE FALSE
      OBVIOUS
    <3>1. item.from \in Peer /\ item \in HS
      BY <1>i
    <3> QED BY <1>f, <2>1, <3>1
  <2> HIDE DEF HS, GS, RF, GT
  <2>7. ASSUME NEW u \in TabletId
        PROVE  /\ \A x \in GT(u)' : IsRequest(x) => within_range(RangeOf[u], x.msg)
               /\ GT(u)' \subseteq HS' /\ \A x \in GT(u)' \cap RF' : x.from \in crashed'
    <3>1. \A x \in GT(u)' : x \in GT(u) \/ (x = item /\ u = t)
      BY <2>4
    <3> QED BY <1>i, <2>2, <2>3, <2>5, <2>6, <3>1
  <2>8. RF' \subseteq HS' /\ (\A x \in RF' : x.from \in Peer) /\ \A x \in GS' : x.from = Self => ~IsRequest(x)
    BY <1>i, <2>2, <2>3
  <2> QED BY <2>7, <2>8 DEF RouteInv, HS, GS, RF, GT
<1>6. QED
  BY <1>1, <1>2, <1>3, <1>4, <1>5, StepEffect

\* With disjoint ranges the routing invariant implies the property.
LEMMA RouteImplies ==
    ASSUME DisjointRanges, SlaveInv, RouteInv
    PROVE  RoutedOnce
<1>0. TabletId \subseteq Scheduler
  BY DEF Scheduler
<1>1. ASSUME NEW t \in TabletId, NEW j \in DOMAIN handled[t]
      PROVE  handled[t][j] \in Elements(Got(t)) /\ handled[t][j].msg \in Message
  <2>1. handled[t] \in Seq(Item) /\ Pending(t) \in Seq(Item) /\ Got(t) = handled[t] \o Pending(t)
    BY <1>0, GotTypes DEF Got
  <2>2. Elements(Got(t)) = Elements(handled[t]) \cup Elements(Pending(t))
    BY <2>1, ElementsFacts
  <2>3. DOMAIN handled[t] = 1..Len(handled[t])
    BY <2>1, LenProperties
  <2>4. handled[t][j] \in Elements(handled[t])
    BY <2>3 DEF Elements
  <2>5. handled[t][j] \in Item
    BY <2>1, <2>3, ElementOfSeq
  <2> QED BY <2>2, <2>4, <2>5 DEF Item
<1> SUFFICES ASSUME NEW t \in TabletId, NEW j \in DOMAIN handled[t]
             PROVE  /\ \A k \in DOMAIN refused : refused[k] # handled[t][j] \/ handled[t][j].from \in crashed
                    /\ \A u \in TabletId : \A k \in DOMAIN handled[u] :
                           /\ IsRequest(handled[t][j]) /\ IsRequest(handled[u][k])
                           /\ SameKey(Content[handled[t][j].msg], Content[handled[u][k].msg])
                           => t = u
  BY DEF RoutedOnce
<1>2. \A k \in DOMAIN refused : refused[k] # handled[t][j] \/ handled[t][j].from \in crashed
  <2>1. refused \in Seq(Item)
    BY DEF SlaveInv
  <2>2. \A k \in DOMAIN refused : refused[k] \in Elements(refused)
    BY <2>1, LenProperties DEF Elements
  <2> QED BY <1>1, <2>2 DEF RouteInv
<1>3. ASSUME NEW u \in TabletId, NEW k \in DOMAIN handled[u],
             IsRequest(handled[t][j]), IsRequest(handled[u][k]),
             SameKey(Content[handled[t][j].msg], Content[handled[u][k].msg])
      PROVE  t = u
  <2> DEFINE m == handled[t][j].msg
             n == handled[u][k].msg
  <2>1. m \in Message /\ Content[m].kind = "request" /\ SameKey(Content[m], Content[n])
    BY <1>1, <1>3 DEF IsRequest
  <2>2. within_range(RangeOf[t], m) /\ within_range(RangeOf[u], n)
    BY <1>1, <1>3 DEF RouteInv
  <2> HIDE DEF m, n
  <2>3. within_range(RangeOf[u], m)
    BY <2>1, <2>2 DEF SameKey, within_range
  <2> QED BY <2>1, <2>2, <2>3 DEF DisjointRanges
<1>4. QED
  BY <1>2, <1>3

\* While tablets are added to _tp_map, no request is both refused and handled, and the
\* requests for a key are handled by one tablet: for any number of tablets with disjoint
\* ranges and peers that send no message twice.
THEOREM RoutesOnce ==
    ASSUME DisjointRanges, DistinctMessages
    PROVE  Spec => []RoutedOnce
<1> DEFINE I == PeerInv /\ SlaveInv /\ OrderInv /\ ScriptInv /\ RouteInv
<1>1. Init => I
  BY InvInit, OrderInit, ScriptInit, RouteInit
<1>2. I /\ [Next]_vars => I'
  BY InvStep, OrderStep, ScriptStep, RouteStep
<1>3. I => RoutedOnce
  BY RouteImplies
<1> HIDE DEF I
<1>4. QED
  BY <1>1, <1>2, <1>3, PTL DEF Spec
=============================================================================
