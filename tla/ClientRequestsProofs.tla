------------------------- MODULE ClientRequestsProofs -------------------------
(***************************************************************************)
(* Proofs about ClientRequests, for any replicas, requests, keys, retry    *)
(* limit and initial log: a request is committed at most once and all      *)
(* fields keep their types.  If every key of the initial log has been      *)
(* written, no replica writes to the past, the replicas agree and what was *)
(* rejected as too old is never committed.                                 *)
(***************************************************************************)
EXTENDS ClientRequests, SequenceTheorems, TLAPS

\* What is proved about the KVStore, for timestamps that are any numbers.
Store == INSTANCE KVStoreProofs WITH Timestamp <- Nat, mvkvs <- kvstore, reads <- responses

AnyTask == [id : RequestId, retry_count : Nat]

Types ==
    /\ decided \in Seq(RequestId)
    /\ proposed \subseteq RequestId
    /\ applied \in [Replica -> Nat]
    /\ \A r \in Replica : applied[r] <= Len(decided)
    /\ queue \in [Replica -> Seq(AnyTask)]

\* A replica remembers the ids of everything it has applied.
Remembered ==
    /\ DOMAIN request_id_map = Replica
    /\ \A r \in Replica : \A i \in 1..applied[r] : decided[i] \in DOMAIN request_id_map[r]

\* What is proposed for the first undecided index is not in the log: the proposer has
\* applied the whole log and looked the id up.
ProposalsFresh == \A id \in proposed : \A i \in 1..Len(decided) : decided[i] # id

OnceInv == Types /\ Remembered /\ ProposalsFresh /\ CommittedAtMostOnce

\* The invariant holds of any initial log without duplicates.
LEMMA OnceInit == Init => OnceInv
<1> SUFFICES ASSUME Init PROVE OnceInv
  OBVIOUS
<1>1. decided \in Seq(RequestId) /\ Len(decided) \in Nat
  BY InitialLogAssumption, LenProperties DEF Init
<1>2. Types
  BY <1>1 DEF Init, Types
<1>3. Remembered /\ ProposalsFresh
  BY DEF Init, Remembered, ProposalsFresh
<1>4. CommittedAtMostOnce
  BY InitialLogAssumption DEF Init, CommittedAtMostOnce
<1>5. QED
  BY <1>2, <1>3, <1>4 DEF OnceInv

\* Deciding a fresh id leaves every id in the log once.
LEMMA OnceDecide == ASSUME OnceInv, Decide PROVE OnceInv'
<1>1. PICK id \in proposed : decided' = Append(decided, id)
  BY DEF Decide
<1>2. /\ proposed' = {} /\ applied' = applied /\ queue' = queue
      /\ request_id_map' = request_id_map
  BY DEF Decide
<1>3. decided \in Seq(RequestId) /\ Len(decided) \in Nat /\ id \in RequestId
  BY <1>1, LenProperties DEF OnceInv, Types
<1>4. /\ decided' \in Seq(RequestId) /\ Len(decided') = Len(decided) + 1
      /\ \A i \in 1..Len(decided) : decided'[i] = decided[i]
      /\ decided'[Len(decided) + 1] = id
  BY <1>1, <1>3, AppendProperties
<1>5. \A i \in 1..Len(decided) : decided[i] # id
  BY DEF OnceInv, ProposalsFresh
<1>6. Types'
  <2>1. \A r \in Replica : applied[r] \in Nat /\ applied[r] <= Len(decided)
    BY DEF OnceInv, Types
  <2>2. \A r \in Replica : applied'[r] <= Len(decided')
    BY <2>1, <1>2, <1>3, <1>4
  <2>3. QED
    BY <2>2, <1>2, <1>4 DEF OnceInv, Types
<1>7. Remembered'
  <2> SUFFICES ASSUME NEW r \in Replica, NEW i \in 1..applied[r]
               PROVE  decided'[i] \in DOMAIN request_id_map[r]
    BY <1>2 DEF OnceInv, Remembered
  <2>1. applied[r] \in Nat /\ applied[r] <= Len(decided)
    BY DEF OnceInv, Types
  <2>2. i \in 1..Len(decided)
    BY <2>1, <1>3
  <2>3. QED
    BY <2>2, <1>4 DEF OnceInv, Remembered
<1>8. ProposalsFresh'
  BY <1>2 DEF ProposalsFresh
<1>9. ASSUME NEW i \in 1..(Len(decided) + 1), NEW j \in 1..(Len(decided) + 1),
             decided'[i] = decided'[j]
      PROVE  i = j
  <2>1. CASE i \in 1..Len(decided) /\ j \in 1..Len(decided)
    BY <2>1, <1>4, <1>9 DEF OnceInv, CommittedAtMostOnce
  <2>2. CASE i = Len(decided) + 1 /\ j \in 1..Len(decided)
    BY <2>2, <1>4, <1>5, <1>9
  <2>3. CASE j = Len(decided) + 1 /\ i \in 1..Len(decided)
    BY <2>3, <1>4, <1>5, <1>9
  <2>4. CASE i = Len(decided) + 1 /\ j = Len(decided) + 1
    BY <2>4
  <2>5. QED
    BY <2>1, <2>2, <2>3, <2>4, <1>3
<1>10. QED
  BY <1>4, <1>6, <1>7, <1>8, <1>9 DEF OnceInv, CommittedAtMostOnce

\* The callbacks remember the id of the entry applied.
LEMMA OnceApply == ASSUME OnceInv, NEW r \in Replica, Apply(r) PROVE OnceInv'
<1> DEFINE index == applied[r] + 1
           id == decided[index]
<1>1. /\ index <= Len(decided) /\ applied' = [applied EXCEPT ![r] = index]
      /\ decided' = decided /\ proposed' = proposed /\ queue' = queue
      /\ Remember(r, id, index)
  BY DEF Apply
<1>2. /\ DOMAIN request_id_map' = Replica
      /\ \A s \in Replica : DOMAIN request_id_map[s] \subseteq DOMAIN request_id_map'[s]
      /\ id \in DOMAIN request_id_map'[r]
  <2> HIDE DEF id, index
  <2>1. DOMAIN request_id_map = Replica
    BY DEF OnceInv, Remembered
  <2>2. request_id_map' = [request_id_map EXCEPT ![r] =
            [i \in DOMAIN request_id_map[r] \cup {id} |->
                IF i \in DOMAIN request_id_map[r] THEN request_id_map[r][i] ELSE index]]
    BY <1>1 DEF Remember
  <2>3. QED
    BY <2>1, <2>2
<1>3. applied \in [Replica -> Nat] /\ index \in Nat
  BY DEF OnceInv, Types
<1>4. Types'
  BY <1>1, <1>3 DEF OnceInv, Types
<1>5. ASSUME NEW s \in Replica, NEW i \in 1..applied'[s]
      PROVE  decided[i] \in DOMAIN request_id_map'[s]
  <2>1. CASE s = r /\ i = index
    BY <2>1, <1>2
  <2>2. CASE i \in 1..applied[s]
    BY <2>2, <1>2 DEF OnceInv, Remembered
  <2>3. s # r => applied'[s] = applied[s]
    BY <1>1, <1>3
  <2>4. s = r => applied'[s] = applied[s] + 1
    BY <1>1, <1>3
  <2>5. QED
    BY <2>1, <2>2, <2>3, <2>4, <1>3
<1>6. Remembered'
  BY <1>1, <1>2, <1>5 DEF Remembered
<1>7. ProposalsFresh' /\ CommittedAtMostOnce'
  BY <1>1 DEF OnceInv, ProposalsFresh, CommittedAtMostOnce
<1>8. QED
  BY <1>4, <1>6, <1>7 DEF OnceInv

\* Sending a request changes only the queue.
LEMMA OnceHandle ==
    ASSUME OnceInv, NEW r \in Replica, NEW id \in RequestId, HandleRequest(r, id)
    PROVE  OnceInv'
<1> DEFINE task == [id |-> id, retry_count |-> 0]
<1>1. /\ queue' = [queue EXCEPT ![r] = Append(queue[r], task)]
      /\ decided' = decided /\ proposed' = proposed /\ applied' = applied
      /\ request_id_map' = request_id_map
  BY DEF HandleRequest
<1>2. task \in AnyTask /\ queue[r] \in Seq(AnyTask)
  BY DEF AnyTask, OnceInv, Types
<1>3. Append(queue[r], task) \in Seq(AnyTask)
  BY <1>2, AppendProperties
<1>4. Types'
  BY <1>1, <1>3 DEF OnceInv, Types
<1>5. QED
  BY <1>1, <1>4 DEF OnceInv, Remembered, ProposalsFresh, CommittedAtMostOnce

\* Answering a client pops the task.
LEMMA OnceRespond ==
    ASSUME OnceInv, NEW r \in Replica, Fulfilled(r) \/ GiveUp(r) \/ Reject(r)
    PROVE  OnceInv'
<1>1. /\ queue' = [queue EXCEPT ![r] = Tail(queue[r])]
      /\ decided' = decided /\ proposed' = proposed /\ applied' = applied
      /\ request_id_map' = request_id_map
      /\ queue[r] # << >>
  BY DEF Fulfilled, GiveUp, Reject, Respond, Running
<1>2. queue[r] \in Seq(AnyTask)
  BY DEF OnceInv, Types
<1>3. Tail(queue[r]) \in Seq(AnyTask)
  BY <1>1, <1>2, HeadTailProperties
<1>4. Types'
  BY <1>1, <1>3 DEF OnceInv, Types
<1>5. QED
  BY <1>1, <1>4 DEF OnceInv, Remembered, ProposalsFresh, CommittedAtMostOnce

\* A proposal for the first undecided index is made by a replica that knows the whole
\* log, for an id it has not seen there.
LEMMA OncePropose == ASSUME OnceInv, NEW r \in Replica, Propose(r) PROVE OnceInv'
<1> DEFINE id == Head(queue[r]).id
           task == NextTry(queue[r][1])
<1>1. /\ queue[r] # << >> /\ ~IsFulfilled(r, id)
      /\ proposed' = IF applied[r] = Len(decided) THEN proposed \cup {id} ELSE proposed
      /\ decided' = decided /\ applied' = applied /\ request_id_map' = request_id_map
  BY DEF Propose, Running
<1>2. queue[r] \in Seq(AnyTask) /\ queue \in [Replica -> Seq(AnyTask)]
  BY DEF OnceInv, Types
<1>3. Head(queue[r]) \in AnyTask /\ Head(queue[r]) = queue[r][1] /\ id \in RequestId
  <2>1. 1 \in 1..Len(queue[r])
    BY <1>1, <1>2, EmptySeq, LenProperties
  <2>2. Head(queue[r]) = queue[r][1] /\ queue[r][1] \in AnyTask
    BY <2>1, <1>2, ElementOfSeq
  <2>3. QED
    BY <2>2 DEF AnyTask
<1>4. task \in AnyTask
  BY <1>3 DEF NextTry, AnyTask
<1>5. queue' = [queue EXCEPT ![r] = [queue[r] EXCEPT ![1] = task]]
  BY <1>2 DEF Propose
<1> HIDE DEF task, id
<1>6. [queue[r] EXCEPT ![1] = task] \in Seq(AnyTask)
  <2>1. 1 \in 1..Len(queue[r])
    BY <1>1, <1>2, EmptySeq, LenProperties
  <2>2. QED
    BY <2>1, <1>2, <1>4, ExceptSeq
<1>7. Types'
  BY <1>1, <1>2, <1>3, <1>5, <1>6 DEF OnceInv, Types
<1>8. ASSUME applied[r] = Len(decided) PROVE \A i \in 1..Len(decided) : decided[i] # id
  BY <1>1, <1>8 DEF IsFulfilled, OnceInv, Remembered
<1>9. ProposalsFresh'
  BY <1>1, <1>8 DEF OnceInv, ProposalsFresh
<1>10. QED
  BY <1>1, <1>7, <1>9 DEF OnceInv, Remembered, CommittedAtMostOnce

\* OnceInv is inductive.
LEMMA OnceStep == OnceInv /\ [Next]_vars => OnceInv'
<1> SUFFICES ASSUME OnceInv, [Next]_vars PROVE OnceInv'
  OBVIOUS
<1>1. CASE UNCHANGED vars
  BY <1>1 DEF vars, OnceInv, Types, Remembered, ProposalsFresh, CommittedAtMostOnce
<1>2. ASSUME NEW r \in Replica, RunTask(r) PROVE OnceInv'
  BY <1>2, OnceRespond, OncePropose DEF RunTask
<1>3. QED
  BY <1>1, <1>2, OnceDecide, OnceApply, OnceHandle DEF Next

\* However often a client sends a request, to however many replicas, the log has it at
\* most once.
THEOREM AtMostOnce == Spec => []CommittedAtMostOnce
<1>1. OnceInv => CommittedAtMostOnce
  BY DEF OnceInv
<1>2. QED
  BY <1>1, OnceInit, OnceStep, PTL DEF Spec

-----------------------------------------------------------------------------
(* The entries of a store.                                                 *)

Version == [timestamp : Nat, value : Value]
Entry == [versions : Seq(Version), lat : Nat]

\* An entry whose versions are in order.
Sound(entry) ==
    /\ entry \in Entry
    /\ Store!Ordered(entry.versions, entry.lat) /\ Store!HasPositions(entry.versions)

\* The entry later may come from entry by reads and writes: what was read once, at a
\* timestamp up to the last access, reads the same.
Follows(later, entry) ==
    /\ Exists(entry) => Exists(later) /\ entry.lat <= later.lat
    /\ \A t \in Nat : Exists(entry) /\ t <= entry.lat => read_value(later, t) = read_value(entry, t)

\* The operators of KVStoreData are those that KVStoreProofs is about.
LEMMA SameStore ==
    /\ \A e, t : Store!read_value(e, t) = read_value(e, t)
    /\ \A e, t : Store!read_entry(e, t) = read_entry(e, t)
    /\ \A e, v, t : Store!write(e, v, t) = write(e, v, t)
    /\ \A e : Store!Exists(e) = Exists(e)
    /\ \A e, t : Store!NotInThePast(e, t) = NotInThePast(e, t)
    /\ Store!Version = Version
    /\ [versions : Seq(Store!Version), lat : Nat \cup {0}] = Entry
<1>1. \A v, t : Store!position(v, t) = position(v, t)
  BY DEF Store!position, position, Store!IsPosition, IsPosition
<1>2. \A e, t : Store!read_value(e, t) = read_value(e, t)
  BY <1>1 DEF Store!read_value, read_value
<1>3. \A e, t : Store!read_entry(e, t) = read_entry(e, t)
  BY <1>1 DEF Store!read_entry, read_entry
<1>4. \A e, v, t : Store!write(e, v, t) = write(e, v, t)
  BY DEF Store!write, write
<1>5. \A e : Store!Exists(e) = Exists(e)
  BY DEF Store!Exists, Exists
<1>6. \A e, t : Store!NotInThePast(e, t) = NotInThePast(e, t)
  BY <1>5 DEF Store!NotInThePast, NotInThePast
<1>7. Store!Version = Version
  BY DEF Store!Version, Version
<1>8. Nat \cup {0} = Nat
  OBVIOUS
<1>9. QED
  BY <1>2, <1>3, <1>4, <1>5, <1>6, <1>7, <1>8 DEF Entry

LEMMA SoundEmpty == Sound(NoEntry) /\ ~Exists(NoEntry)
<1>1. NoEntry \in Entry /\ NoEntry.versions = << >> /\ NoEntry.lat = 0 /\ Len(<< >>) = 0
  BY DEF NoEntry, Entry
<1>2. Store!Ordered(<< >>, 0)
  BY DEF Store!Ordered
<1>3. Store!HasPositions(<< >>)
  <2>1. 0 \in 0..0 /\ (0 + 1)..0 = {} /\ 1..0 = {}
    OBVIOUS
  <2>2. QED
    BY <2>1, <1>1 DEF Store!HasPositions, Store!IsPosition
<1>4. QED
  BY <1>1, <1>2, <1>3 DEF Sound, Exists

LEMMA SoundWrite ==
    ASSUME NEW entry, Sound(entry), NEW value \in Value, NEW ts \in Nat, NotInThePast(entry, ts)
    PROVE  LET new == write(entry, value, ts)
           IN Sound(new) /\ Exists(new) /\ new.lat = ts /\ Follows(new, entry)
<1> DEFINE new == write(entry, value, ts)
<1>1. /\ entry \in [versions : Seq(Store!Version), lat : Nat \cup {0}]
      /\ Store!Ordered(entry.versions, entry.lat) /\ Store!HasPositions(entry.versions)
      /\ Store!NotInThePast(entry, ts) /\ entry.lat \in Nat
  BY SameStore DEF Sound, Entry
<1>2. /\ Store!write(entry, value, ts) \in [versions : Seq(Store!Version), lat : Nat \cup {0}]
      /\ Store!Exists(Store!write(entry, value, ts))
      /\ Store!Ordered(Store!write(entry, value, ts).versions, Store!write(entry, value, ts).lat)
      /\ Store!HasPositions(Store!write(entry, value, ts).versions)
      /\ Store!Exists(entry) => entry.lat < Store!write(entry, value, ts).lat
      /\ \A t \in Nat : Store!Exists(entry) /\ t <= entry.lat =>
             Store!read_value(Store!write(entry, value, ts), t) = Store!read_value(entry, t)
  BY <1>1, Store!WriteFacts, BoundAssumption
<1>3. new.lat = ts
  BY DEF write
<1> HIDE DEF new
<1>4. Store!write(entry, value, ts) = new
  BY SameStore DEF new
<1>5. /\ new \in Entry /\ Exists(new) /\ Store!Ordered(new.versions, new.lat)
      /\ Store!HasPositions(new.versions)
      /\ Exists(entry) => entry.lat < new.lat
      /\ \A t \in Nat : Exists(entry) /\ t <= entry.lat => read_value(new, t) = read_value(entry, t)
  BY <1>2, <1>4, SameStore
<1>6. QED
  BY <1>1, <1>3, <1>5 DEF Sound, Follows, new

LEMMA SoundRead ==
    ASSUME NEW entry, Sound(entry), NEW ts \in Nat
    PROVE  LET new == read_entry(entry, ts)
           IN /\ Sound(new) /\ Follows(new, entry)
              /\ Exists(entry) => Exists(new) /\ ts <= new.lat
              /\ Exists(entry) => read_value(new, ts) = read_value(entry, ts)
              /\ read_value(entry, ts) \in Value \cup {NoValue}
<1> DEFINE new == read_entry(entry, ts)
<1>1. /\ entry \in [versions : Seq(Store!Version), lat : Nat \cup {0}]
      /\ Store!Ordered(entry.versions, entry.lat) /\ Store!HasPositions(entry.versions)
      /\ entry.lat \in Nat
  BY SameStore DEF Sound, Entry
<1>2. /\ Store!read_entry(entry, ts) \in [versions : Seq(Store!Version), lat : Nat \cup {0}]
      /\ Store!read_entry(entry, ts).versions = entry.versions
      /\ Store!Ordered(Store!read_entry(entry, ts).versions, Store!read_entry(entry, ts).lat)
      /\ entry.lat <= Store!read_entry(entry, ts).lat
      /\ Store!Exists(entry) => ts <= Store!read_entry(entry, ts).lat
      /\ Store!read_value(entry, ts) \in Value \cup {NoValue}
  BY <1>1, Store!ReadFacts, BoundAssumption
<1> HIDE DEF new
<1>3. Store!read_entry(entry, ts) = new
  BY SameStore DEF new
<1>4. /\ new \in Entry /\ new.versions = entry.versions
      /\ Store!Ordered(new.versions, new.lat) /\ entry.lat <= new.lat
      /\ Exists(entry) => ts <= new.lat
      /\ read_value(entry, ts) \in Value \cup {NoValue}
  BY <1>2, <1>3, SameStore
<1>5. (Exists(new) <=> Exists(entry)) /\ \A t \in Nat : read_value(new, t) = read_value(entry, t)
  BY <1>4 DEF Exists, read_value
<1>6. QED
  BY <1>1, <1>4, <1>5 DEF Sound, Follows, new

\* A read that was executed before changes nothing.
LEMMA ReadAgain ==
    ASSUME NEW entry, Sound(entry), NEW ts \in Nat, ts <= entry.lat
    PROVE  read_entry(entry, ts) = entry
<1>1. ~(ts > entry.lat)
  BY DEF Sound, Entry
<1>2. QED
  BY <1>1 DEF read_entry

LEMMA FollowsItself == ASSUME NEW entry, Sound(entry) PROVE Follows(entry, entry)
<1>1. entry.lat \in Nat
  BY DEF Sound, Entry
<1>2. QED
  BY <1>1 DEF Follows

LEMMA FollowsOn ==
    ASSUME NEW a, NEW b, NEW c, Sound(a), Sound(b), Sound(c), Follows(b, a), Follows(c, b)
    PROVE  Follows(c, a)
<1>1. a.lat \in Nat /\ b.lat \in Nat /\ c.lat \in Nat
  BY DEF Sound, Entry
<1>2. QED
  BY <1>1 DEF Follows

-----------------------------------------------------------------------------
(* Types.                                                                  *)

\* The stores keep their versions in order, whatever is decided: an assertion ends a
\* replica that would write to the past.
TypeInv ==
    /\ TypeOK
    /\ kvstore \in [Replica -> [Key -> Entry]]
    /\ \A r \in Replica, key \in Key : Sound(kvstore[r][key])
    /\ DOMAIN request_id_map = Replica

\* What the requests are.
LEMMA RequestParts ==
    ASSUME NEW id \in RequestId
    PROVE  /\ Request[id].key \in Key /\ Request[id].value \in Value
           /\ Request[id].timestamp \in Nat
           /\ IsRead(id) <=> ~IsWrite(id)
<1>1. Request[id] \in [type : {"READ", "WRITE"}, key : Key, value : Value, timestamp : Nat]
  BY RequestAssumption
<1>2. QED
  BY <1>1 DEF IsRead, IsWrite

\* A store in which one entry is replaced.
LEMMA StoreExcept ==
    ASSUME NEW store \in [Replica -> [Key -> Entry]], \A r \in Replica, key \in Key : Sound(store[r][key]),
           NEW q \in Replica, NEW k \in Key, NEW e, Sound(e)
    PROVE  LET new == [store EXCEPT ![q][k] = e]
           IN /\ new \in [Replica -> [Key -> Entry]]
              /\ \A r \in Replica, key \in Key : Sound(new[r][key])
              /\ new[q] = [store[q] EXCEPT ![k] = e]
              /\ \A r \in Replica \ {q} : new[r] = store[r]
<1> DEFINE new == [store EXCEPT ![q][k] = e]
<1>1. new[q] = [store[q] EXCEPT ![k] = e] /\ \A r \in Replica \ {q} : new[r] = store[r]
  OBVIOUS
<1>2. e \in Entry
  BY DEF Sound
<1>3. new \in [Replica -> [Key -> Entry]]
  BY <1>2
<1>4. ASSUME NEW r \in Replica, NEW key \in Key PROVE Sound(new[r][key])
  <2>1. CASE r = q /\ key = k
    BY <2>1, <1>1
  <2>2. CASE r = q /\ key # k
    BY <2>2, <1>1
  <2>3. CASE r # q
    BY <2>3, <1>1
  <2>4. QED
    BY <2>1, <2>2, <2>3
<1>5. QED
  BY <1>1, <1>3, <1>4

\* The stores after a read and after a write.
LEMMA StoreRead ==
    ASSUME TypeInv, NEW r \in Replica, NEW id \in RequestId
    PROVE  LET new == AfterRead(r, id)
           IN /\ new \in [Replica -> [Key -> Entry]]
              /\ \A s \in Replica, key \in Key : Sound(new[s][key])
              /\ new[r] = [kvstore[r] EXCEPT ![Request[id].key] = read_entry(EntryOf(r, id), Request[id].timestamp)]
              /\ \A s \in Replica \ {r} : new[s] = kvstore[s]
<1>1. Request[id].key \in Key /\ Request[id].timestamp \in Nat
  BY RequestParts
<1>2. kvstore \in [Replica -> [Key -> Entry]] /\ \A s \in Replica, key \in Key : Sound(kvstore[s][key])
  BY DEF TypeInv
<1> DEFINE k == Request[id].key
           e == read_entry(kvstore[r][k], Request[id].timestamp)
<1>3. Sound(e)
  BY <1>1, <1>2, SoundRead
<1>4. AfterRead(r, id) = [kvstore EXCEPT ![r][k] = e]
  BY <1>1, <1>2 DEF AfterRead
<1>5. k \in Key /\ EntryOf(r, id) = kvstore[r][k]
  BY <1>1 DEF EntryOf
<1>6. /\ [kvstore EXCEPT ![r][k] = e] \in [Replica -> [Key -> Entry]]
      /\ \A s \in Replica, key \in Key : Sound([kvstore EXCEPT ![r][k] = e][s][key])
      /\ [kvstore EXCEPT ![r][k] = e][r] = [kvstore[r] EXCEPT ![k] = e]
      /\ \A s \in Replica \ {r} : [kvstore EXCEPT ![r][k] = e][s] = kvstore[s]
  <2> HIDE DEF e, k
  <2> QED
    BY <1>2, <1>3, <1>5, StoreExcept
<1>7. QED
  BY <1>4, <1>5, <1>6

LEMMA StoreWrite ==
    ASSUME TypeInv, NEW r \in Replica, NEW id \in RequestId,
           NotInThePast(EntryOf(r, id), Request[id].timestamp)
    PROVE  LET new == AfterWrite(r, id)
           IN /\ new \in [Replica -> [Key -> Entry]]
              /\ \A s \in Replica, key \in Key : Sound(new[s][key])
              /\ new[r] = [kvstore[r] EXCEPT ![Request[id].key] =
                              write(EntryOf(r, id), Request[id].value, Request[id].timestamp)]
              /\ \A s \in Replica \ {r} : new[s] = kvstore[s]
<1>1. Request[id].key \in Key /\ Request[id].timestamp \in Nat /\ Request[id].value \in Value
  BY RequestParts
<1>2. kvstore \in [Replica -> [Key -> Entry]] /\ \A s \in Replica, key \in Key : Sound(kvstore[s][key])
  BY DEF TypeInv
<1> DEFINE k == Request[id].key
           e == write(kvstore[r][k], Request[id].value, Request[id].timestamp)
<1>3. k \in Key /\ EntryOf(r, id) = kvstore[r][k]
  BY <1>1 DEF EntryOf
<1>4. Sound(e)
  BY <1>1, <1>2, <1>3, SoundWrite
<1>5. AfterWrite(r, id) = [kvstore EXCEPT ![r][k] = e]
  BY <1>1, <1>2 DEF AfterWrite
<1>6. /\ [kvstore EXCEPT ![r][k] = e] \in [Replica -> [Key -> Entry]]
      /\ \A s \in Replica, key \in Key : Sound([kvstore EXCEPT ![r][k] = e][s][key])
      /\ [kvstore EXCEPT ![r][k] = e][r] = [kvstore[r] EXCEPT ![k] = e]
      /\ \A s \in Replica \ {r} : [kvstore EXCEPT ![r][k] = e][s] = kvstore[s]
  <2> HIDE DEF e, k
  <2> QED
    BY <1>2, <1>3, <1>4, StoreExcept
<1>7. QED
  BY <1>3, <1>5, <1>6

LEMMA TypeInit == Init => TypeInv
<1> SUFFICES ASSUME Init PROVE TypeInv
  OBVIOUS
<1>1. decided \in Seq(RequestId) /\ Len(decided) \in Nat
  BY InitialLogAssumption DEF Init
<1>2. Sound(NoEntry) /\ NoEntry \in Entry
  BY SoundEmpty DEF Sound
<1>3. /\ kvstore \in [Replica -> [Key -> Entry]]
      /\ \A r \in Replica, key \in Key : kvstore[r][key] = NoEntry
  BY <1>2 DEF Init
<1>4. \A r \in Replica : DOMAIN request_id_map[r] \subseteq RequestId
  BY DEF Init
<1>5. TypeOK
  <2>1. NoEntry.lat \in Nat /\ NoEntry.versions \in Seq([timestamp : Nat, value : Value])
    BY <1>2 DEF Entry, Version
  <2>2. applied \in [Replica -> 0..Len(decided)]
    BY <1>1 DEF Init
  <2>3. QED
    BY <2>1, <2>2, <1>1, <1>3, <1>4 DEF Init, TypeOK
<1>6. QED
  BY <1>2, <1>3, <1>5 DEF TypeInv, Init

\* The head of a queue is a task, and the queue without it is one.
LEMMA QueueParts ==
    ASSUME TypeInv, NEW r \in Replica, queue[r] # << >>
    PROVE  /\ queue \in [Replica -> Seq(Task)] /\ queue[r] \in Seq(Task)
           /\ Head(queue[r]) = queue[r][1] /\ Head(queue[r]) \in Task /\ 1 \in 1..Len(queue[r])
           /\ Head(queue[r]).id \in RequestId /\ Head(queue[r]).retry_count \in 0..RETRY_LIMIT
           /\ [queue EXCEPT ![r] = Tail(@)] \in [Replica -> Seq(Task)]
<1>1. queue \in [Replica -> Seq(Task)] /\ queue[r] \in Seq(Task)
  BY DEF TypeInv, TypeOK
<1>2. /\ Head(queue[r]) = queue[r][1] /\ 1 \in 1..Len(queue[r])
      /\ Head(queue[r]) \in Task /\ Tail(queue[r]) \in Seq(Task)
  BY <1>1, HeadTailProperties
<1>3. [queue EXCEPT ![r] = Tail(@)] \in [Replica -> Seq(Task)]
  BY <1>1, <1>2
<1>4. QED
  BY <1>1, <1>2, <1>3 DEF Task

\* Stores of sound entries have the types of TypeOK.
LEMMA SoundStores ==
    ASSUME NEW store \in [Replica -> [Key -> Entry]]
    PROVE  \A r \in Replica, key \in Key : /\ store[r][key].lat \in Nat
                                           /\ store[r][key].versions \in Seq([timestamp : Nat, value : Value])
<1>1. \A r \in Replica, key \in Key : store[r][key] \in Entry
  OBVIOUS
<1>2. QED
  BY <1>1 DEF Entry, Version

LEMMA TypeDecide == ASSUME TypeInv, Decide PROVE TypeInv'
<1>1. PICK id \in proposed : decided' = Append(decided, id)
  BY DEF Decide
<1>2. proposed' = {} /\ UNCHANGED <<applied, kvstore, request_id_map, queue, aborted, responses, rejected>>
  BY DEF Decide
<1>3. decided \in Seq(RequestId) /\ id \in RequestId /\ Len(decided) \in Nat
  BY DEF TypeInv, TypeOK
<1>4. decided' \in Seq(RequestId) /\ Len(decided') = Len(decided) + 1
  BY <1>1, <1>3
<1>5. applied' \in [Replica -> 0..Len(decided')]
  <2>1. applied \in [Replica -> 0..Len(decided)]
    BY DEF TypeInv, TypeOK
  <2>2. 0..Len(decided) \subseteq 0..Len(decided')
    BY <1>3, <1>4
  <2>3. QED
    BY <2>1, <2>2, <1>2
<1>6. QED
  BY <1>2, <1>4, <1>5 DEF TypeInv, TypeOK

LEMMA TypeApply == ASSUME TypeInv, NEW r \in Replica, Apply(r) PROVE TypeInv'
<1> DEFINE index == applied[r] + 1
           id == decided[index]
<1>1. /\ index <= Len(decided) /\ applied' = [applied EXCEPT ![r] = index]
      /\ Remember(r, id, index)
      /\ ApplyRead(r, id) \/ ApplyWrite(r, id)
      /\ UNCHANGED <<decided, proposed, queue, responses, rejected>>
  BY DEF Apply
<1>2. /\ decided \in Seq(RequestId) /\ Len(decided) \in Nat /\ applied \in [Replica -> 0..Len(decided)]
      /\ index \in 1..Len(decided) /\ applied' \in [Replica -> 0..Len(decided)]
  BY <1>1 DEF TypeInv, TypeOK
<1>3. id \in RequestId
  BY <1>2, ElementOfSeq
<1> HIDE DEF index, id
<1>4. DOMAIN request_id_map' = Replica /\ \A s \in Replica : DOMAIN request_id_map'[s] \subseteq RequestId
  <2>1. DOMAIN request_id_map = Replica /\ \A s \in Replica : DOMAIN request_id_map[s] \subseteq RequestId
    BY DEF TypeInv, TypeOK
  <2>2. request_id_map' = [request_id_map EXCEPT ![r] =
            [i \in DOMAIN request_id_map[r] \cup {id} |->
                IF i \in DOMAIN request_id_map[r] THEN request_id_map[r][i] ELSE index]]
    BY <1>1 DEF Remember
  <2>3. QED
    BY <2>1, <2>2, <1>3
<1>5. /\ kvstore' \in [Replica -> [Key -> Entry]]
      /\ \A s \in Replica, key \in Key : Sound(kvstore'[s][key])
      /\ aborted' \in [Replica -> BOOLEAN]
  <2>1. /\ kvstore \in [Replica -> [Key -> Entry]]
        /\ \A s \in Replica, key \in Key : Sound(kvstore[s][key])
        /\ aborted \in [Replica -> BOOLEAN]
    BY DEF TypeInv, TypeOK
  <2>2. CASE ApplyRead(r, id)
    BY <2>1, <2>2, <1>3, StoreRead DEF ApplyRead
  <2>3. CASE ApplyWrite(r, id)
    <3>1. CASE NotInThePast(EntryOf(r, id), Request[id].timestamp)
      <4>1. kvstore' = AfterWrite(r, id) /\ aborted' = aborted
        BY <2>3, <3>1 DEF ApplyWrite
      <4>2. /\ kvstore' \in [Replica -> [Key -> Entry]]
            /\ \A s \in Replica, key \in Key : Sound(kvstore'[s][key])
        BY <4>1, <3>1, <1>3, StoreWrite
      <4>3. QED
        BY <4>1, <4>2, <2>1
    <3>2. CASE ~NotInThePast(EntryOf(r, id), Request[id].timestamp)
      <4>1. kvstore' = kvstore /\ aborted' = [aborted EXCEPT ![r] = TRUE]
        BY <2>3, <3>2 DEF ApplyWrite
      <4>2. aborted' \in [Replica -> BOOLEAN]
        BY <4>1, <2>1
      <4>3. QED
        BY <4>1, <4>2, <2>1
    <3>3. QED
      BY <3>1, <3>2
  <2>4. QED
    BY <2>2, <2>3, <1>1
<1>6. QED
  BY <1>1, <1>2, <1>4, <1>5, SoundStores DEF TypeInv, TypeOK

LEMMA TypeHandle ==
    ASSUME TypeInv, NEW r \in Replica, NEW id \in RequestId, HandleRequest(r, id)
    PROVE  TypeInv'
<1> DEFINE task == [id |-> id, retry_count |-> 0]
<1>1. /\ queue' = [queue EXCEPT ![r] = Append(@, task)]
      /\ UNCHANGED <<decided, proposed, applied, kvstore, request_id_map, aborted, responses, rejected>>
  BY DEF HandleRequest
<1>2. task \in Task
  BY BoundAssumption DEF Task
<1>3. queue' \in [Replica -> Seq(Task)]
  BY <1>1, <1>2 DEF TypeInv, TypeOK
<1>4. QED
  BY <1>1, <1>3 DEF TypeInv, TypeOK

LEMMA TypeFulfilled == ASSUME TypeInv, NEW r \in Replica, Fulfilled(r) PROVE TypeInv'
<1> DEFINE id == Head(queue[r]).id
           value == read_value(EntryOf(r, id), Request[id].timestamp)
<1>1. /\ queue[r] # << >>
      /\ \/ IsWrite(id) /\ Respond(r, "SUCCESS", NoValue) /\ UNCHANGED kvstore
         \/ /\ IsRead(id)
            /\ Respond(r, IF value = NoValue THEN "ERROR" ELSE "SUCCESS", value)
            /\ kvstore' = AfterRead(r, id)
      /\ UNCHANGED <<decided, proposed, applied, request_id_map, aborted, rejected>>
  BY DEF Fulfilled, Running
<1>2. id \in RequestId /\ [queue EXCEPT ![r] = Tail(@)] \in [Replica -> Seq(Task)]
  BY <1>1, QueueParts
<1> HIDE DEF id
<1>3. /\ kvstore' \in [Replica -> [Key -> Entry]]
      /\ \A s \in Replica, key \in Key : Sound(kvstore'[s][key])
  <2>1. CASE kvstore' = kvstore
    BY <2>1 DEF TypeInv
  <2>2. CASE kvstore' = AfterRead(r, id)
    BY <2>2, <1>2, StoreRead
  <2>3. QED
    BY <2>1, <2>2, <1>1
<1>4. value \in Value \cup {NoValue}
  <2>1. Sound(EntryOf(r, id)) /\ Request[id].timestamp \in Nat
    BY <1>2, RequestParts DEF TypeInv, EntryOf
  <2>2. QED
    BY <2>1, SoundRead
<1> HIDE DEF value
<1>5. PICK code \in {"SUCCESS", "ERROR"}, v \in Value \cup {NoValue} : Respond(r, code, v)
  BY <1>1, <1>4
<1>6. queue' \in [Replica -> Seq(Task)] /\ responses' \subseteq Response
  BY <1>2, <1>5 DEF Respond, id, TypeInv, TypeOK, Response
<1>7. QED
  BY <1>1, <1>3, <1>6, SoundStores DEF TypeInv, TypeOK

LEMMA TypeGiveUp == ASSUME TypeInv, NEW r \in Replica, GiveUp(r) PROVE TypeInv'
<1>1. /\ queue[r] # << >> /\ Respond(r, "ERROR", NoValue)
      /\ UNCHANGED <<decided, proposed, applied, kvstore, request_id_map, aborted, rejected>>
  BY DEF GiveUp, Running
<1>2. Head(queue[r]).id \in RequestId /\ [queue EXCEPT ![r] = Tail(@)] \in [Replica -> Seq(Task)]
  BY <1>1, QueueParts
<1>3. queue' \in [Replica -> Seq(Task)] /\ responses' \subseteq Response
  BY <1>1, <1>2 DEF Respond, TypeInv, TypeOK, Response
<1>4. QED
  BY <1>1, <1>3 DEF TypeInv, TypeOK

LEMMA TypeReject == ASSUME TypeInv, NEW r \in Replica, Reject(r) PROVE TypeInv'
<1>1. /\ queue[r] # << >> /\ Respond(r, "ERROR", NoValue) /\ rejected' = rejected \cup {Head(queue[r]).id}
      /\ UNCHANGED <<decided, proposed, applied, kvstore, request_id_map, aborted>>
  BY DEF Reject, Running
<1>2. Head(queue[r]).id \in RequestId /\ [queue EXCEPT ![r] = Tail(@)] \in [Replica -> Seq(Task)]
  BY <1>1, QueueParts
<1>3. queue' \in [Replica -> Seq(Task)] /\ responses' \subseteq Response /\ rejected' \subseteq RequestId
  BY <1>1, <1>2 DEF Respond, TypeInv, TypeOK, Response
<1>4. QED
  BY <1>1, <1>3 DEF TypeInv, TypeOK

LEMMA TypePropose == ASSUME TypeInv, NEW r \in Replica, Propose(r) PROVE TypeInv'
<1> DEFINE id == Head(queue[r]).id
           task == NextTry(queue[r][1])
<1>1. /\ queue[r] # << >> /\ Head(queue[r]).retry_count # RETRY_LIMIT
      /\ proposed' = IF applied[r] = Len(decided) THEN proposed \cup {id} ELSE proposed
      /\ queue' = [queue EXCEPT ![r][1] = NextTry(@)]
      /\ UNCHANGED <<decided, applied, kvstore, request_id_map, aborted, responses, rejected>>
  BY DEF Propose, Running, OutOfRetries
<1>2. /\ queue \in [Replica -> Seq(Task)] /\ queue[r] \in Seq(Task) /\ id \in RequestId
      /\ queue[r][1] \in Task /\ 1 \in 1..Len(queue[r]) /\ queue[r][1].retry_count # RETRY_LIMIT
  BY <1>1, QueueParts
<1>3. task \in Task
  BY <1>2, BoundAssumption DEF NextTry, Task
<1>4. queue' = [queue EXCEPT ![r] = [queue[r] EXCEPT ![1] = task]]
  BY <1>1, <1>2
<1> HIDE DEF task, id
<1>5. [queue[r] EXCEPT ![1] = task] \in Seq(Task)
  BY <1>2, <1>3, ExceptSeq
<1>6. queue' \in [Replica -> Seq(Task)]
  BY <1>2, <1>4, <1>5
<1>7. proposed' \subseteq RequestId
  BY <1>1, <1>2 DEF TypeInv, TypeOK
<1>8. QED
  BY <1>1, <1>6, <1>7 DEF TypeInv, TypeOK

LEMMA TypeStep == TypeInv /\ [Next]_vars => TypeInv'
<1> SUFFICES ASSUME TypeInv, [Next]_vars PROVE TypeInv'
  OBVIOUS
<1>1. CASE UNCHANGED vars
  BY <1>1 DEF vars, TypeInv, TypeOK
<1>2. ASSUME NEW r \in Replica, RunTask(r) PROVE TypeInv'
  BY <1>2, TypeFulfilled, TypeGiveUp, TypeReject, TypePropose DEF RunTask
<1>3. QED
  BY <1>1, <1>2, TypeDecide, TypeApply, TypeHandle DEF Next

\* The fields of the replicas, the log and the histories keep their types; in particular
\* no task is proposed more than RETRY_LIMIT times.
THEOREM TypeCorrect == Spec => []TypeOK
<1>1. TypeInv => TypeOK
  BY DEF TypeInv
<1>2. QED
  BY <1>1, TypeInit, TypeStep, PTL DEF Spec

-----------------------------------------------------------------------------
(* The stores that the log makes.  The store of a replica depends on how   *)
(* much of the log it has applied, and on nothing else, if every read in   *)
(* the log is of a key that exists by then: executed again, it changes     *)
(* nothing and returns what it returned before.                            *)

\* The initial log consists of writes, in order, that create every key.
KeysExist ==
    /\ \A i \in 1..Len(InitialLog) : IsWrite(InitialLog[i])
    /\ \A key \in Key : \E i \in 1..Len(InitialLog) : Request[InitialLog[i]].key = key
    /\ \A i, j \in 1..Len(InitialLog) :
           i < j /\ Request[InitialLog[i]].key = Request[InitialLog[j]].key =>
               Request[InitialLog[i]].timestamp < Request[InitialLog[j]].timestamp

\* The callback for id, on one store.
Perform(store, id) ==
    [store EXCEPT ![Request[id].key] =
        IF IsRead(id) THEN read_entry(@, Request[id].timestamp)
        ELSE write(@, Request[id].value, Request[id].timestamp)]

\* A read of a key that exists, or a write that is not to the past.
Fits(store, id) ==
    IF IsRead(id) THEN Exists(store[Request[id].key])
    ELSE NotInThePast(store[Request[id].key], Request[id].timestamp)

\* h[k] is the store after the first k entries of the log.
History(h, log) ==
    /\ h \in [0..Len(log) -> [Key -> Entry]]
    /\ \A k \in 0..Len(log), key \in Key : Sound(h[k][key])
    /\ h[0] = [key \in Key |-> NoEntry]
    /\ \A k \in 1..Len(log) : Fits(h[k - 1], log[k]) /\ h[k] = Perform(h[k - 1], log[k])
    /\ \A j, k \in 0..Len(log) : j <= k => \A key \in Key : Follows(h[k][key], h[j][key])

\* The history of a log with one more entry.
Extended(h, n, id) == [k \in 0..(n + 1) |-> IF k = n + 1 THEN Perform(h[n], id) ELSE h[k]]

\* What a callback does to a store.
LEMMA PerformFacts ==
    ASSUME NEW store \in [Key -> Entry], \A key \in Key : Sound(store[key]),
           NEW id \in RequestId, Fits(store, id)
    PROVE  LET new == Perform(store, id)
               k == Request[id].key
           IN /\ new \in [Key -> Entry]
              /\ \A key \in Key : Sound(new[key]) /\ Follows(new[key], store[key])
              /\ \A key \in Key \ {k} : new[key] = store[key]
              /\ k \in Key /\ Exists(new[k])
              /\ IsRead(id) => Request[id].timestamp <= new[k].lat
              /\ IsWrite(id) => Request[id].timestamp = new[k].lat
<1> DEFINE k == Request[id].key
           ts == Request[id].timestamp
           value == Request[id].value
           e == IF IsRead(id) THEN read_entry(store[k], ts) ELSE write(store[k], value, ts)
           new == Perform(store, id)
<1>1. k \in Key /\ ts \in Nat /\ value \in Value /\ (IsRead(id) <=> ~IsWrite(id))
  BY RequestParts
<1>2. /\ Sound(e) /\ Follows(e, store[k]) /\ Exists(e)
      /\ IsRead(id) => ts <= e.lat
      /\ IsWrite(id) => ts = e.lat
  <2>1. Sound(store[k])
    BY <1>1
  <2>2. CASE IsRead(id)
    <3>1. Exists(store[k]) /\ e = read_entry(store[k], ts)
      BY <2>2 DEF Fits
    <3> HIDE DEF k, ts, e
    <3>2. QED
      BY <2>1, <2>2, <3>1, <1>1, SoundRead
  <2>3. CASE ~IsRead(id)
    <3>1. NotInThePast(store[k], ts) /\ e = write(store[k], value, ts)
      BY <2>3 DEF Fits
    <3> HIDE DEF k, ts, e, value
    <3>2. Sound(e) /\ Exists(e) /\ e.lat = ts /\ Follows(e, store[k])
      BY <2>1, <3>1, <1>1, SoundWrite
    <3>3. QED
      BY <2>3, <3>2
  <2>4. QED
    BY <2>2, <2>3
<1>3. new = [store EXCEPT ![k] = e]
  BY <1>1 DEF Perform
<1> HIDE DEF k, ts, value, e, new
<1>4. e \in Entry
  BY <1>2 DEF Sound
<1>5. new \in [Key -> Entry] /\ new[k] = e /\ \A key \in Key \ {k} : new[key] = store[key]
  BY <1>1, <1>3, <1>4
<1>6. ASSUME NEW key \in Key PROVE Sound(new[key]) /\ Follows(new[key], store[key])
  <2>1. CASE key = k
    BY <2>1, <1>2, <1>5
  <2>2. CASE key # k
    BY <2>2, <1>5, FollowsItself
  <2>3. QED
    BY <2>1, <2>2
<1>7. QED
  BY <1>1, <1>2, <1>5, <1>6 DEF k, ts, new

LEMMA HistoryExtends ==
    ASSUME NEW log \in Seq(RequestId), NEW h, History(h, log), NEW id \in RequestId,
           Fits(h[Len(log)], id)
    PROVE  /\ History(Extended(h, Len(log), id), Append(log, id))
           /\ \A k \in 0..Len(log) : Extended(h, Len(log), id)[k] = h[k]
           /\ Extended(h, Len(log), id)[Len(log) + 1] = Perform(h[Len(log)], id)
<1> DEFINE n == Len(log)
           new == Append(log, id)
           x == Extended(h, n, id)
           last == Perform(h[n], id)
<1>1. /\ n \in Nat /\ n \in 0..n /\ Len(new) = n + 1 /\ new[n + 1] = id
      /\ \A k \in 1..n : new[k] = log[k]
  OBVIOUS
<1>2. /\ h \in [0..n -> [Key -> Entry]]
      /\ \A k \in 0..n, key \in Key : Sound(h[k][key])
      /\ h[0] = [key \in Key |-> NoEntry]
      /\ \A k \in 1..n : Fits(h[k - 1], log[k]) /\ h[k] = Perform(h[k - 1], log[k])
      /\ \A j, k \in 0..n : j <= k => \A key \in Key : Follows(h[k][key], h[j][key])
      /\ Fits(h[n], id)
  BY DEF History
<1> HIDE DEF n, new
<1>3. last \in [Key -> Entry] /\ \A key \in Key : Sound(last[key]) /\ Follows(last[key], h[n][key])
  <2>1. h[n] \in [Key -> Entry] /\ \A key \in Key : Sound(h[n][key])
    BY <1>1, <1>2
  <2>2. QED
    BY <2>1, <1>2, PerformFacts
<1> HIDE DEF last
<1>4. /\ \A k \in 0..n : x[k] = h[k]
      /\ x[n + 1] = last
      /\ x \in [0..(n + 1) -> [Key -> Entry]]
  BY <1>1, <1>2, <1>3 DEF Extended, last
<1> HIDE DEF x
<1>5. \A k \in 0..(n + 1), key \in Key : Sound(x[k][key])
  BY <1>1, <1>2, <1>3, <1>4
<1>6. x[0] = [key \in Key |-> NoEntry]
  BY <1>1, <1>2, <1>4
<1>7. ASSUME NEW k \in 1..(n + 1) PROVE Fits(x[k - 1], new[k]) /\ x[k] = Perform(x[k - 1], new[k])
  <2>1. CASE k \in 1..n
    <3>1. k - 1 \in 0..n /\ k \in 0..n
      BY <2>1, <1>1
    <3>2. QED
      BY <3>1, <2>1, <1>1, <1>2, <1>4
  <2>2. CASE k = n + 1
    <3>1. k - 1 = n /\ x[k - 1] = h[n] /\ new[k] = id
      BY <2>2, <1>1, <1>4
    <3>2. QED
      BY <3>1, <2>2, <1>2, <1>4 DEF last
  <2>3. QED
    BY <2>1, <2>2, <1>1
<1>8. ASSUME NEW j \in 0..(n + 1), NEW k \in 0..(n + 1), j <= k, NEW key \in Key
      PROVE  Follows(x[k][key], x[j][key])
  <2>1. CASE k \in 0..n
    <3>1. j \in 0..n
      BY <2>1, <1>8, <1>1
    <3>2. QED
      BY <3>1, <2>1, <1>8, <1>2, <1>4
  <2>2. CASE k = n + 1 /\ j \in 0..n
    <3>1. Follows(h[n][key], h[j][key])
      BY <2>2, <1>1, <1>2
    <3>2. Sound(last[key]) /\ Sound(h[n][key]) /\ Sound(h[j][key]) /\ Follows(last[key], h[n][key])
      BY <2>2, <1>1, <1>2, <1>3
    <3>3. Follows(last[key], h[j][key])
      BY <3>1, <3>2, FollowsOn
    <3>4. QED
      BY <3>3, <2>2, <1>4
  <2>3. CASE k = n + 1 /\ j = n + 1
    BY <2>3, <1>3, <1>4, FollowsItself
  <2>4. QED
    BY <2>1, <2>2, <2>3, <1>1
<1>9. History(x, new)
  BY <1>1, <1>4, <1>5, <1>6, <1>7, <1>8 DEF History
<1>10. QED
  BY <1>4, <1>9 DEF n, new, x, last

-----------------------------------------------------------------------------
(* The initial log has a history.                                          *)

\* The first n entries of the initial log.
Prefix(n) == SubSeq(InitialLog, 1, n)

\* They have a history, and the last access of a key is by a write among them.
PrefixGood(n) ==
    \E h : /\ History(h, Prefix(n))
           /\ \A key \in Key :
                  /\ \A i \in 1..n : Request[InitialLog[i]].key = key => Exists(h[n][key])
                  /\ Exists(h[n][key]) => \E i \in 1..n : /\ Request[InitialLog[i]].key = key
                                                          /\ Request[InitialLog[i]].timestamp = h[n][key].lat

LEMMA PrefixFacts ==
    ASSUME NEW n \in 0..Len(InitialLog)
    PROVE  /\ Prefix(n) \in Seq(RequestId) /\ Len(Prefix(n)) = n
           /\ \A i \in 1..n : Prefix(n)[i] = InitialLog[i]
           /\ n < Len(InitialLog) => Prefix(n + 1) = Append(Prefix(n), InitialLog[n + 1])
           /\ n = Len(InitialLog) => Prefix(n) = InitialLog
           /\ \A i \in 1..Len(InitialLog) : InitialLog[i] \in RequestId
<1>1. InitialLog \in Seq(RequestId) /\ Len(InitialLog) \in Nat
  BY InitialLogAssumption
<1>2. /\ Prefix(n) \in Seq(RequestId) /\ Len(Prefix(n)) = n
      /\ \A i \in 1..n : Prefix(n)[i] = InitialLog[i]
  BY <1>1 DEF Prefix
<1>3. \A i \in 1..Len(InitialLog) : InitialLog[i] \in RequestId
  BY <1>1, ElementOfSeq
<1>4. ASSUME n < Len(InitialLog) PROVE Prefix(n + 1) = Append(Prefix(n), InitialLog[n + 1])
  <2> DEFINE a == Prefix(n + 1)
             b == Append(Prefix(n), InitialLog[n + 1])
  <2>1. /\ a \in Seq(RequestId) /\ Len(a) = n + 1
        /\ \A i \in 1..(n + 1) : a[i] = InitialLog[i]
    BY <1>1, <1>4 DEF Prefix
  <2>2. /\ b \in Seq(RequestId) /\ Len(b) = n + 1
        /\ \A i \in 1..(n + 1) : b[i] = InitialLog[i]
    BY <1>1, <1>2, <1>3, <1>4
  <2> HIDE DEF a, b
  <2>3. a = b
    BY <2>1, <2>2, SeqEqual
  <2>4. QED
    BY <2>3 DEF a, b
<1>5. ASSUME n = Len(InitialLog) PROVE Prefix(n) = InitialLog
  BY <1>1, <1>2, <1>5, SeqEqual
<1>6. QED
  BY <1>2, <1>3, <1>4, <1>5

LEMMA PrefixEmpty == PrefixGood(0)
<1> DEFINE h == [k \in 0..0 |-> [key \in Key |-> NoEntry]]
<1>1. 0 \in 0..Len(InitialLog) /\ Len(InitialLog) \in Nat
  BY InitialLogAssumption
<1>2. Len(Prefix(0)) = 0
  BY <1>1, PrefixFacts
<1>3. Sound(NoEntry) /\ NoEntry \in Entry /\ ~Exists(NoEntry)
  BY SoundEmpty DEF Sound
<1>4. h[0] = [key \in Key |-> NoEntry] /\ h \in [0..0 -> [Key -> Entry]]
  BY <1>3
<1> HIDE DEF h
<1>5. \A key \in Key : h[0][key] = NoEntry
  BY <1>4
<1>6. \A k \in 0..0 : k = 0
  OBVIOUS
<1>7. \A k \in 0..0, key \in Key : Sound(h[k][key])
  BY <1>3, <1>5, <1>6
<1>8. \A j, k \in 0..0 : j <= k => \A key \in Key : Follows(h[k][key], h[j][key])
  BY <1>3, <1>5, <1>6, FollowsItself
<1>9. 1..0 = {}
  OBVIOUS
<1>10. History(h, Prefix(0))
  BY <1>2, <1>4, <1>7, <1>8, <1>9 DEF History
<1>11. QED
  BY <1>3, <1>5, <1>9, <1>10 DEF PrefixGood

LEMMA PrefixGrows ==
    ASSUME KeysExist, NEW n \in 0..Len(InitialLog), n < Len(InitialLog), PrefixGood(n)
    PROVE  PrefixGood(n + 1)
<1> DEFINE id == InitialLog[n + 1]
           k == Request[id].key
<1>1. PICK h : /\ History(h, Prefix(n))
               /\ \A key \in Key :
                    /\ \A i \in 1..n : Request[InitialLog[i]].key = key => Exists(h[n][key])
                    /\ Exists(h[n][key]) => \E i \in 1..n : /\ Request[InitialLog[i]].key = key
                                                            /\ Request[InitialLog[i]].timestamp = h[n][key].lat
  BY DEF PrefixGood
<1>2. /\ n \in Nat /\ Len(InitialLog) \in Nat /\ n + 1 \in 1..Len(InitialLog)
      /\ Prefix(n) \in Seq(RequestId) /\ Len(Prefix(n)) = n
      /\ Prefix(n + 1) = Append(Prefix(n), id)
      /\ \A i \in 1..Len(InitialLog) : InitialLog[i] \in RequestId
  BY InitialLogAssumption, PrefixFacts
<1>3. id \in RequestId /\ IsWrite(id) /\ ~IsRead(id) /\ k \in Key /\ Request[id].timestamp \in Nat
  <2>1. id \in RequestId /\ IsWrite(id)
    BY <1>2 DEF KeysExist
  <2>2. QED
    BY <2>1, RequestParts
<1>4. Fits(h[n], id)
  <2> SUFFICES ASSUME Exists(h[n][k]) PROVE h[n][k].lat < Request[id].timestamp
    BY <1>3 DEF Fits, NotInThePast
  <2>1. PICK i \in 1..n : Request[InitialLog[i]].key = k /\ Request[InitialLog[i]].timestamp = h[n][k].lat
    BY <1>1, <1>3
  <2>2. i \in 1..Len(InitialLog) /\ i < n + 1
    BY <1>2
  <2>3. Request[InitialLog[i]].timestamp < Request[InitialLog[n + 1]].timestamp
    BY <2>1, <2>2, <1>2 DEF KeysExist
  <2>4. QED
    BY <2>1, <2>3
<1> DEFINE x == Extended(h, n, id)
<1>5. History(x, Prefix(n + 1)) /\ x[n + 1] = Perform(h[n], id)
  <2> DEFINE log == Prefix(n)
  <2>1. log \in Seq(RequestId) /\ Len(log) = n /\ History(h, log)
    BY <1>1, <1>2
  <2> HIDE DEF log, id
  <2>2. /\ History(Extended(h, Len(log), id), Append(log, id))
        /\ Extended(h, Len(log), id)[Len(log) + 1] = Perform(h[Len(log)], id)
    BY <2>1, <1>3, <1>4, HistoryExtends
  <2>3. QED
    BY <2>1, <2>2, <1>2 DEF log
<1>6. /\ x[n + 1] \in [Key -> Entry]
      /\ \A key \in Key \ {k} : x[n + 1][key] = h[n][key]
      /\ Exists(x[n + 1][k]) /\ x[n + 1][k].lat = Request[id].timestamp
  <2>1. h[n] \in [Key -> Entry] /\ \A key \in Key : Sound(h[n][key])
    BY <1>1, <1>2 DEF History
  <2>2. QED
    BY <2>1, <1>3, <1>4, <1>5, PerformFacts
<1> HIDE DEF x
<1>7. ASSUME NEW key \in Key
      PROVE  /\ \A i \in 1..(n + 1) : Request[InitialLog[i]].key = key => Exists(x[n + 1][key])
             /\ Exists(x[n + 1][key]) => \E i \in 1..(n + 1) :
                    /\ Request[InitialLog[i]].key = key
                    /\ Request[InitialLog[i]].timestamp = x[n + 1][key].lat
  <2>1. CASE key = k
    <3>1. n + 1 \in 1..(n + 1)
      BY <1>2
    <3>2. QED
      BY <3>1, <2>1, <1>6
  <2>2. CASE key # k
    <3>1. x[n + 1][key] = h[n][key]
      BY <2>2, <1>6
    <3>2. \A i \in 1..(n + 1) : i \in 1..n \/ i = n + 1
      BY <1>2
    <3>3. \A i \in 1..n : i \in 1..(n + 1)
      BY <1>2
    <3>4. QED
      BY <3>1, <3>2, <3>3, <2>2, <1>1
  <2>3. QED
    BY <2>1, <2>2
<1>8. QED
  BY <1>5, <1>7 DEF PrefixGood

LEMMA InitialHistory ==
    ASSUME KeysExist
    PROVE  \E h : History(h, InitialLog) /\ \A key \in Key : Exists(h[Len(InitialLog)][key])
<1> DEFINE T == {n \in 0..Len(InitialLog) : ~PrefixGood(n)}
<1>1. Len(InitialLog) \in Nat
  BY InitialLogAssumption
<1>2. T = {}
  <2> SUFFICES ASSUME T # {} PROVE FALSE
    OBVIOUS
  <2>1. PICK n \in T : \A y \in T : n <= y
    <3>1. T \in SUBSET Nat
      BY <1>1
    <3> HIDE DEF T
    <3>2. QED
      BY <3>1, BoundAssumption, Store!LeastNumber
  <2>2. n \in 0..Len(InitialLog) /\ ~PrefixGood(n) /\ n # 0
    BY <2>1, PrefixEmpty
  <2>3. n - 1 \in 0..Len(InitialLog) /\ n - 1 < Len(InitialLog) /\ (n - 1) + 1 = n /\ n - 1 \notin T
    BY <2>1, <2>2, <1>1
  <2>4. PrefixGood(n - 1)
    BY <2>3
  <2>5. PrefixGood((n - 1) + 1)
    BY <2>3, <2>4, PrefixGrows
  <2>6. QED
    BY <2>2, <2>3, <2>5
<1>3. PrefixGood(Len(InitialLog)) /\ Prefix(Len(InitialLog)) = InitialLog
  BY <1>1, <1>2, PrefixFacts
<1>4. QED
  BY <1>3 DEF PrefixGood, KeysExist

-----------------------------------------------------------------------------
(* The replicas and the history.                                           *)

\* The request ids a replica knows are of entries it has applied.
MapTrue ==
    \A r \in Replica : \A id \in DOMAIN request_id_map[r] :
        \E i \in 1..applied[r] : decided[i] = id

\* With the history h of the log, every replica's store is the one of what it has
\* applied; what is proposed fits the log, what is rejected never will, and the answers
\* to reads are what the log says.
Consistent(h) ==
    LET last == h[Len(decided)]
    IN /\ History(h, decided)
       /\ \A key \in Key : Exists(last[key])
       /\ \A r \in Replica : kvstore[r] = h[applied[r]] /\ ~aborted[r]
       /\ \A id \in proposed : Fits(last, id)
       /\ \A id \in rejected : IsWrite(id) /\ Request[id].timestamp <= last[Request[id].key].lat
       /\ \A p \in responses : IsRead(p.id) /\ p.code = "SUCCESS" =>
              /\ Request[p.id].timestamp <= last[Request[p.id].key].lat
              /\ p.value = read_value(last[Request[p.id].key], Request[p.id].timestamp)

StoreInv ==
    /\ TypeInv /\ OnceInv /\ MapTrue /\ RejectedNeverCommitted
    /\ \E h : Consistent(h)

LEMMA StoreInit == ASSUME KeysExist PROVE Init => StoreInv
<1> SUFFICES ASSUME Init PROVE StoreInv
  OBVIOUS
<1>1. TypeInv /\ OnceInv
  BY TypeInit, OnceInit
<1>2. MapTrue /\ RejectedNeverCommitted
  BY DEF Init, MapTrue, RejectedNeverCommitted
<1>3. PICK h : History(h, InitialLog) /\ \A key \in Key : Exists(h[Len(InitialLog)][key])
  BY InitialHistory
<1>4. \A r \in Replica : kvstore[r] = h[applied[r]] /\ ~aborted[r]
  BY <1>3 DEF Init, History
<1>5. Consistent(h)
  BY <1>3, <1>4 DEF Init, Consistent
<1>6. QED
  BY <1>1, <1>2, <1>5 DEF StoreInv

\* What TypeInv says of the log and of how much of it is applied.
LEMMA LogParts ==
    ASSUME TypeInv
    PROVE  /\ decided \in Seq(RequestId) /\ Len(decided) \in Nat /\ Len(decided) \in 0..Len(decided)
           /\ \A i \in 1..Len(decided) : decided[i] \in RequestId
           /\ applied \in [Replica -> 0..Len(decided)]
           /\ \A r \in Replica : applied[r] \in Nat /\ applied[r] <= Len(decided)
<1>1. decided \in Seq(RequestId) /\ applied \in [Replica -> 0..Len(decided)]
  BY DEF TypeInv, TypeOK
<1>2. QED
  BY <1>1, ElementOfSeq

\* A read that is in the log changes nothing when it is executed again, on any of the
\* stores after it.
LEMMA ReadsSettled ==
    ASSUME NEW log \in Seq(RequestId), NEW h, History(h, log),
           NEW i \in 1..Len(log), IsRead(log[i]), NEW k \in 0..Len(log), i <= k
    PROVE  LET key == Request[log[i]].key
               ts == Request[log[i]].timestamp
           IN Exists(h[k][key]) /\ ts <= h[k][key].lat /\ read_entry(h[k][key], ts) = h[k][key]
<1> DEFINE id == log[i]
           key == Request[id].key
           ts == Request[id].timestamp
<1>1. id \in RequestId /\ Len(log) \in Nat
  BY ElementOfSeq
<1>2. key \in Key /\ ts \in Nat /\ i \in 0..Len(log) /\ i - 1 \in 0..Len(log)
  BY <1>1, RequestParts
<1>3. /\ \A j \in 0..Len(log) : h[j] \in [Key -> Entry] /\ \A x \in Key : Sound(h[j][x])
      /\ Fits(h[i - 1], id) /\ h[i] = Perform(h[i - 1], id)
      /\ Follows(h[k][key], h[i][key])
  BY <1>1, <1>2 DEF History
<1>4. Exists(h[i][key]) /\ ts <= h[i][key].lat
  <2>1. h[i - 1] \in [Key -> Entry] /\ \A x \in Key : Sound(h[i - 1][x])
    BY <1>2, <1>3
  <2>2. Exists(Perform(h[i - 1], id)[key]) /\ ts <= Perform(h[i - 1], id)[key].lat
    <3>1. IsRead(id)
      OBVIOUS
    <3> HIDE DEF id
    <3>2. QED
      BY <2>1, <3>1, <1>1, <1>3, PerformFacts
  <2>3. QED
    BY <2>2, <1>3
<1>5. Sound(h[i][key]) /\ Sound(h[k][key])
  BY <1>2, <1>3
<1> HIDE DEF ts, key
<1>6. Exists(h[k][key]) /\ ts <= h[k][key].lat
  <2>1. h[i][key].lat \in Nat /\ h[k][key].lat \in Nat
    BY <1>5 DEF Sound, Entry
  <2>2. QED
    BY <2>1, <1>2, <1>3, <1>4 DEF Follows
<1>7. read_entry(h[k][key], ts) = h[k][key]
  BY <1>2, <1>5, <1>6, ReadAgain
<1>8. QED
  BY <1>6, <1>7 DEF ts, key

\* One more entry, which fits.
LEMMA StoreDecide == ASSUME StoreInv, Decide PROVE StoreInv'
<1>1. TypeInv' /\ OnceInv'
  BY TypeDecide, OnceDecide DEF StoreInv
<1>2. PICK id \in proposed : decided' = Append(decided, id)
  BY DEF Decide
<1>3. proposed' = {} /\ UNCHANGED <<applied, kvstore, request_id_map, queue, aborted, responses, rejected>>
  BY DEF Decide
<1>4. PICK h : Consistent(h)
  BY DEF StoreInv
<1> DEFINE n == Len(decided)
           last == h[n]
           new == Perform(last, id)
<1>5. /\ decided \in Seq(RequestId) /\ n \in Nat /\ id \in RequestId /\ n \in 0..n
      /\ applied \in [Replica -> 0..n]
      /\ proposed \subseteq RequestId /\ rejected \subseteq RequestId /\ responses \subseteq Response
  BY LogParts DEF StoreInv, TypeInv, TypeOK
<1>6. /\ Len(decided') = n + 1 /\ decided'[n + 1] = id /\ \A i \in 1..n : decided'[i] = decided[i]
  BY <1>2, <1>5
<1>7. /\ History(h, decided) /\ Fits(last, id)
      /\ \A key \in Key : Exists(last[key])
      /\ last \in [Key -> Entry] /\ \A key \in Key : Sound(last[key])
  BY <1>4, <1>5 DEF Consistent, History
<1>8. PICK x : /\ History(x, decided')
               /\ \A k \in 0..n : x[k] = h[k]
               /\ x[n + 1] = new
  BY <1>2, <1>5, <1>7, HistoryExtends
<1>9. /\ new \in [Key -> Entry]
      /\ \A key \in Key : Sound(new[key]) /\ Follows(new[key], last[key])
  BY <1>5, <1>7, PerformFacts
<1>10. \A key \in Key : /\ Exists(new[key]) /\ last[key].lat \in Nat /\ new[key].lat \in Nat
                        /\ last[key].lat <= new[key].lat
                        /\ \A t \in Nat : t <= last[key].lat => read_value(new[key], t) = read_value(last[key], t)
  BY <1>7, <1>9 DEF Follows, Sound, Entry
<1> HIDE DEF n, new, last
<1>11. Consistent(x)'
  <2>1. \A r \in Replica : kvstore'[r] = x[applied'[r]] /\ ~aborted'[r]
    <3>1. \A r \in Replica : kvstore[r] = h[applied[r]] /\ ~aborted[r] /\ applied[r] \in 0..n
      BY <1>4, <1>5 DEF Consistent
    <3>2. QED
      BY <3>1, <1>3, <1>8
  <2>2. ASSUME NEW w \in rejected
        PROVE  IsWrite(w) /\ Request[w].timestamp <= new[Request[w].key].lat
    <3>1. IsWrite(w) /\ Request[w].timestamp <= last[Request[w].key].lat
      BY <1>4 DEF Consistent, last, n
    <3>2. Request[w].timestamp \in Nat /\ Request[w].key \in Key
      BY <1>5, RequestParts
    <3>3. QED
      BY <3>1, <3>2, <1>10
  <2>3. ASSUME NEW p \in responses, IsRead(p.id), p.code = "SUCCESS"
        PROVE  /\ Request[p.id].timestamp <= new[Request[p.id].key].lat
               /\ p.value = read_value(new[Request[p.id].key], Request[p.id].timestamp)
    <3>1. /\ Request[p.id].timestamp <= last[Request[p.id].key].lat
          /\ p.value = read_value(last[Request[p.id].key], Request[p.id].timestamp)
      BY <2>3, <1>4 DEF Consistent, last, n
    <3>2. p.id \in RequestId
      BY <1>5 DEF Response
    <3>3. Request[p.id].timestamp \in Nat /\ Request[p.id].key \in Key
      BY <3>2, RequestParts
    <3>4. QED
      BY <3>1, <3>3, <1>10
  <2>4. \A key \in Key : Exists(new[key])
    BY <1>10
  <2>5. proposed' = {} /\ rejected' = rejected /\ responses' = responses
    BY <1>3
  <2>6. x[Len(decided')] = new
    BY <1>6, <1>8
  <2>7. QED
    BY <2>1, <2>2, <2>3, <2>4, <2>5, <2>6, <1>8 DEF Consistent
<1>12. MapTrue'
  <2> SUFFICES ASSUME NEW r \in Replica, NEW k \in DOMAIN request_id_map[r]
               PROVE  \E i \in 1..applied[r] : decided'[i] = k
    BY <1>3 DEF MapTrue
  <2>1. PICK i \in 1..applied[r] : decided[i] = k
    BY DEF StoreInv, MapTrue
  <2>2. i \in 1..n
    BY <1>5
  <2>3. QED
    BY <2>1, <2>2, <1>6
<1>13. RejectedNeverCommitted'
  <2>1. id \notin rejected
    <3> SUFFICES ASSUME id \in rejected PROVE FALSE
      OBVIOUS
    <3>1. IsWrite(id) /\ Request[id].timestamp <= last[Request[id].key].lat
      BY <1>4 DEF Consistent, last, n
    <3>2. Request[id].key \in Key /\ Request[id].timestamp \in Nat /\ ~IsRead(id)
      BY <3>1, <1>5, RequestParts
    <3>3. last[Request[id].key].lat < Request[id].timestamp
      BY <3>2, <1>7 DEF Fits, NotInThePast
    <3>4. QED
      BY <3>1, <3>2, <3>3, <1>10
  <2>2. ASSUME NEW i \in 1..(n + 1) PROVE decided'[i] \notin rejected
    <3>1. CASE i \in 1..n
      BY <3>1, <1>6 DEF StoreInv, RejectedNeverCommitted, n
    <3>2. CASE i = n + 1
      BY <3>2, <2>1, <1>6
    <3>3. QED
      BY <3>1, <3>2, <1>5
  <2>3. QED
    BY <2>2, <1>3, <1>6 DEF RejectedNeverCommitted
<1>14. QED
  BY <1>1, <1>11, <1>12, <1>13 DEF StoreInv

\* A callback takes the replica to the next store of the history, and no write is to the
\* past.
LEMMA StoreApply == ASSUME StoreInv, NEW r \in Replica, Apply(r) PROVE StoreInv'
<1>1. TypeInv' /\ OnceInv'
  BY TypeApply, OnceApply DEF StoreInv
<1> DEFINE a == applied[r]
           id == decided[a + 1]
<1>2. /\ a + 1 <= Len(decided) /\ applied' = [applied EXCEPT ![r] = a + 1]
      /\ Remember(r, id, a + 1)
      /\ ApplyRead(r, id) \/ ApplyWrite(r, id)
      /\ UNCHANGED <<decided, proposed, queue, responses, rejected>>
  BY DEF Apply
<1>3. PICK h : Consistent(h)
  BY DEF StoreInv
<1>4. /\ decided \in Seq(RequestId) /\ Len(decided) \in Nat /\ a \in Nat
      /\ a \in 0..Len(decided) /\ a + 1 \in 1..Len(decided) /\ applied \in [Replica -> 0..Len(decided)]
      /\ id \in RequestId
  BY <1>2, LogParts DEF StoreInv
<1>5. Request[id].key \in Key /\ (IsRead(id) <=> ~IsWrite(id))
  BY <1>4, RequestParts
<1>6. Fits(h[a], id) /\ h[a + 1] = Perform(h[a], id) /\ kvstore[r] = h[a] /\ h[a] \in [Key -> Entry]
  <2>1. (a + 1) - 1 = a
    BY <1>4
  <2>2. Fits(h[(a + 1) - 1], id) /\ h[a + 1] = Perform(h[(a + 1) - 1], id)
    BY <1>3, <1>4 DEF Consistent, History
  <2>3. QED
    BY <2>1, <2>2, <1>3, <1>4 DEF Consistent, History
<1> HIDE DEF a, id
<1>7. EntryOf(r, id) = h[a][Request[id].key]
  BY <1>6 DEF EntryOf
<1>8. kvstore'[r] = h[a + 1] /\ (\A s \in Replica \ {r} : kvstore'[s] = kvstore[s]) /\ aborted' = aborted
  <2>1. TypeInv
    BY DEF StoreInv
  <2>2. CASE IsRead(id)
    <3>1. kvstore' = AfterRead(r, id) /\ aborted' = aborted
      BY <2>2, <1>2, <1>5 DEF ApplyRead, ApplyWrite
    <3>2. /\ kvstore'[r] = [kvstore[r] EXCEPT ![Request[id].key] =
                                read_entry(EntryOf(r, id), Request[id].timestamp)]
          /\ \A s \in Replica \ {r} : kvstore'[s] = kvstore[s]
      <4>1. id \in RequestId
        BY <1>4
      <4>2. QED
        BY <4>1, <3>1, <2>1, StoreRead
    <3>3. Perform(h[a], id) = [h[a] EXCEPT ![Request[id].key] = read_entry(h[a][Request[id].key], Request[id].timestamp)]
      BY <2>2, <1>5, <1>6 DEF Perform
    <3>4. QED
      BY <3>1, <3>2, <3>3, <1>6, <1>7
  <2>3. CASE ~IsRead(id)
    <3>1. NotInThePast(EntryOf(r, id), Request[id].timestamp)
      BY <2>3, <1>6, <1>7 DEF Fits
    <3>2. kvstore' = AfterWrite(r, id) /\ aborted' = aborted
      BY <2>3, <3>1, <1>2, <1>5 DEF ApplyRead, ApplyWrite
    <3>3. /\ kvstore'[r] = [kvstore[r] EXCEPT ![Request[id].key] =
                                write(EntryOf(r, id), Request[id].value, Request[id].timestamp)]
          /\ \A s \in Replica \ {r} : kvstore'[s] = kvstore[s]
      <4>1. id \in RequestId
        BY <1>4
      <4>2. QED
        BY <4>1, <3>1, <3>2, <2>1, StoreWrite
    <3>4. Perform(h[a], id) = [h[a] EXCEPT ![Request[id].key] =
                                  write(h[a][Request[id].key], Request[id].value, Request[id].timestamp)]
      BY <2>3, <1>5, <1>6 DEF Perform
    <3>5. QED
      BY <3>2, <3>3, <3>4, <1>6, <1>7
  <2>4. QED
    BY <2>2, <2>3
<1>9. applied'[r] = a + 1 /\ \A s \in Replica \ {r} : applied'[s] = applied[s]
  BY <1>2, <1>4
<1>10. Consistent(h)'
  <2>1. ASSUME NEW s \in Replica PROVE kvstore'[s] = h[applied'[s]] /\ ~aborted'[s]
    <3>1. kvstore[s] = h[applied[s]] /\ ~aborted[s]
      BY <1>3 DEF Consistent
    <3>2. CASE s = r
      BY <3>1, <3>2, <1>8, <1>9
    <3>3. CASE s # r
      BY <3>1, <3>3, <1>8, <1>9
    <3>4. QED
      BY <3>2, <3>3
  <2>2. UNCHANGED <<decided, proposed, responses, rejected>>
    BY <1>2
  <2>3. QED
    BY <2>1, <2>2, <1>3 DEF Consistent
<1>11. MapTrue'
  <2>1. request_id_map' = [request_id_map EXCEPT ![r] =
            [i \in DOMAIN request_id_map[r] \cup {id} |->
                IF i \in DOMAIN request_id_map[r] THEN request_id_map[r][i] ELSE a + 1]]
    BY <1>2 DEF Remember
  <2>2. DOMAIN request_id_map = Replica
    BY DEF StoreInv, TypeInv
  <2>3. ASSUME NEW s \in Replica, NEW k \in DOMAIN request_id_map'[s]
        PROVE  \E i \in 1..applied'[s] : decided[i] = k
    <3>1. CASE s # r
      <4>1. k \in DOMAIN request_id_map[s]
        BY <3>1, <2>1, <2>2, <2>3
      <4>2. QED
        BY <4>1, <3>1, <1>9 DEF StoreInv, MapTrue
    <3>2. CASE s = r /\ k = id
      <4>1. a + 1 \in 1..applied'[s]
        BY <3>2, <1>4, <1>9
      <4>2. QED
        BY <4>1, <3>2 DEF id
    <3>3. CASE s = r /\ k \in DOMAIN request_id_map[r]
      <4>1. PICK i \in 1..a : decided[i] = k
        BY <3>3 DEF StoreInv, MapTrue, a
      <4>2. i \in 1..applied'[s]
        BY <3>3, <1>4, <1>9
      <4>3. QED
        BY <4>1, <4>2
    <3>4. QED
      BY <3>1, <3>2, <3>3, <2>1, <2>2, <2>3
  <2>4. QED
    BY <2>3, <1>2 DEF MapTrue
<1>12. RejectedNeverCommitted'
  BY <1>2 DEF StoreInv, RejectedNeverCommitted
<1>13. QED
  BY <1>1, <1>10, <1>11, <1>12 DEF StoreInv

\* Steps that change only queues and answers leave the history in place.
LEMMA StoreHandle ==
    ASSUME StoreInv, NEW r \in Replica, NEW id \in RequestId, HandleRequest(r, id)
    PROVE  StoreInv'
<1>1. TypeInv' /\ OnceInv'
  BY TypeHandle, OnceHandle DEF StoreInv
<1>2. UNCHANGED <<decided, proposed, applied, kvstore, request_id_map, aborted, responses, rejected>>
  BY DEF HandleRequest
<1>3. \A h : Consistent(h) => Consistent(h)'
  BY <1>2 DEF Consistent
<1>4. QED
  BY <1>1, <1>2, <1>3 DEF StoreInv, MapTrue, RejectedNeverCommitted

LEMMA StoreGiveUp == ASSUME StoreInv, NEW r \in Replica, GiveUp(r) PROVE StoreInv'
<1>1. TypeInv' /\ OnceInv'
  BY TypeGiveUp, OnceRespond DEF StoreInv
<1>2. /\ responses' = responses \cup {[id |-> Head(queue[r]).id, code |-> "ERROR", value |-> NoValue]}
      /\ UNCHANGED <<decided, proposed, applied, kvstore, request_id_map, aborted, rejected>>
  BY DEF GiveUp, Respond
<1>3. PICK h : Consistent(h)
  BY DEF StoreInv
<1>4. \A p \in responses' : p.code = "SUCCESS" => p \in responses
  BY <1>2
<1>5. Consistent(h)'
  BY <1>2, <1>3, <1>4 DEF Consistent
<1>6. QED
  BY <1>1, <1>2, <1>5 DEF StoreInv, MapTrue, RejectedNeverCommitted

\* What a replica rejects is not in the part of the log it has not applied either: that
\* is of writes after the last access it knows.
LEMMA StoreReject == ASSUME StoreInv, NEW r \in Replica, Reject(r) PROVE StoreInv'
<1>1. TypeInv' /\ OnceInv'
  BY TypeReject, OnceRespond DEF StoreInv
<1> DEFINE id == Head(queue[r]).id
           key == Request[id].key
           ts == Request[id].timestamp
           n == Len(decided)
           a == applied[r]
<1>2. /\ queue[r] # << >> /\ ~IsFulfilled(r, id) /\ IsIllegal(r, id) /\ rejected' = rejected \cup {id}
      /\ responses' = responses \cup {[id |-> id, code |-> "ERROR", value |-> NoValue]}
      /\ UNCHANGED <<decided, proposed, applied, kvstore, request_id_map, aborted>>
  BY DEF Reject, Respond, Running
<1>3. PICK h : Consistent(h)
  BY DEF StoreInv
<1>4. id \in RequestId
  BY <1>2, QueueParts DEF StoreInv
<1> HIDE DEF id
<1>5. key \in Key /\ ts \in Nat
  BY <1>4, RequestParts
<1>6. /\ decided \in Seq(RequestId) /\ n \in Nat /\ n \in 0..n /\ a \in 0..n /\ a \in Nat
      /\ \A i \in 1..n : decided[i] \in RequestId
  BY LogParts DEF StoreInv
<1>7. IsWrite(id) /\ ~IsRead(id) /\ Exists(h[a][key]) /\ ts <= h[a][key].lat
  <2>1. IsWrite(id) /\ Exists(kvstore[r][key]) /\ ts <= kvstore[r][key].lat
    BY <1>2 DEF IsIllegal, EntryOf
  <2>2. kvstore[r] = h[a]
    BY <1>3 DEF Consistent
  <2>3. QED
    BY <2>1, <2>2, <1>4, RequestParts
<1> HIDE DEF ts, key
<1>8. ASSUME NEW k \in 0..n, a <= k
      PROVE  Exists(h[k][key]) /\ ts <= h[k][key].lat /\ h[k][key].lat \in Nat
  <2>1. Follows(h[k][key], h[a][key]) /\ Sound(h[k][key]) /\ Sound(h[a][key])
    BY <1>3, <1>5, <1>6, <1>8 DEF Consistent, History
  <2>2. h[k][key].lat \in Nat /\ h[a][key].lat \in Nat
    BY <2>1 DEF Sound, Entry
  <2>3. QED
    BY <2>1, <2>2, <1>5, <1>7 DEF Follows
<1>9. ASSUME NEW i \in 1..n PROVE decided[i] # id
  <2> SUFFICES ASSUME decided[i] = id PROVE FALSE
    OBVIOUS
  <2>1. CASE i \in 1..a
    BY <2>1, <1>2 DEF IsFulfilled, StoreInv, OnceInv, Remembered
  <2>2. CASE i > a
    <3>1. i - 1 \in 0..n /\ a <= i - 1
      BY <2>2, <1>6
    <3>2. Fits(h[i - 1], id)
      BY <1>3 DEF Consistent, History
    <3>3. Exists(h[i - 1][key]) /\ ts <= h[i - 1][key].lat /\ h[i - 1][key].lat \in Nat
      BY <3>1, <1>8
    <3>4. h[i - 1][key].lat < ts
      BY <3>2, <3>3, <1>7 DEF Fits, NotInThePast, key, ts
    <3>5. QED
      BY <3>3, <3>4, <1>5
  <2>3. QED
    BY <2>1, <2>2, <1>6
<1>10. Consistent(h)'
  <2>1. \A p \in responses' : p.code = "SUCCESS" => p \in responses
    BY <1>2
  <2>2. ASSUME NEW w \in rejected'
        PROVE  IsWrite(w) /\ Request[w].timestamp <= h[n][Request[w].key].lat
    <3>1. CASE w = id
      BY <3>1, <1>6, <1>7, <1>8 DEF key, ts
    <3>2. CASE w \in rejected
      BY <3>2, <1>3 DEF Consistent
    <3>3. QED
      BY <3>1, <3>2, <1>2
  <2>3. QED
    BY <2>1, <2>2, <1>2, <1>3 DEF Consistent
<1>11. RejectedNeverCommitted'
  BY <1>2, <1>9 DEF StoreInv, RejectedNeverCommitted
<1>12. QED
  BY <1>1, <1>2, <1>10, <1>11 DEF StoreInv, MapTrue

\* What is proposed for the first undecided index fits the log.
LEMMA StorePropose == ASSUME StoreInv, NEW r \in Replica, Propose(r) PROVE StoreInv'
<1>1. TypeInv' /\ OnceInv'
  BY TypePropose, OncePropose DEF StoreInv
<1> DEFINE id == Head(queue[r]).id
           last == kvstore[r]
<1>2. /\ queue[r] # << >> /\ ~IsIllegal(r, id)
      /\ proposed' = IF applied[r] = Len(decided) THEN proposed \cup {id} ELSE proposed
      /\ UNCHANGED <<decided, applied, kvstore, request_id_map, aborted, responses, rejected>>
  BY DEF Propose, Running
<1>3. PICK h : Consistent(h)
  BY DEF StoreInv
<1>4. id \in RequestId
  BY <1>2, QueueParts DEF StoreInv
<1> HIDE DEF id
<1>5. Request[id].key \in Key /\ Request[id].timestamp \in Nat /\ (IsRead(id) <=> ~IsWrite(id))
  BY <1>4, RequestParts
<1>6. ASSUME applied[r] = Len(decided) PROVE Fits(h[Len(decided)], id)
  <2>1. kvstore[r] = h[Len(decided)] /\ Exists(h[Len(decided)][Request[id].key])
    BY <1>3, <1>5, <1>6 DEF Consistent
  <2>2. CASE IsRead(id)
    BY <2>1, <2>2 DEF Fits
  <2>3. CASE IsWrite(id)
    <3>1. ~(Request[id].timestamp <= h[Len(decided)][Request[id].key].lat)
      BY <2>1, <2>3, <1>2 DEF IsIllegal, EntryOf
    <3>2. h[Len(decided)][Request[id].key].lat \in Nat
      BY <2>1, <1>5 DEF StoreInv, TypeInv, TypeOK
    <3>3. QED
      BY <3>1, <3>2, <2>3, <1>5 DEF Fits, NotInThePast
  <2>4. QED
    BY <2>2, <2>3, <1>5
<1>7. Consistent(h)'
  <2>1. \A w \in proposed' : Fits(h[Len(decided)], w)
    BY <1>2, <1>3, <1>6 DEF Consistent
  <2>2. QED
    BY <2>1, <1>2, <1>3 DEF Consistent
<1>8. QED
  BY <1>1, <1>2, <1>7 DEF StoreInv, MapTrue, RejectedNeverCommitted

\* A read that is answered has been applied: executing it again changes nothing, and the
\* answer is what the log says.
LEMMA StoreFulfilled == ASSUME StoreInv, NEW r \in Replica, Fulfilled(r) PROVE StoreInv'
<1>1. TypeInv' /\ OnceInv'
  BY TypeFulfilled, OnceRespond DEF StoreInv
<1> DEFINE id == Head(queue[r]).id
           key == Request[id].key
           ts == Request[id].timestamp
           value == read_value(EntryOf(r, id), ts)
           n == Len(decided)
           a == applied[r]
<1>2. /\ queue[r] # << >> /\ IsFulfilled(r, id)
      /\ \/ IsWrite(id) /\ Respond(r, "SUCCESS", NoValue) /\ UNCHANGED kvstore
         \/ /\ IsRead(id)
            /\ Respond(r, IF value = NoValue THEN "ERROR" ELSE "SUCCESS", value)
            /\ kvstore' = AfterRead(r, id)
      /\ UNCHANGED <<decided, proposed, applied, request_id_map, aborted, rejected>>
  BY DEF Fulfilled, Running
<1>3. PICK h : Consistent(h)
  BY DEF StoreInv
<1>4. id \in RequestId
  BY <1>2, QueueParts DEF StoreInv
<1>5. PICK i \in 1..a : decided[i] = id
  BY <1>2 DEF IsFulfilled, StoreInv, MapTrue
<1>6. key \in Key /\ ts \in Nat /\ (IsRead(id) <=> ~IsWrite(id))
  BY <1>4, RequestParts
<1>7. /\ decided \in Seq(RequestId) /\ n \in Nat /\ n \in 0..n /\ a \in 0..n /\ a \in Nat
      /\ i \in 1..n /\ i <= a
  BY LogParts DEF StoreInv
<1>8. CASE IsWrite(id)
  <2>1. kvstore' = kvstore /\ responses' = responses \cup {[id |-> id, code |-> "SUCCESS", value |-> NoValue]}
    BY <1>2, <1>6, <1>8 DEF Respond
  <2>2. \A p \in responses' : IsRead(p.id) => p \in responses
    <3> HIDE DEF id
    <3> QED
      BY <2>1, <1>6, <1>8
  <2>3. Consistent(h)'
    BY <2>1, <2>2, <1>2, <1>3 DEF Consistent
  <2>4. QED
    BY <1>1, <1>2, <2>3 DEF StoreInv, MapTrue, RejectedNeverCommitted
<1>9. CASE IsRead(id)
  <2>1. kvstore[r] = h[a] /\ h \in [0..n -> [Key -> Entry]] /\ History(h, decided)
    BY <1>3 DEF Consistent, History
  <2>2. Exists(h[a][key]) /\ ts <= h[a][key].lat /\ read_entry(h[a][key], ts) = h[a][key]
    <3>1. IsRead(decided[i]) /\ decided[i] = id
      BY <1>5, <1>9
    <3> HIDE DEF id
    <3>2. QED
      BY <3>1, <2>1, <1>7, ReadsSettled
  <2>3. EntryOf(r, id) = h[a][key]
    BY <2>1 DEF EntryOf
  <2> DEFINE code == IF value = NoValue THEN "ERROR" ELSE "SUCCESS"
  <2>4. kvstore' = AfterRead(r, id) /\ responses' = responses \cup {[id |-> id, code |-> code, value |-> value]}
    BY <1>2, <1>6, <1>9 DEF Respond
  <2> HIDE DEF id, code
  <2>5. kvstore' = kvstore
    <3>1. kvstore \in [Replica -> [Key -> Entry]]
      BY DEF StoreInv, TypeInv
    <3>2. AfterRead(r, id) = [kvstore EXCEPT ![r][key] = read_entry(kvstore[r][key], ts)]
      BY <3>1, <1>6 DEF AfterRead
    <3>3. read_entry(kvstore[r][key], ts) = kvstore[r][key]
      BY <2>1, <2>2
    <3> HIDE DEF key, ts
    <3>4. [kvstore EXCEPT ![r][key] = kvstore[r][key]] = kvstore
      BY <3>1
    <3>5. QED
      BY <3>2, <3>3, <3>4, <2>4
  <2>6. value = read_value(h[n][key], ts) /\ ts <= h[n][key].lat
    <3>1. Follows(h[n][key], h[a][key]) /\ Sound(h[a][key]) /\ Sound(h[n][key])
      BY <2>1, <1>6, <1>7 DEF History
    <3>2. h[n][key].lat \in Nat /\ h[a][key].lat \in Nat
      BY <3>1 DEF Sound, Entry
    <3> HIDE DEF key, ts
    <3>3. QED
      BY <3>1, <3>2, <2>2, <2>3, <1>6 DEF Follows
  <2>7. Consistent(h)'
    <3>1. ASSUME NEW p \in responses', IsRead(p.id), p.code = "SUCCESS"
          PROVE  /\ Request[p.id].timestamp <= h[n][Request[p.id].key].lat
                 /\ p.value = read_value(h[n][Request[p.id].key], Request[p.id].timestamp)
      <4>1. CASE p \in responses
        BY <4>1, <3>1, <1>3 DEF Consistent
      <4>2. CASE p = [id |-> id, code |-> code, value |-> value]
        <5>1. p.id = id /\ p.value = value
          <6> HIDE DEF value
          <6> QED
            BY <4>2
        <5>2. QED
          BY <5>1, <2>6
      <4>3. QED
        BY <4>1, <4>2, <2>4
    <3>2. QED
      BY <3>1, <2>5, <1>2, <1>3 DEF Consistent
  <2>8. QED
    BY <1>1, <1>2, <2>7 DEF StoreInv, MapTrue, RejectedNeverCommitted
<1>10. QED
  BY <1>6, <1>8, <1>9

LEMMA StoreStep == StoreInv /\ [Next]_vars => StoreInv'
<1> SUFFICES ASSUME StoreInv, [Next]_vars PROVE StoreInv'
  OBVIOUS
<1>1. CASE UNCHANGED vars
  <2>1. TypeInv' /\ OnceInv'
    BY <1>1, TypeStep, OnceStep DEF StoreInv
  <2>2. \A h : Consistent(h) => Consistent(h)'
    BY <1>1 DEF vars, Consistent
  <2>3. QED
    BY <1>1, <2>1, <2>2 DEF vars, StoreInv, MapTrue, RejectedNeverCommitted
<1>2. ASSUME NEW r \in Replica, RunTask(r) PROVE StoreInv'
  BY <1>2, StoreFulfilled, StoreGiveUp, StoreReject, StorePropose DEF RunTask
<1>3. QED
  BY <1>1, <1>2, StoreDecide, StoreApply, StoreHandle DEF Next

LEMMA StoreInvariant == ASSUME KeysExist PROVE Spec => []StoreInv
BY StoreInit, StoreStep, PTL DEF Spec

\* If every key has been written before clients ask for it, the assertion of
\* KVStore::write ("Should never be writing to the past.") never fails at any replica.
THEOREM NoWriteToThePast == ASSUME KeysExist PROVE Spec => []NeverWritesToThePast
<1>1. StoreInv => NeverWritesToThePast
  BY DEF StoreInv, Consistent, NeverWritesToThePast
<1>2. QED
  BY <1>1, StoreInvariant, PTL

\* If every key has been written before clients ask for it, replicas that have applied
\* the same entries have the same store, and a read is answered with one value, however
\* often and by whichever replicas.
THEOREM StoresAgree == ASSUME KeysExist PROVE Spec => []ReplicasAgree
<1>1. ASSUME StoreInv PROVE ReplicasAgree
  <2>1. PICK h : Consistent(h)
    BY <1>1 DEF StoreInv
  <2>2. \A r, s \in Replica : applied[r] = applied[s] => kvstore[r] = kvstore[s]
    BY <2>1 DEF Consistent
  <2>3. ASSUME NEW p \in responses, NEW q \in responses,
               p.id = q.id, IsRead(p.id), "SUCCESS" = p.code, "SUCCESS" = q.code
        PROVE  p.value = q.value
    BY <2>1, <2>3 DEF Consistent
  <2>4. QED
    BY <2>2, <2>3 DEF ReplicasAgree
<1>2. QED
  BY <1>1, StoreInvariant, PTL

\* If every key has been written before clients ask for it, a write that a replica has
\* answered with an error as too old is never decided.
THEOREM RejectedStaysOut == ASSUME KeysExist PROVE Spec => []RejectedNeverCommitted
<1>1. StoreInv => RejectedNeverCommitted
  BY DEF StoreInv
<1>2. QED
  BY <1>1, StoreInvariant, PTL
=============================================================================
