-------------------------- MODULE PythonIngestProofs --------------------------
(* Proofs about PythonIngest, for any events, batch sizes and bounds.          *)
EXTENDS PythonIngest, FiniteSetTheorems, TLAPS

USE IngestAssumption

-----------------------------------------------------------------------------
(* What a transaction does to the table *)

\* The number of copies is a number, and it is not zero for a record of the chunk.
LEMMA CopiesType ==
    ASSUME NEW m, NEW from \in Int, NEW to \in Int
    PROVE  /\ Copies(m, from, to) \in Nat
           /\ m \in Records(from, to) => Copies(m, from, to) > 0
<1> DEFINE here == {i \in from..to : topic[i] = m}
<1>1. IsFiniteSet(from..to)
  BY FS_Interval
<1>2. IsFiniteSet(here)
  BY <1>1, FS_Subset
<1>3. Cardinality(here) \in Nat
  BY <1>2, FS_CardinalityType
<1>4. ASSUME m \in Records(from, to) PROVE Cardinality(here) > 0
  <2>1. PICK i \in from..to : topic[i] = m
    BY <1>4 DEF Records
  <2>2. here # {}
    BY <2>1
  <2>3. Cardinality(here) # 0
    BY <2>2, <1>2, FS_EmptySet
  <2> QED BY <2>3, <1>3
<1> QED BY <1>3, <1>4 DEF Copies

\* A transaction never takes a row away, and leaves one for each of its records.
LEMMA StoredRows ==
    ASSUME rows \in [Messages -> Nat], NEW from \in Int, NEW to \in Int
    PROVE  /\ Stored(from, to) \in [Messages -> Nat]
           /\ \A m \in Messages : rows[m] > 0 => Stored(from, to)[m] > 0
           /\ \A m \in Records(from, to) \cap Messages : Stored(from, to)[m] > 0
           /\ \A m \in WithId : rows[m] <= 1 => Stored(from, to)[m] <= 1
<1> DEFINE S == Stored(from, to)
<1>1. \A m \in Messages : Copies(m, from, to) \in Nat
                          /\ (m \in Records(from, to) => Copies(m, from, to) > 0)
  BY CopiesType
<1>2. \A m \in Messages : S[m] = IF m \notin Records(from, to) THEN rows[m]
                                 ELSE IF m \in WithId THEN 1
                                 ELSE rows[m] + Copies(m, from, to)
  BY DEF Stored
<1>3. \A m \in Messages : S[m] \in Nat
  BY <1>1, <1>2
<1>4. S \in [Messages -> Nat]
  BY <1>3 DEF Stored
<1> HIDE DEF S
<1>5. \A m \in Messages : rows[m] > 0 => S[m] > 0
  BY <1>1, <1>2
<1>6. \A m \in Records(from, to) \cap Messages : S[m] > 0
  BY <1>1, <1>2
<1>7. \A m \in WithId : rows[m] <= 1 => S[m] <= 1
  BY <1>1, <1>2
<1> QED BY <1>4, <1>5, <1>6, <1>7 DEF S
-----------------------------------------------------------------------------
(* The inductive invariant *)

\* How far the fetched batch is, at each place of the consumer.
BatchProgress ==
    /\ pc = "store" => told = persisted /\ persisted < position
    /\ pc = "dispatch" => told < persisted
    /\ pc = "commit" => told = persisted /\ persisted = position

\* The records that a transaction has just stored have their rows.
ChunkStored == pc = "dispatch" => \A i \in (told + 1)..persisted : rows[topic[i]] > 0

IngestInv == TypeOK /\ BatchProgress /\ ChunkStored /\ DispatchedStored /\ StoredOnce

LEMMA TopicType ==
    ASSUME TypeOK
    PROVE  /\ Len(topic) \in Nat
           /\ \A i \in 1..Len(topic) : topic[i] \in Messages
           /\ committed \in Nat /\ position \in Nat /\ persisted \in Nat /\ told \in Nat
           /\ committed <= position /\ position <= Len(topic)
           /\ told <= persisted /\ persisted <= position
BY DEF TypeOK

\* The steps of the gateway and the producer only append to the topic.
LEMMA ProducerSteps ==
    ASSUME IngestInv, NEW m \in Messages, Post(m) \/ Deliver(m) \/ DeliveryFails(m)
    PROVE  /\ IngestInv'
           /\ committed' = committed
           /\ Len(topic') >= Len(topic)
           /\ \A i \in 1..Len(topic) : topic'[i] = topic[i]
<1>1. TypeOK /\ BatchProgress /\ ChunkStored /\ DispatchedStored /\ StoredOnce
  BY DEF IngestInv
<1>2. UNCHANGED <<offsetVars, pc, dbVars, crashes>>
  BY DEF Post, Deliver, DeliveryFails
<1>3. Len(topic') >= Len(topic) /\ Len(topic') \in Nat /\ \A i \in 1..Len(topic) : topic'[i] = topic[i]
  <2>1. CASE topic' = topic
    BY <2>1, <1>1, TopicType
  <2>2. CASE Deliver(m)
    <3>1. topic' = Append(topic, m) /\ topic \in Seq(accepted) /\ m \in accepted
      BY <2>2, <1>1 DEF Deliver, TypeOK
    <3> QED BY <3>1
  <2> QED BY <2>1, <2>2 DEF Post, DeliveryFails
<1>4. /\ accepted' \subseteq Messages /\ buffer' \subseteq accepted'
      /\ topic' \in Seq(accepted')
  <2>1. CASE Post(m)
    <3>1. accepted' = accepted \cup {m} /\ topic' = topic /\ topic \in Seq(accepted)
      BY <2>1, <1>1 DEF Post, TypeOK
    <3>2. topic \in Seq(accepted \cup {m})
      BY <3>1
    <3> QED BY <3>1, <3>2, <2>1, <1>1 DEF Post, TypeOK
  <2>2. CASE Deliver(m)
    <3>1. topic' = Append(topic, m) /\ topic \in Seq(accepted) /\ m \in accepted /\ accepted' = accepted
      BY <2>2, <1>1 DEF Deliver, TypeOK
    <3> QED BY <3>1, <2>2, <1>1 DEF Deliver, TypeOK
  <2>3. CASE DeliveryFails(m)
    BY <2>3, <1>1 DEF DeliveryFails, TypeOK
  <2> QED BY <2>1, <2>2, <2>3
<1>5. faults' \in 0..MaxFaults
  BY <1>1 DEF Post, Deliver, DeliveryFails, TypeOK
<1>6. TypeOK'
  BY <1>1, <1>2, <1>3, <1>4, <1>5, TopicType DEF TypeOK, offsetVars, dbVars
<1>7. ChunkStored'
  BY <1>1, <1>2, <1>3, TopicType DEF ChunkStored, offsetVars, dbVars
<1>8. (BatchProgress /\ DispatchedStored /\ StoredOnce)'
  BY <1>1, <1>2 DEF BatchProgress, DispatchedStored, StoredOnce, offsetVars, dbVars
<1> QED BY <1>2, <1>3, <1>6, <1>7, <1>8 DEF IngestInv, offsetVars

\* The poll starts a batch of new records.
LEMMA PollStep ==
    ASSUME IngestInv, Poll
    PROVE  IngestInv'
<1>1. TypeOK /\ DispatchedStored /\ StoredOnce
  BY DEF IngestInv
<1>2. PICK last \in (position + 1)..Lower(position + MaxPoll, Len(topic)) : position' = last
  BY DEF Poll
<1>3. last \in Int /\ position < last /\ last <= Len(topic)
  BY <1>1, <1>2, TopicType DEF Lower
<1>4. TypeOK'
  BY <1>1, <1>2, <1>3, TopicType DEF Poll, TypeOK, ConsumerPc, producerVars, dbVars
<1>5. (BatchProgress /\ ChunkStored /\ DispatchedStored /\ StoredOnce)'
  BY <1>1, <1>2, <1>3, TopicType
     DEF Poll, BatchProgress, ChunkStored, DispatchedStored, StoredOnce, dbVars
<1> QED BY <1>4, <1>5 DEF IngestInv

\* The end of the next chunk lies behind its beginning and inside the batch.
LEMMA ChunkBounds ==
    ASSUME TypeOK, persisted < position
    PROVE  ChunkEnd \in Int /\ persisted < ChunkEnd /\ ChunkEnd <= position
BY TopicType DEF ChunkEnd, Lower

LEMMA StoreStep ==
    ASSUME IngestInv, StoreChunk
    PROVE  /\ IngestInv'
           /\ \A m \in Messages : rows[m] > 0 => rows'[m] > 0
<1>1. TypeOK /\ BatchProgress /\ DispatchedStored /\ StoredOnce /\ pc = "store"
  BY DEF IngestInv, StoreChunk
<1>2. told = persisted /\ persisted < position /\ persisted \in Nat
  BY <1>1, TopicType DEF BatchProgress
<1>3. ChunkEnd \in Int /\ persisted < ChunkEnd /\ ChunkEnd <= position
  BY <1>1, <1>2, ChunkBounds
<1>4. /\ rows' \in [Messages -> Nat]
      /\ \A m \in Messages : rows[m] > 0 => rows'[m] > 0
      /\ \A m \in Records(persisted + 1, ChunkEnd) \cap Messages : rows'[m] > 0
      /\ \A m \in WithId : rows[m] <= 1 => rows'[m] <= 1
  <2>1. rows' = Stored(persisted + 1, ChunkEnd) /\ rows \in [Messages -> Nat] /\ persisted + 1 \in Int
    BY <1>1, <1>2 DEF StoreChunk, TypeOK
  <2> QED BY <2>1, <1>3, StoredRows
<1>5. TypeOK'
  BY <1>1, <1>2, <1>3, <1>4, TopicType DEF StoreChunk, TypeOK, ConsumerPc, producerVars
<1>6. BatchProgress'
  BY <1>2, <1>3 DEF StoreChunk, BatchProgress
<1>7. ChunkStored'
  <2>1. \A i \in (persisted + 1)..ChunkEnd : topic[i] \in Records(persisted + 1, ChunkEnd) \cap Messages
    BY <1>1, <1>2, <1>3, TopicType DEF Records
  <2> QED BY <2>1, <1>2, <1>4 DEF StoreChunk, ChunkStored
<1>8. DispatchedStored'
  BY <1>1, <1>4 DEF StoreChunk, DispatchedStored, TypeOK
<1>9. StoredOnce'
  BY <1>1, <1>4 DEF StoredOnce
<1> QED BY <1>4, <1>5, <1>6, <1>7, <1>8, <1>9 DEF IngestInv

LEMMA FailedStoreStep ==
    ASSUME IngestInv, StoreFails
    PROVE  /\ IngestInv'
           /\ \A m \in Messages : rows[m] > 0 => rows'[m] > 0
<1>1. TypeOK /\ BatchProgress /\ DispatchedStored /\ StoredOnce /\ pc = "store"
  BY DEF IngestInv, StoreFails
<1>2. persisted + 1 \in Int /\ ChunkEnd \in Int
  BY <1>1, TopicType, ChunkBounds DEF BatchProgress
<1>3. /\ rows' \in [Messages -> Nat]
      /\ \A m \in Messages : rows[m] > 0 => rows'[m] > 0
      /\ \A m \in WithId : rows[m] <= 1 => rows'[m] <= 1
  <2>1. CASE rows' = rows
    BY <2>1, <1>1 DEF TypeOK
  <2>2. CASE \E k \in (persisted + 1)..ChunkEnd : rows' = Stored(persisted + 1, k)
    <3>1. PICK k \in (persisted + 1)..ChunkEnd : rows' = Stored(persisted + 1, k)
      BY <2>2
    <3>2. k \in Int /\ rows \in [Messages -> Nat]
      BY <1>1, <1>2 DEF TypeOK
    <3> QED BY <3>1, <3>2, <1>2, StoredRows
  <2> QED BY <2>1, <2>2 DEF StoreFails, LeftOver
<1>4. TypeOK'
  BY <1>1, <1>3, TopicType DEF StoreFails, TypeOK, ConsumerPc, producerVars, offsetVars
<1>5. (BatchProgress /\ ChunkStored)'
  BY DEF StoreFails, BatchProgress, ChunkStored
<1>6. (DispatchedStored /\ StoredOnce)'
  BY <1>1, <1>3 DEF StoreFails, DispatchedStored, StoredOnce, TypeOK
<1> QED BY <1>3, <1>4, <1>5, <1>6 DEF IngestInv

LEMMA DispatchStep ==
    ASSUME IngestInv, Dispatch
    PROVE  IngestInv'
<1>1. /\ TypeOK /\ BatchProgress /\ ChunkStored /\ DispatchedStored /\ StoredOnce
      /\ pc = "dispatch" /\ told < persisted
  BY DEF IngestInv, Dispatch, BatchProgress
<1>2. topic[told + 1] \in Messages /\ rows[topic[told + 1]] > 0
  BY <1>1, TopicType DEF ChunkStored
<1>3. pc' = IF told + 1 < persisted THEN "dispatch" ELSE IF persisted < position THEN "store" ELSE "commit"
  BY DEF Dispatch, AfterDispatch
<1>4. TypeOK'
  BY <1>1, <1>2, <1>3, TopicType DEF Dispatch, TypeOK, ConsumerPc, producerVars
<1>5. (BatchProgress /\ ChunkStored)'
  BY <1>1, <1>3, TopicType DEF Dispatch, BatchProgress, ChunkStored
<1>6. (DispatchedStored /\ StoredOnce)'
  BY <1>1, <1>2 DEF Dispatch, DispatchedStored, StoredOnce
<1> QED BY <1>4, <1>5, <1>6 DEF IngestInv

\* The other steps change no row, no batch and nothing that was dispatched.
LEMMA OtherSteps ==
    ASSUME IngestInv, Commit \/ CommitFails \/ Resume \/ Restart
    PROVE  IngestInv'
<1>1. TypeOK /\ DispatchedStored /\ StoredOnce
  BY DEF IngestInv
<1>2. TypeOK'
  BY <1>1, TopicType
     DEF Commit, CommitFails, Resume, Restart, TypeOK, ConsumerPc, producerVars, offsetVars, dbVars
<1>3. (BatchProgress /\ ChunkStored)'
  BY DEF Commit, CommitFails, Resume, Restart, BatchProgress, ChunkStored
<1>4. (DispatchedStored /\ StoredOnce)'
  BY <1>1 DEF Commit, CommitFails, Resume, Restart, DispatchedStored, StoredOnce, dbVars
<1> QED BY <1>2, <1>3, <1>4 DEF IngestInv

LEMMA InitHolds == Init => IngestInv
<1> SUFFICES ASSUME Init PROVE IngestInv
  OBVIOUS
<1>1. Len(topic) = 0 /\ topic \in Seq(accepted)
  BY DEF Init
<1>2. TypeOK
  BY <1>1 DEF Init, TypeOK, ConsumerPc
<1> QED BY <1>2 DEF Init, IngestInv, BatchProgress, ChunkStored, DispatchedStored, StoredOnce

LEMMA StepHolds == IngestInv /\ [Next]_vars => IngestInv'
<1> SUFFICES ASSUME IngestInv, [Next]_vars PROVE IngestInv'
  OBVIOUS
<1>1. ASSUME NEW m \in Messages, Post(m) \/ Deliver(m) \/ DeliveryFails(m) PROVE IngestInv'
  BY <1>1, ProducerSteps
<1>2. CASE UNCHANGED vars
  BY <1>2 DEF vars, producerVars, offsetVars, dbVars, IngestInv, TypeOK, BatchProgress,
              ChunkStored, DispatchedStored, StoredOnce
<1> QED BY <1>1, <1>2, PollStep, StoreStep, FailedStoreStep, DispatchStep, OtherSteps
        DEF Next, ConsumerStep

LEMMA Inductive == Spec => []IngestInv
BY InitHolds, StepHolds, PTL DEF Spec
-----------------------------------------------------------------------------
(* Theorems *)

\* Offsets are ordered as told, persisted, position, and the committed offset is
\* never ahead of what the consumer has fetched.
THEOREM TypeCorrect == Spec => []TypeOK
<1>1. IngestInv => TypeOK
  BY DEF IngestInv
<1> QED BY <1>1, Inductive, PTL

\* Replays, duplicates and failed transactions never make a second row for an
\* eventId.
THEOREM OneRowPerEventId == Spec => []StoredOnce
<1>1. IngestInv => StoredOnce
  BY DEF IngestInv
<1> QED BY <1>1, Inductive, PTL

\* An event is dispatched after its row is there.
THEOREM DispatchAfterStore == Spec => []DispatchedStored
<1>1. IngestInv => DispatchedStored
  BY DEF IngestInv
<1> QED BY <1>1, Inductive, PTL

\* The committed offset only grows.
THEOREM CommittedGrows == Spec => CommitsAdvance
<1>1. IngestInv /\ [Next]_vars => [committed' >= committed]_vars
  <2> SUFFICES ASSUME IngestInv, Next PROVE committed' >= committed
    BY DEF vars
  <2>1. committed \in Nat /\ position \in Nat /\ committed <= position
    BY TopicType DEF IngestInv
  <2>2. committed' \in {committed, position}
    BY DEF Next, Post, Deliver, DeliveryFails, ConsumerStep, Poll, StoreChunk, StoreFails,
           Dispatch, Commit, CommitFails, Resume, Restart, offsetVars
  <2> QED BY <2>1, <2>2
<1> QED BY <1>1, Inductive, PTL DEF Spec, CommitsAdvance
-----------------------------------------------------------------------------
(* No loss until the first fault *)

\* Until the first fault the records before the position are done up to persisted
\* and told, and a commit finds the whole batch done.
Progress ==
    /\ pc \notin {"backoff", "down"}
    /\ pc = "poll" => told = position /\ persisted = position
    /\ committed <= told
    /\ \A i \in 1..persisted : rows[topic[i]] > 0
    /\ \A i \in 1..told : topic[i] \in dispatched

Calm == Untroubled => Progress

\* A fault is never taken back: the count stays, and so do the records.
LEMMA FaultsStay ==
    ASSUME IngestInv, [Next]_vars, Untroubled'
    PROVE  /\ Untroubled
           /\ ~StoreFails /\ ~CommitFails
           /\ Dispatch => dispatched' = dispatched \cup {topic[told + 1]}
<1>1. faults \in Nat /\ faults' = 0 /\ Records(1, Len(topic))' \cap Rejected = {}
  BY DEF IngestInv, TypeOK, Untroubled
<1>2. faults' \in {faults, faults + 1}
  BY DEF Next, Post, Deliver, DeliveryFails, ConsumerStep, Poll, StoreChunk, StoreFails,
         Dispatch, Commit, CommitFails, Resume, Restart, vars
<1>3. faults = 0
  BY <1>1, <1>2
<1>4. Len(topic') >= Len(topic) /\ \A i \in 1..Len(topic) : topic'[i] = topic[i]
  <2>1. CASE topic' = topic
    BY <2>1, TopicType DEF IngestInv
  <2>2. CASE \E m \in Messages : Deliver(m)
    BY <2>2, ProducerSteps
  <2> QED BY <2>1, <2>2
          DEF Next, Post, DeliveryFails, ConsumerStep, Poll, StoreChunk, StoreFails,
              Dispatch, Commit, CommitFails, Resume, Restart, vars, offsetVars, producerVars
<1>5. Records(1, Len(topic)) \cap Rejected = {}
  <2>1. Len(topic) \in Nat /\ Len(topic') \in Nat
    BY TopicType, StepHolds DEF IngestInv, TypeOK
  <2>2. \A i \in 1..Len(topic') : topic'[i] \notin Rejected
    BY <1>1 DEF Records
  <2> QED BY <1>4, <2>1, <2>2 DEF Records
<1>6. ~StoreFails
  <2> SUFFICES ASSUME StoreFails PROVE FALSE
    OBVIOUS
  <2>1. Refused(persisted + 1, ChunkEnd)
    BY <1>1, <1>3 DEF StoreFails
  <2>2. persisted \in Nat /\ ChunkEnd \in Int /\ ChunkEnd <= Len(topic) /\ Len(topic) \in Nat
    BY TopicType, ChunkBounds DEF StoreFails, IngestInv, BatchProgress
  <2>3. \A i \in 1..Len(topic) : topic[i] \notin Rejected
    BY <1>5 DEF Records
  <2> QED BY <2>1, <2>2, <2>3 DEF Refused, Records
<1>7. ~CommitFails
  BY <1>1, <1>3 DEF CommitFails
<1>8. Dispatch => dispatched' = dispatched \cup {topic[told + 1]}
  BY <1>1, <1>3 DEF Dispatch
<1> QED BY <1>3, <1>5, <1>6, <1>7, <1>8 DEF Untroubled

LEMMA CalmStep ==
    ASSUME IngestInv, Calm, [Next]_vars
    PROVE  Calm'
<1> SUFFICES ASSUME Untroubled' PROVE Progress'
  BY DEF Calm
<1>0. Untroubled /\ Progress
  BY FaultsStay DEF Calm
<1>1. /\ TypeOK /\ BatchProgress /\ ChunkStored /\ IngestInv'
  BY StepHolds DEF IngestInv
<1>2. ASSUME NEW m \in Messages, Post(m) \/ Deliver(m) \/ DeliveryFails(m) PROVE Progress'
  <2>1. \A i \in 1..Len(topic) : topic'[i] = topic[i]
    BY <1>2, ProducerSteps
  <2>2. UNCHANGED <<offsetVars, pc, dbVars>>
    BY <1>2 DEF Post, Deliver, DeliveryFails
  <2> QED BY <2>1, <2>2, <1>0, <1>1, TopicType DEF Progress, offsetVars, dbVars
<1>3. CASE Poll
  <2>1. persisted' = position /\ told' = position /\ pc' = "store" /\ position \in Nat
        /\ UNCHANGED <<topic, committed, rows, dispatched>>
    BY <1>1, <1>3, TopicType DEF Poll, dbVars
  <2> QED BY <1>0, <2>1, <1>3 DEF Progress, Poll
<1>4. CASE StoreChunk
  <2>1. /\ persisted' = ChunkEnd /\ pc' = "dispatch" /\ told = persisted
        /\ UNCHANGED <<topic, committed, told, dispatched>>
    BY <1>1, <1>4 DEF StoreChunk, BatchProgress
  <2>2. ChunkEnd \in Int /\ persisted < ChunkEnd /\ ChunkEnd <= position /\ persisted \in Nat
    BY <1>1, <1>4, ChunkBounds, TopicType DEF StoreChunk, BatchProgress
  <2>3. \A i \in 1..ChunkEnd : rows'[topic'[i]] > 0
    <3>1. \A i \in 1..persisted : rows'[topic[i]] > 0
      BY <1>0, <1>1, <1>4, StoreStep, TopicType DEF Progress
    <3>2. \A i \in (told + 1)..ChunkEnd : rows'[topic'[i]] > 0
      BY <1>1, <2>1, <1>4, StoreStep DEF IngestInv, ChunkStored
    <3> QED BY <3>1, <3>2, <2>1, <2>2
  <2> QED BY <1>0, <2>1, <2>2, <2>3 DEF Progress
<1>5. ~StoreFails /\ ~CommitFails
  BY FaultsStay
<1>6. CASE Dispatch
  <2>1. /\ dispatched' = dispatched \cup {topic[told + 1]}
        /\ told' = told + 1
        /\ pc' \in {"dispatch", "store", "commit"}
        /\ UNCHANGED <<topic, committed, position, persisted, rows>>
    BY <1>1, <1>6, FaultsStay DEF Dispatch, AfterDispatch
  <2> QED BY <1>0, <2>1, <1>1, TopicType DEF Progress
<1>7. CASE Commit
  BY <1>0, <1>1, <1>7, TopicType DEF Commit, Progress, BatchProgress, dbVars
<1>8. CASE Resume
  BY <1>0, <1>8 DEF Resume, Progress
<1>9. CASE Restart
  <2>1. /\ persisted' = committed /\ told' = committed /\ position' = committed
        /\ pc' = "poll" /\ committed <= told /\ told <= persisted /\ committed \in Nat
        /\ told \in Nat /\ persisted \in Nat
        /\ UNCHANGED <<topic, committed, rows, dispatched>>
    BY <1>0, <1>1, <1>9, TopicType DEF Restart, Progress, dbVars
  <2> QED BY <1>0, <2>1 DEF Progress
<1>10. CASE UNCHANGED vars
  BY <1>0, <1>10 DEF vars, offsetVars, dbVars, Progress
<1> QED BY <1>2, <1>3, <1>4, <1>5, <1>6, <1>7, <1>8, <1>9, <1>10 DEF Next, ConsumerStep

\* Until the first fault, whatever the number and the moments of the crashes, every
\* committed record has its row and was handed to the audit worker pool.
THEOREM NoLossUntilFault == Spec => []CrashesLoseNothing
<1>1. Init => Calm
  BY DEF Init, Calm, Progress
<1>2. IngestInv /\ Calm /\ [Next]_vars => Calm'
  BY CalmStep
<1>3. IngestInv /\ Calm => CrashesLoseNothing
  <2> SUFFICES ASSUME IngestInv, Progress
               PROVE  CommittedStored /\ \A i \in 1..committed : topic[i] \in dispatched
    BY DEF Calm, CrashesLoseNothing
  <2>1. committed \in Nat /\ told \in Nat /\ persisted \in Nat
        /\ committed <= told /\ told <= persisted
    BY TopicType DEF IngestInv, Progress
  <2> QED BY <2>1 DEF Progress, CommittedStored
<1> QED BY <1>1, <1>2, <1>3, Inductive, PTL DEF Spec

\* The event store has one row for an eventId, and one before every dispatch.
THEOREM RowsAreSound == Spec => []RowsSound
BY TypeCorrect, OneRowPerEventId, DispatchAfterStore, PTL DEF RowsSound
=============================================================================
