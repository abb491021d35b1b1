----------------------------- MODULE PythonIngest -----------------------------
(* The HTTP ingest path with Kafka as its buffer: the gateway of               *)
(* src/backend/routers/logs.py, the producer of kafka_producer.py, one         *)
(* partition of the topic security-events-ingest, and the batch consumer       *)
(* _consume_python_ingest of kafka_consumer.py with run_many of                *)
(* ingest_pipeline.py behind it.                                               *)
(*                                                                             *)
(* The consumer runs in the backend process.  It suspends in the poll, in each *)
(* database transaction, in each dispatch and in the commit; a crash may come  *)
(* between any two of them.                                                    *)
(*                                                                             *)
(* Offsets count from 1, and an offset variable names the last record it       *)
(* covers.  The definitions named Faulty... are plausible mistakes in the      *)
(* definition that follows them and are not part of the specification.         *)
EXTENDS Integers, Sequences, FiniteSets

CONSTANTS
    Messages,    \* the events posted to the gateway
    WithId,      \* those whose body carries an eventId
    Rejected,    \* those whose insert the database always refuses
    MaxPoll,     \* MAX_POLL_RECORDS
    BatchSize,   \* settings.ingest_store_batch_size
    MaxLog,      \* BOUND: records in the topic
    MaxFaults,   \* BOUND: failed transactions, commits and deliveries
    MaxCrashes   \* BOUND: crashes of the process

ASSUME IngestAssumption ==
    /\ WithId \subseteq Messages /\ Rejected \subseteq Messages
    /\ MaxPoll \in Nat \ {0} /\ BatchSize \in Nat \ {0}
    /\ MaxLog \in Nat /\ MaxFaults \in Nat /\ MaxCrashes \in Nat

VARIABLES
    accepted,    \* the messages answered with 202
    buffer,      \* records in the producer's memory
    topic,       \* the partition's records
    committed,   \* the group's committed offset
    position,    \* the consumer's position: the last record it has fetched
    persisted,   \* the last fetched record that a transaction has stored
    told,        \* the last stored record that was dispatched
    pc,          \* where the consumer is
    rows,        \* [Messages -> rows of the events table]
    dispatched,  \* the messages handed on to the audit worker pool
    faults, crashes

producerVars == <<accepted, buffer>>
offsetVars == <<committed, position, persisted, told>>
dbVars == <<rows, dispatched>>
vars == <<producerVars, topic, offsetVars, pc, dbVars, faults, crashes>>

ConsumerPc == {"poll", "store", "dispatch", "commit", "backoff", "down"}

Lower(a, b) == IF a < b THEN a ELSE b

\* The messages of the records from one offset to another.
Records(from, to) == {topic[i] : i \in from..to}
Copies(m, from, to) == Cardinality({i \in from..to : topic[i] = m})

Init ==
    /\ accepted = {} /\ buffer = {} /\ topic = <<>>
    /\ committed = 0 /\ position = 0 /\ persisted = 0 /\ told = 0
    /\ pc = "poll"
    /\ rows = [m \in Messages |-> 0]
    /\ dispatched = {}
    /\ faults = 0 /\ crashes = 0
-----------------------------------------------------------------------------
(* The gateway and the producer *)

\* ingest_log: the record is handed to producer.send(), which returns when the
\* record is in its memory.  The client gets its 202 also when send() raises.
Post(m) ==
    /\ m \notin accepted
    /\ accepted' = accepted \cup {m}
    /\ \/ buffer' = buffer \cup {m} /\ UNCHANGED faults
       \/ faults < MaxFaults /\ faults' = faults + 1 /\ UNCHANGED buffer
    /\ UNCHANGED <<topic, offsetVars, pc, dbVars, crashes>>

\* The producer's background sender appends a record.  When the broker's reply
\* is lost the record stays in the buffer and is sent again.
Deliver(m) ==
    /\ m \in buffer /\ Len(topic) < MaxLog
    /\ topic' = Append(topic, m)
    /\ \/ buffer' = buffer \ {m} /\ UNCHANGED faults
       \/ faults < MaxFaults /\ faults' = faults + 1 /\ UNCHANGED buffer
    /\ UNCHANGED <<accepted, offsetVars, pc, dbVars, crashes>>

\* The sender gives a record up.
DeliveryFails(m) ==
    /\ m \in buffer /\ faults < MaxFaults
    /\ buffer' = buffer \ {m}
    /\ faults' = faults + 1
    /\ UNCHANGED <<accepted, topic, offsetVars, pc, dbVars, crashes>>
-----------------------------------------------------------------------------
(* The consumer *)

\* getmany() returns some records after the position and moves it behind them.
Poll ==
    /\ pc = "poll"
    /\ \E last \in (position + 1)..Lower(position + MaxPoll, Len(topic)) : position' = last
    /\ persisted' = position /\ told' = position
    /\ pc' = "store"
    /\ UNCHANGED <<producerVars, topic, committed, dbVars, faults, crashes>>

ChunkEnd == Lower(persisted + BatchSize, position)

\* store_batch: a record whose eventId is already there, in the table or earlier
\* in the batch, gets no second row.
Stored(from, to) ==
    [m \in Messages |->
        IF m \notin Records(from, to) THEN rows[m]
        ELSE IF m \in WithId THEN 1
        ELSE rows[m] + Copies(m, from, to)]

\* Two new records with one eventId break the unique index: store_batch rolls
\* back and stores the records one by one, each in a transaction of its own.
OneByOne(from, to) ==
    \E i, j \in from..to : i < j /\ topic[i] = topic[j] /\ topic[i] \in WithId /\ rows[topic[i]] = 0

Refused(from, to) == Records(from, to) \cap Rejected # {}

\* What the transactions of a chunk may have left when one of them raises.  A
\* refused record leaves no row of its transaction; an outage may hit before or
\* after the database has executed the commit.
LeftOver(from, to) ==
    {rows} \cup {Stored(from, k) : k \in {k \in from..to :
                    ~Refused(from, k) /\ (k = to \/ OneByOne(from, to))}}

ForgetfulStoreChunk ==                               \* stored before: not dispatched again
    /\ pc = "store"
    /\ rows' = Stored(persisted + 1, ChunkEnd)
    /\ persisted' = ChunkEnd
    /\ IF rows' # rows
       THEN pc' = "dispatch" /\ UNCHANGED told
       ELSE /\ told' = ChunkEnd
            /\ pc' = IF ChunkEnd < position THEN "store" ELSE "commit"
    /\ UNCHANGED <<producerVars, topic, committed, position, dispatched, faults, crashes>>

\* run_many on the next chunk, up to the end of persist_batch: one transaction.
StoreChunk ==
    /\ pc = "store"
    /\ ~Refused(persisted + 1, ChunkEnd)
    /\ rows' = Stored(persisted + 1, ChunkEnd)
    /\ persisted' = ChunkEnd
    /\ pc' = "dispatch"
    /\ UNCHANGED <<producerVars, topic, committed, position, told, dispatched, faults, crashes>>

FaultyStoreFails ==                                  \* goes on as if it were stored
    /\ pc = "store" /\ faults < MaxFaults
    /\ faults' = faults + 1
    /\ persisted' = ChunkEnd
    /\ pc' = "dispatch"
    /\ UNCHANGED <<producerVars, topic, committed, position, told, dbVars, crashes>>

\* A transaction raises.  The batch is given up without a commit, but the
\* position stays behind it.
StoreFails ==
    /\ pc = "store"
    /\ rows' \in LeftOver(persisted + 1, ChunkEnd)
    /\ IF Refused(persisted + 1, ChunkEnd)
       THEN UNCHANGED faults
       ELSE faults < MaxFaults /\ faults' = faults + 1
    /\ pc' = "backoff"
    /\ UNCHANGED <<producerVars, topic, offsetVars, dispatched, crashes>>

AfterDispatch(n) ==
    IF n < persisted THEN "dispatch" ELSE IF persisted < position THEN "store" ELSE "commit"

\* dispatch() of one stored event.  If it raises, that is logged and the loop of
\* run_many goes on.
Dispatch ==
    /\ pc = "dispatch"
    /\ \/ dispatched' = dispatched \cup {topic[told + 1]} /\ UNCHANGED faults
       \/ faults < MaxFaults /\ faults' = faults + 1 /\ UNCHANGED dispatched
    /\ told' = told + 1
    /\ pc' = AfterDispatch(told + 1)
    /\ UNCHANGED <<producerVars, topic, committed, position, persisted, rows, crashes>>

\* commit() commits the position, not the end of the last good batch.
Commit ==
    /\ pc = "commit"
    /\ committed' = position
    /\ pc' = "poll"
    /\ UNCHANGED <<producerVars, topic, position, persisted, told, dbVars, faults, crashes>>

\* commit() raises: the consumer task logs it, stops its consumer and ends.
\* The broker may have stored the offset.
CommitFails ==
    /\ pc = "commit" /\ faults < MaxFaults
    /\ faults' = faults + 1
    /\ committed' \in {committed, position}
    /\ pc' = "down"
    /\ UNCHANGED <<producerVars, topic, position, persisted, told, dbVars, crashes>>

\* After the pause that follows a failed batch the loop polls again.
Resume ==
    /\ pc = "backoff"
    /\ pc' = "poll"
    /\ UNCHANGED <<producerVars, topic, offsetVars, dbVars, faults, crashes>>

FaultyRestart ==                                     \* starts at the end of the log
    /\ crashes < MaxCrashes /\ crashes' = crashes + 1
    /\ buffer' = {}
    /\ position' = Len(topic) /\ persisted' = Len(topic) /\ told' = Len(topic)
    /\ pc' = "poll"
    /\ UNCHANGED <<accepted, topic, committed, dbVars, faults>>

\* The process dies and is started again: the producer's memory is gone and the
\* consumer starts from the committed offset.
Restart ==
    /\ crashes < MaxCrashes /\ crashes' = crashes + 1
    /\ buffer' = {}
    /\ position' = committed /\ persisted' = committed /\ told' = committed
    /\ pc' = "poll"
    /\ UNCHANGED <<accepted, topic, committed, dbVars, faults>>
-----------------------------------------------------------------------------
ConsumerStep == Poll \/ StoreChunk \/ StoreFails \/ Dispatch \/ Commit \/ CommitFails \/ Resume

Next ==
    \/ \E m \in Messages : Post(m) \/ Deliver(m) \/ DeliveryFails(m)
    \/ ConsumerStep
    \/ Restart

Spec == Init /\ [][Next]_vars

\* The event loop runs the consumer, and the producer's sender goes on sending.
Fairness ==
    /\ WF_vars(ConsumerStep)
    /\ \A m \in Messages : WF_vars(Deliver(m))

FairSpec == Spec /\ Fairness
-----------------------------------------------------------------------------
(* Properties *)

TypeOK ==
    /\ accepted \subseteq Messages /\ buffer \subseteq accepted
    /\ topic \in Seq(accepted)
    /\ position \in 0..Len(topic) /\ committed \in 0..position
    /\ persisted \in 0..position /\ told \in 0..persisted
    /\ pc \in ConsumerPc
    /\ rows \in [Messages -> Nat]
    /\ dispatched \subseteq Messages
    /\ faults \in 0..MaxFaults /\ crashes \in 0..MaxCrashes

\* Every record the group has committed has its row.  One failed transaction is
\* enough to refute it.
CommittedStored == \A i \in 1..committed : rows[topic[i]] > 0

\* Nothing but crashes has gone wrong yet.
Untroubled == faults = 0 /\ Records(1, Len(topic)) \cap Rejected = {}

\* No loss over crashes: until the first fault every committed record has its row
\* and was handed to the audit worker pool, also when the process died between
\* the row and the dispatch.
CrashesLoseNothing ==
    Untroubled => CommittedStored /\ \A i \in 1..committed : topic[i] \in dispatched

\* An event with an eventId gets one row, whatever was replayed after a crash,
\* delivered twice by the producer, or failed after its transaction.
StoredOnce == \A m \in WithId : rows[m] <= 1

\* Nothing is dispatched before it has a row: the audit of an event always finds
\* the event in the database.
DispatchedStored == \A m \in dispatched : rows[m] > 0

\* The rows of the event store: one for an eventId, and one before every dispatch,
\* whatever is replayed, delivered twice, or fails halfway.
RowsSound == TypeOK /\ StoredOnce /\ DispatchedStored

\* A committed offset is never taken back.
CommitsAdvance == [][committed' >= committed]_vars

\* Until the first fault every record of the topic gets its row eventually.
TopicDrains ==
    \A m \in Messages : m \in Records(1, Len(topic)) ~> rows[m] > 0 \/ ~Untroubled
=============================================================================
