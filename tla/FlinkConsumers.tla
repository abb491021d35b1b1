---------------------------- MODULE FlinkConsumers ----------------------------
(* Two of the consumers that _consume_loop of src/backend/kafka_consumer.py    *)
(* runs, for the topics that Flink writes: security-events-enriched, whose     *)
(* handler stores an event, adds a leaf to the memory tree and queues the      *)
(* audit of a severe one, and security-audit-queue, whose handler stores the   *)
(* event and queues its audit.  Flink writes an event to both, so the two      *)
(* handlers race for its row in one events table (event_store.py).             *)
(*                                                                             *)
(* The consumers are tasks of one event loop: a step runs from one await to    *)
(* the next.  Offsets count from 1, and an offset variable names the last      *)
(* record it covers.  The definitions named Faulty... are plausible mistakes   *)
(* in the definition that follows them and are not part of the specification.  *)
EXTENDS Integers, Sequences, FiniteSets

CONSTANTS
    Events,
    Topic,       \* [Consumers -> Seq(Events)]: the records Flink has written
    WithId,      \* the events that carry an eventId
    Severe,      \* those whose score or severity sends them to the audit
    Sheddable,   \* those that the audit worker pool may refuse with "overflow"
    Invalid,     \* those that the schema registry refuses
    Poison,      \* those whose insert the database always refuses
    DlqUp,       \* did the producer of the dead letter queue start
    MaxRetry,    \* MAX_RETRY
    MaxFaults,   \* BOUND: exceptions from the database and from commits
    MaxCrashes,  \* BOUND: crashes of the process
    MaxStops     \* BOUND: orderly shutdowns of the process

Consumers == {"enriched", "audit"}

ASSUME ConsumersAssumption ==
    /\ Topic \in [Consumers -> Seq(Events)]
    /\ WithId \subseteq Events /\ Severe \subseteq Events /\ Sheddable \subseteq Events
    /\ Invalid \subseteq Events /\ Poison \subseteq Events
    /\ DlqUp \in BOOLEAN
    /\ MaxRetry \in Nat \ {0}
    /\ MaxFaults \in Nat /\ MaxCrashes \in Nat /\ MaxStops \in Nat

VARIABLES
    committed,   \* [Consumers -> the group's committed offset]
    position,    \* [Consumers -> the record at hand, or the last one]
    attempt,     \* [Consumers -> the handler's attempt at it]
    known,       \* [Consumers -> did the handler's look-up find the event's row]
    pc,          \* [Consumers -> where the task is]
    rows,        \* [Events -> rows of the events table]
    leaves,      \* [Events -> leaves of the memory tree]
    audits,      \* [Events -> audit jobs that the worker pool accepted]
    shed,        \* the events whose audit the worker pool refused
    dlqBuffer,   \* dead letters in their producer's memory
    dlq,         \* dead letters in the topic
    running,     \* _running: stop() was not called
    faults, crashes, stops

consumerVars == <<committed, position, attempt, known, pc>>
storeVars == <<rows, leaves, audits, shed>>
dlqVars == <<dlqBuffer, dlq>>
boundVars == <<faults, crashes, stops>>
vars == <<consumerVars, storeVars, dlqVars, running, boundVars>>

Handling == {"lookup", "insert", "leaf", "submit", "deadletter"}
ConsumerPc == {"poll", "commit", "down"} \cup Handling

At(k) == Topic[k][position[k]]
Goto(k, label) == pc' = [pc EXCEPT ![k] = label]

AllStopped == \A k \in Consumers : pc[k] = "down"

Init ==
    /\ committed = [k \in Consumers |-> 0]
    /\ position = [k \in Consumers |-> 0]
    /\ attempt = [k \in Consumers |-> 0]
    /\ known = [k \in Consumers |-> FALSE]
    /\ pc = [k \in Consumers |-> "poll"]
    /\ rows = [e \in Events |-> 0]
    /\ leaves = [e \in Events |-> 0]
    /\ audits = [e \in Events |-> 0]
    /\ shed = {} /\ dlqBuffer = {} /\ dlq = {}
    /\ running = TRUE
    /\ faults = 0 /\ crashes = 0 /\ stops = 0
-----------------------------------------------------------------------------
(* One message *)

\* The next record arrives.  One that breaks the schema is not tried.
Fetch(k) ==
    /\ pc[k] = "poll" /\ position[k] < Len(Topic[k])
    /\ position' = [position EXCEPT ![k] = @ + 1]
    /\ attempt' = [attempt EXCEPT ![k] = 1]
    /\ Goto(k, IF Topic[k][position[k] + 1] \in Invalid THEN "deadletter" ELSE "lookup")
    /\ UNCHANGED <<committed, known, storeVars, dlqVars, boundVars>>

\* store() looks the eventId up.
LookUp(k) ==
    /\ pc[k] = "lookup"
    /\ known' = [known EXCEPT ![k] = At(k) \in WithId /\ rows[At(k)] > 0]
    /\ Goto(k, "insert")
    /\ UNCHANGED <<committed, position, attempt, storeVars, dlqVars, boundVars>>

AfterStore(k) == IF k = "enriched" THEN "leaf" ELSE "submit"

FaultyWithRow(k) ==                                  \* an index that is not unique
    IF known[k] THEN rows ELSE [rows EXCEPT ![At(k)] = @ + 1]

\* The table after store(): when the unique index of the eventId refuses the
\* row, the transaction is rolled back and the row of the other handler is used.
WithRow(k) ==
    IF known[k] \/ (At(k) \in WithId /\ rows[At(k)] > 0)
    THEN rows
    ELSE [rows EXCEPT ![At(k)] = @ + 1]

Insert(k) ==
    /\ pc[k] = "insert"
    /\ known[k] \/ At(k) \notin Poison
    /\ rows' = WithRow(k)
    /\ Goto(k, AfterStore(k))
    /\ UNCHANGED <<committed, position, attempt, known, leaves, audits, shed, dlqVars, boundVars>>

\* add_leaf().  The audit of an event that is not severe is not queued here.
Leaf(k) ==
    /\ pc[k] = "leaf"
    /\ leaves' = [leaves EXCEPT ![At(k)] = @ + 1]
    /\ Goto(k, IF At(k) \in Severe THEN "submit" ELSE "commit")
    /\ UNCHANGED <<committed, position, attempt, known, rows, audits, shed, dlqVars, boundVars>>

\* audit_worker.submit().  The handlers do not look at what it returns.
Submit(k) ==
    /\ pc[k] = "submit"
    /\ \/ audits' = [audits EXCEPT ![At(k)] = @ + 1] /\ UNCHANGED shed
       \/ At(k) \in Sheddable /\ shed' = shed \cup {At(k)} /\ UNCHANGED audits
    /\ Goto(k, "commit")
    /\ UNCHANGED <<committed, position, attempt, known, rows, leaves, dlqVars, boundVars>>

\* The handler is tried again from its beginning, MAX_RETRY times in all.
FaultyRetry(k) ==                                    \* gives up without a dead letter
    IF attempt[k] < MaxRetry
    THEN attempt' = [attempt EXCEPT ![k] = @ + 1] /\ Goto(k, "lookup")
    ELSE Goto(k, "commit") /\ UNCHANGED attempt

EndlessRetry(k) ==                                   \* never gives up
    Goto(k, "lookup") /\ UNCHANGED attempt

Retry(k) ==
    IF attempt[k] < MaxRetry
    THEN attempt' = [attempt EXCEPT ![k] = @ + 1] /\ Goto(k, "lookup")
    ELSE Goto(k, "deadletter") /\ UNCHANGED attempt

\* The database raises, before or after it has executed the transaction.
Raises(k) ==
    /\ pc[k] \in {"lookup", "insert", "leaf"}
    /\ IF pc[k] = "insert" /\ ~known[k] /\ At(k) \in Poison
       THEN UNCHANGED <<rows, leaves, faults>>
       ELSE /\ faults < MaxFaults /\ faults' = faults + 1
            /\ \/ UNCHANGED <<rows, leaves>>
               \/ pc[k] = "insert" /\ rows' = WithRow(k) /\ UNCHANGED leaves
               \/ pc[k] = "leaf" /\ leaves' = [leaves EXCEPT ![At(k)] = @ + 1] /\ UNCHANGED rows
    /\ Retry(k)
    /\ UNCHANGED <<committed, position, known, audits, shed, dlqVars, crashes, stops>>

\* _send_to_dlq.  send() returns when the letter is in the producer's memory;
\* without a producer the letter is dropped.
DeadLetter(k) ==
    /\ pc[k] = "deadletter"
    /\ dlqBuffer' = IF DlqUp THEN dlqBuffer \cup {<<k, At(k)>>} ELSE dlqBuffer
    /\ Goto(k, "commit")
    /\ UNCHANGED <<committed, position, attempt, known, storeVars, dlq, boundVars>>

\* The commit in the finally block, after a success and after a failure.
Commit(k) ==
    /\ pc[k] = "commit"
    /\ committed' = [committed EXCEPT ![k] = position[k]]
    /\ Goto(k, "poll")
    /\ UNCHANGED <<position, attempt, known, storeVars, dlqVars, boundVars>>

\* commit() raises, and the broker may have stored the offset: the task logs it
\* and ends.
CommitFails(k) ==
    /\ pc[k] = "commit"
    /\ faults < MaxFaults /\ faults' = faults + 1
    /\ committed' \in {committed, [committed EXCEPT ![k] = position[k]]}
    /\ Goto(k, "down")
    /\ UNCHANGED <<position, attempt, known, storeVars, dlqVars, crashes, stops>>

MessageStep(k) ==
    /\ running /\ UNCHANGED running
    /\ \/ Fetch(k) \/ LookUp(k) \/ Insert(k) \/ Leaf(k) \/ Submit(k)
       \/ Raises(k) \/ DeadLetter(k) \/ Commit(k) \/ CommitFails(k)
-----------------------------------------------------------------------------
(* The process *)

\* The background sender of the dead letters' producer.
DlqDeliver ==
    /\ \E letter \in dlqBuffer :
          dlqBuffer' = dlqBuffer \ {letter} /\ dlq' = dlq \cup {letter}
    /\ UNCHANGED <<consumerVars, storeVars, running, boundVars>>

\* stop() cancels every task.
Stop ==
    /\ running /\ stops < MaxStops
    /\ running' = FALSE
    /\ stops' = stops + 1
    /\ UNCHANGED <<consumerVars, storeVars, dlqVars, faults, crashes>>

\* A cancelled task ends.  CancelledError is not an Exception, so the handler is
\* not retried and no letter is written, but the finally block commits.
Cancelled(k) ==
    /\ ~running /\ pc[k] # "down"
    /\ committed' \in {committed} \cup
                      (IF pc[k] = "poll" THEN {} ELSE {[committed EXCEPT ![k] = position[k]]})
    /\ Goto(k, "down")
    /\ UNCHANGED <<position, attempt, known, storeVars, dlqVars, running, boundVars>>

\* start() after a stop or a crash: the consumers begin at their committed offset.
Start ==
    /\ pc' = [k \in Consumers |-> "poll"]
    /\ position' = committed
    /\ running' = TRUE
    /\ UNCHANGED <<committed, attempt, known, storeVars, dlq>>

\* stop() ends with the producer, which first sends what it holds.
Restart ==
    /\ ~running /\ AllStopped /\ dlqBuffer = {}
    /\ Start
    /\ UNCHANGED <<dlqBuffer, boundVars>>

Crash ==
    /\ crashes < MaxCrashes /\ crashes' = crashes + 1
    /\ Start
    /\ dlqBuffer' = {}
    /\ UNCHANGED <<faults, stops>>
-----------------------------------------------------------------------------
Next ==
    \/ \E k \in Consumers : MessageStep(k) \/ Cancelled(k)
    \/ DlqDeliver
    \/ Stop \/ Restart \/ Crash

Spec == Init /\ [][Next]_vars

\* The event loop runs every task, and the dead letters' sender.
Fairness ==
    /\ \A k \in Consumers : WF_vars(MessageStep(k))
    /\ WF_vars(DlqDeliver)

FairSpec == Spec /\ Fairness
-----------------------------------------------------------------------------
(* Properties *)

TypeOK ==
    /\ position \in [Consumers -> Nat] /\ committed \in [Consumers -> Nat]
    /\ \A k \in Consumers : committed[k] <= position[k] /\ position[k] <= Len(Topic[k])
    /\ pc \in [Consumers -> ConsumerPc]
    /\ \A k \in Consumers : pc[k] \in Handling \cup {"commit"} => position[k] > 0
    /\ attempt \in [Consumers -> 0..MaxRetry] /\ known \in [Consumers -> BOOLEAN]
    /\ rows \in [Events -> Nat] /\ leaves \in [Events -> Nat] /\ audits \in [Events -> Nat]
    /\ shed \subseteq Sheddable
    /\ dlqBuffer \subseteq Consumers \X Events /\ dlq \subseteq Consumers \X Events
    /\ running \in BOOLEAN
    /\ faults \in 0..MaxFaults /\ crashes \in 0..MaxCrashes /\ stops \in 0..MaxStops

\* An event with an eventId has at most one row, although two handlers race for
\* it and each is retried and replayed.
StoredOnce == \A e \in WithId : rows[e] <= 1

\* The memory tree and the worker pool only get events that have a row.
RowFirst ==
    \A e \in Events : leaves[e] > 0 \/ audits[e] > 0 \/ e \in shed => rows[e] > 0

\* The rows that the two handlers share: one for an eventId, and one before every leaf
\* and every audit, whatever is retried or replayed.
RowsSound == TypeOK /\ StoredOnce /\ RowFirst

Audited(k, e) == k = "audit" \/ e \in Severe

\* What the handler of k promises of an event.
Handled(k, e) == rows[e] > 0 /\ (Audited(k, e) => audits[e] > 0 \/ e \in shed)

Kept(k, e) == Handled(k, e) \/ <<k, e>> \in dlq \cup dlqBuffer

\* The one record that a crash may lose is a dead letter still in its producer's
\* memory.
LostLetter(e) == crashes > 0 /\ (faults > 0 \/ e \in Invalid \cup Poison)

\* Without an orderly shutdown every committed record was handled, is a dead
\* letter, or was one that a crash took; with the producer of the letters up.
Accounted ==
    DlqUp /\ stops = 0 =>
        \A k \in Consumers : \A i \in 1..committed[k] :
            Kept(k, Topic[k][i]) \/ LostLetter(Topic[k][i])

\* No record blocks its consumer: unless the tasks were stopped, or a failed
\* commit ended one, the whole topic is committed eventually.
TopicConsumed ==
    \A k \in Consumers : <>(committed[k] = Len(Topic[k]) \/ pc[k] = "down" \/ ~running)
=============================================================================
