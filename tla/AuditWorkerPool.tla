--------------------------- MODULE AuditWorkerPool ---------------------------
(* The bounded audit worker pool of src/backend/audit_worker.py: submit with  *)
(* its memory queue / Redis PQ / Kafka overflow / in-process deque cascade,   *)
(* the worker loop, the task registry used by cancel().                       *)
(*                                                                            *)
(* The pool runs on one asyncio event loop, so a piece of code between two    *)
(* awaits that really suspend is one atomic step.  submit() suspends only in  *)
(* the Redis pipeline and in the Kafka producer; a worker suspends only in    *)
(* queue.get() on an empty queue and in `await t` on the job's task.          *)
(*                                                                            *)
(* The definitions named Faulty... and Endless... are plausible mistakes in   *)
(* the definition that follows them.  The specification does not use them:    *)
(* they show that the properties tell the code from its wrong versions.       *)
EXTENDS Integers, Sequences, FiniteSets

CONSTANTS
    Calls,        \* the submit() calls; each builds one job, so a call names its job
    Events,       \* event ids
    EventOf,      \* [Calls -> Events]: two calls may carry the same event
    Priority,     \* [Calls -> Nat]: triage.priority
    NeverDrop,    \* the calls whose tier is never dropped (P0/P1 with the setting on)
    FromOverflow, \* the calls made with from_overflow=True (Kafka redelivery)
    Workers,      \* the worker coroutines created by start()
    QueueMax,     \* settings.audit_queue_max
    OverflowMax,  \* P0_OVERFLOW_MAX
    RedisOn,      \* a Redis client was set on audit_pq
    KafkaOn,      \* the producer is active
    MaxCancels,   \* BOUND: cancel() calls that hit a registered task
    NoCall, NoWorker

ASSUME PoolAssumption ==
    /\ IsFiniteSet(Calls) /\ IsFiniteSet(Workers) /\ Workers # {}
    /\ EventOf \in [Calls -> Events]
    /\ Priority \in [Calls -> Nat]
    /\ NeverDrop \subseteq Calls /\ FromOverflow \subseteq Calls
    /\ QueueMax \in Nat \ {0} /\ OverflowMax \in Nat \ {0}
    /\ RedisOn \in BOOLEAN /\ KafkaOn \in BOOLEAN
    /\ MaxCancels \in Nat
    /\ NoCall \notin Calls /\ NoWorker \notin Workers

VARIABLES
    spc,        \* [Calls -> where submit() is, or what it returned]
    queue,      \* the PriorityQueue: its heap entries, as a set
    seq,        \* self._seq
    overflow,   \* self._p0_overflow, head first
    redis,      \* jobs the Redis PQ has accepted
    kafka,      \* jobs handed to the producer for the overflow topic
    wpc,        \* [Workers -> where the worker is suspended]
    wjob,       \* [Workers -> the job it holds, or NoCall]
    streak,     \* [Workers -> overflow_streak]
    inflight,   \* [Events -> the worker whose job task is registered, or NoWorker]
    busy,       \* self._busy
    fate,       \* [Calls -> how the job ended]; "evicted" is the shed counter's reason
    cancels     \* cancel() calls made so far

submitVars == <<spc, seq, redis, kafka>>
workerVars == <<wpc, wjob, streak, inflight, busy>>
vars == <<spc, queue, seq, overflow, redis, kafka, wpc, wjob, streak,
          inflight, busy, fate, cancels>>

Suspended == {"redis", "kafka"}                  \* submit() awaiting a reply
Accepted  == {"queued", "shed", "deferred"}      \* returned: the pool took the job
SubmitPc  == {"new", "overflow"} \cup Suspended \cup Accepted
Holding   == {"running", "stopping", "ended", "cancelled"}
WorkerPc  == {"ready", "waiting", "woken", "dead"} \cup Holding
Fates     == {"none", "served", "aborted", "evicted"}

Entry(n, c) == [seq |-> n, job |-> c]

\* Heap order of (-priority, seq, job): higher priority first, then older.
Before(a, b) ==
    \/ Priority[a.job] > Priority[b.job]
    \/ Priority[a.job] = Priority[b.job] /\ a.seq <= b.seq

InState(s) == {w \in Workers : wpc[w] \in s}

Init ==
    /\ spc = [c \in Calls |-> "new"]
    /\ queue = {} /\ seq = 0 /\ overflow = <<>>
    /\ redis = {} /\ kafka = {}
    /\ wpc = [w \in Workers |-> "ready"]
    /\ wjob = [w \in Workers |-> NoCall]
    /\ streak = [w \in Workers |-> 0]
    /\ inflight = [e \in Events |-> NoWorker]
    /\ busy = 0
    /\ fate = [c \in Calls |-> "none"]
    /\ cancels = 0
-----------------------------------------------------------------------------
(* submit() *)

Full == Cardinality(queue) >= QueueMax

\* put() on the heap: it never suspends (the asyncio queue itself is unbounded)
\* and wakes one of the workers blocked in get(), if there is one.
WakeOne ==
    IF InState({"waiting"}) = {}
    THEN UNCHANGED wpc
    ELSE \E w \in InState({"waiting"}) : wpc' = [wpc EXCEPT ![w] = "woken"]

FaultyQueued(c) ==                                   \* pushes on the heap, without put()
    /\ spc[c] = "new" /\ ~Full
    /\ spc' = [spc EXCEPT ![c] = "queued"]
    /\ seq' = seq + 1
    /\ queue' = queue \cup {Entry(seq + 1, c)}
    /\ UNCHANGED <<overflow, redis, kafka, wpc, wjob, streak, inflight, busy, fate, cancels>>

SubmitQueued(c) ==
    /\ spc[c] = "new" /\ ~Full
    /\ spc' = [spc EXCEPT ![c] = "queued"]
    /\ seq' = seq + 1
    /\ queue' = queue \cup {Entry(seq + 1, c)}
    /\ WakeOne
    /\ UNCHANGED <<overflow, redis, kafka, wjob, streak, inflight, busy, fate, cancels>>

FaultyRefused(c) ==                                  \* ignores never_drop
    /\ spc[c] = "new" /\ Full
    /\ spc' = [spc EXCEPT ![c] = "overflow"]
    /\ UNCHANGED <<queue, seq, overflow, redis, kafka, workerVars, fate, cancels>>

\* P2/P3 on a full queue: the caller is told to close the event by rule.
SubmitRefused(c) ==
    /\ spc[c] = "new" /\ Full /\ c \notin NeverDrop
    /\ spc' = [spc EXCEPT ![c] = "overflow"]
    /\ UNCHANGED <<queue, seq, overflow, redis, kafka, workerVars, fate, cancels>>

\* The last resort: append to the local deque and drop its oldest entries
\* beyond the cap.  No blocked worker is woken.
PutDeque(c) ==
    LET longer == Append(overflow, c) IN
    /\ spc' = [spc EXCEPT ![c] = "deferred"]
    /\ IF Len(longer) > OverflowMax
       THEN /\ overflow' = Tail(longer)
            /\ fate' = [fate EXCEPT ![Head(longer)] = "evicted"]
       ELSE /\ overflow' = longer
            /\ UNCHANGED fate

\* After a Redis failure: ask Kafka, unless the job came from there.
TryKafka(c) ==
    IF c \notin FromOverflow /\ KafkaOn
    THEN spc' = [spc EXCEPT ![c] = "kafka"] /\ UNCHANGED <<overflow, fate>>
    ELSE PutDeque(c)

SubmitShed(c) ==
    /\ spc[c] = "new" /\ Full /\ c \in NeverDrop
    /\ IF RedisOn
       THEN spc' = [spc EXCEPT ![c] = "redis"] /\ UNCHANGED <<overflow, fate>>
       ELSE TryKafka(c)
    /\ UNCHANGED <<queue, seq, redis, kafka, workerVars, cancels>>

RedisAccepts(c) ==
    /\ spc[c] = "redis"
    /\ redis' = redis \cup {c}
    /\ spc' = [spc EXCEPT ![c] = "shed"]
    /\ UNCHANGED <<queue, seq, overflow, kafka, workerVars, fate, cancels>>

\* The pipeline raised: it may or may not have been executed by the server.
RedisFails(c) ==
    /\ spc[c] = "redis"
    /\ redis' \in {redis, redis \cup {c}}
    /\ TryKafka(c)
    /\ UNCHANGED <<queue, seq, kafka, workerVars, cancels>>

KafkaAccepts(c) ==
    /\ spc[c] = "kafka"
    /\ kafka' = kafka \cup {c}
    /\ spc' = [spc EXCEPT ![c] = "deferred"]
    /\ UNCHANGED <<queue, seq, overflow, redis, workerVars, fate, cancels>>

FaultyKafkaFails(c) ==                               \* ignores produce_raw's result
    /\ spc[c] = "kafka"
    /\ kafka' \in {kafka, kafka \cup {c}}
    /\ spc' = [spc EXCEPT ![c] = "deferred"]
    /\ UNCHANGED <<queue, seq, overflow, redis, workerVars, fate, cancels>>

\* produce_raw returned False or raised; the record may still have been stored.
KafkaFails(c) ==
    /\ spc[c] = "kafka"
    /\ kafka' \in {kafka, kafka \cup {c}}
    /\ PutDeque(c)
    /\ UNCHANGED <<queue, seq, redis, workerVars, cancels>>
-----------------------------------------------------------------------------
(* _loop() and _run_job() *)

\* _run_job up to `await t`: create the task and register it under its event.
\* reg and n are inflight and busy after the previous job was unregistered.
StartJob(w, c, reg, n) ==
    /\ wpc' = [wpc EXCEPT ![w] = "running"]
    /\ wjob' = [wjob EXCEPT ![w] = c]
    /\ inflight' = [reg EXCEPT ![EventOf[c]] = w]
    /\ busy' = n + 1

FaultyTurnToQueue(w) == streak[w] >= 3 /\ queue # {} \* one deque job too many

\* The deque goes first, except that after two deque jobs in a row one job of a
\* non-empty memory queue is taken.
TurnToQueue(w) == streak[w] >= 2 /\ queue # {}

FaultyTakeDeque(w, reg, n) ==                        \* peeks instead of popping
    /\ overflow # <<>> /\ ~TurnToQueue(w)
    /\ streak' = [streak EXCEPT ![w] = @ + 1]
    /\ StartJob(w, Head(overflow), reg, n)
    /\ UNCHANGED <<queue, overflow>>

TakeDeque(w, reg, n) ==
    /\ overflow # <<>> /\ ~TurnToQueue(w)
    /\ overflow' = Tail(overflow)
    /\ streak' = [streak EXCEPT ![w] = @ + 1]
    /\ StartJob(w, Head(overflow), reg, n)
    /\ UNCHANGED queue

FaultyTakeQueue(w, reg, n) ==                        \* peeks instead of popping
    \E e \in queue :
        /\ streak' = [streak EXCEPT ![w] = 0]
        /\ StartJob(w, e.job, reg, n)
        /\ UNCHANGED <<queue, overflow>>

TakeQueue(w, reg, n) ==
    \E e \in queue :
        /\ \A f \in queue : Before(e, f)
        /\ queue' = queue \ {e}
        /\ streak' = [streak EXCEPT ![w] = 0]
        /\ StartJob(w, e.job, reg, n)
        /\ UNCHANGED overflow

\* queue.get() on an empty queue: the worker blocks.  It is only reached with
\* an empty deque, and nothing but a later put() wakes it.
Block(w, reg, n) ==
    /\ wpc' = [wpc EXCEPT ![w] = "waiting"]
    /\ wjob' = [wjob EXCEPT ![w] = NoCall]
    /\ streak' = [streak EXCEPT ![w] = 0]
    /\ inflight' = reg /\ busy' = n
    /\ UNCHANGED <<queue, overflow>>

\* One turn of the loop, from its top to the next await that suspends.
Turn(w, reg, n) ==
    \/ TakeDeque(w, reg, n)
    \/ (overflow = <<>> \/ TurnToQueue(w)) /\ TakeQueue(w, reg, n)
    \/ overflow = <<>> /\ queue = {} /\ Block(w, reg, n)

FirstTurn(w) ==
    /\ wpc[w] = "ready"
    /\ Turn(w, inflight, busy)
    /\ UNCHANGED <<submitVars, fate, cancels>>

\* A woken worker is still inside get(): it looks at the memory queue only.
Woken(w) ==
    /\ wpc[w] = "woken"
    /\ IF queue # {} THEN TakeQueue(w, inflight, busy) ELSE Block(w, inflight, busy)
    /\ UNCHANGED <<submitVars, fate, cancels>>

\* The job's task returns or raises; the worker that awaits it resumes later.
TaskEnds(w) ==
    /\ wpc[w] = "running"
    /\ wpc' = [wpc EXCEPT ![w] = "ended"]
    /\ fate' = [fate EXCEPT ![wjob[w]] = "served"]
    /\ UNCHANGED <<submitVars, queue, overflow, wjob, streak, inflight, busy, cancels>>

\* The finally clause of _run_job.
Unregistered(w) == [inflight EXCEPT ![EventOf[wjob[w]]] = NoWorker]
LessBusy == IF busy > 0 THEN busy - 1 ELSE 0

NextTurn(w) ==
    /\ wpc[w] = "ended"
    /\ Turn(w, Unregistered(w), LessBusy)
    /\ UNCHANGED <<submitVars, fate, cancels>>
-----------------------------------------------------------------------------
(* cancel() *)

\* cancel(event_id) requests the cancellation of the registered task; on a task
\* that already ended, or is already being cancelled, it changes nothing.
Cancel(e) ==
    /\ cancels < MaxCancels
    /\ inflight[e] # NoWorker
    /\ wpc[inflight[e]] = "running"
    /\ wpc' = [wpc EXCEPT ![inflight[e]] = "stopping"]
    /\ cancels' = cancels + 1
    /\ UNCHANGED <<submitVars, queue, overflow, wjob, streak, inflight, busy, fate>>

\* CancelledError is thrown into the pipeline, which does not catch it.
TaskStops(w) ==
    /\ wpc[w] = "stopping"
    /\ wpc' = [wpc EXCEPT ![w] = "cancelled"]
    /\ fate' = [fate EXCEPT ![wjob[w]] = "aborted"]
    /\ UNCHANGED <<submitVars, queue, overflow, wjob, streak, inflight, busy, cancels>>

\* `await t` re-raises the CancelledError in the worker: _run_job unregisters
\* the job, _loop re-raises, and the worker coroutine is over.
WorkerDies(w) ==
    /\ wpc[w] = "cancelled"
    /\ wpc' = [wpc EXCEPT ![w] = "dead"]
    /\ wjob' = [wjob EXCEPT ![w] = NoCall]
    /\ inflight' = Unregistered(w)
    /\ busy' = LessBusy
    /\ UNCHANGED <<submitVars, queue, overflow, streak, fate, cancels>>
-----------------------------------------------------------------------------
Submit(c) == SubmitQueued(c) \/ SubmitRefused(c) \/ SubmitShed(c)
Reply(c) == RedisAccepts(c) \/ RedisFails(c) \/ KafkaAccepts(c) \/ KafkaFails(c)
WorkerStep(w) == FirstTurn(w) \/ Woken(w) \/ NextTurn(w) \/ WorkerDies(w)
TaskStep(w) == TaskEnds(w) \/ TaskStops(w)

Next ==
    \/ \E c \in Calls : Submit(c) \/ Reply(c)
    \/ \E w \in Workers : WorkerStep(w) \/ TaskStep(w)
    \/ \E e \in Events : Cancel(e)

Spec == Init /\ [][Next]_vars

\* The event loop runs every runnable coroutine; Redis and Kafka calls return
\* or time out; the pipeline has an overall timeout, so every job's task ends.
\* Nothing obliges anyone to submit or to cancel.
Fairness ==
    /\ \A c \in Calls : WF_vars(Reply(c))
    /\ \A w \in Workers : WF_vars(WorkerStep(w)) /\ WF_vars(TaskStep(w))

FairSpec == Spec /\ Fairness
-----------------------------------------------------------------------------
(* Properties *)

InQueue == {e.job : e \in queue}
InDeque == {overflow[i] : i \in DOMAIN overflow}
Held(c) == {w \in Workers : wpc[w] \in Holding /\ wjob[w] = c}
Holders == InState(Holding)

\* Every variable stays in its range; a worker holds a job exactly while it
\* awaits that job's task.
TypeOK ==
    /\ spc \in [Calls -> SubmitPc]
    /\ queue \subseteq [seq : 1..seq, job : Calls]
    /\ seq \in Nat
    /\ overflow \in Seq(Calls) /\ Len(overflow) <= OverflowMax
    /\ redis \subseteq Calls /\ kafka \subseteq Calls
    /\ wpc \in [Workers -> WorkerPc]
    /\ wjob \in [Workers -> Calls \cup {NoCall}]
    /\ \A w \in Workers : wpc[w] \in Holding <=> wjob[w] # NoCall
    /\ streak \in [Workers -> Nat]
    /\ inflight \in [Events -> Workers \cup {NoWorker}]
    /\ busy \in Nat
    /\ fate \in [Calls -> Fates]
    /\ cancels \in 0..MaxCancels

\* Where a job that submit() has accepted still waits or runs.
Kept(c) ==
    c \in InQueue \cup InDeque \cup redis \cup kafka \/ Held(c) # {}

\* No accepted job disappears: whatever the replies of Redis and Kafka and the
\* order in which the coroutines run, a job for which submit() returned queued,
\* shed or deferred is still in one of the stores or in a worker's hands, or it
\* was run, aborted by cancel(), or counted as evicted from the full deque.
NoJobLost == \A c \in Calls : spc[c] \in Accepted => Kept(c) \/ fate[c] # "none"

\* No job is duplicated inside the process: it is in at most one of the heap,
\* the deque and the workers' hands, at most once, and an ended job is in none.
OneCopy ==
    /\ \A c \in InQueue : c \notin InDeque /\ Held(c) = {} /\ fate[c] = "none"
    /\ \A c \in InDeque : Held(c) = {} /\ fate[c] = "none"
    /\ \A a, b \in queue : a.job = b.job => a = b
    /\ \A i, j \in DOMAIN overflow : overflow[i] = overflow[j] => i = j
    /\ \A v, w \in Holders : wjob[v] = wjob[w] => v = w

\* The bound on the heap is never exceeded although it is tested before the
\* fallback awaits: the test and the put are not separated by a suspension.
QueueBounded == Cardinality(queue) <= QueueMax

\* The busy gauge counts the workers that hold a job, so it never exceeds the
\* number of workers and its max(0, ...) never hides an imbalance.
BusyCounts == busy = Cardinality(Holders)

\* A registered task belongs to a worker that holds a job of that very event:
\* cancel(event_id) can never hit the task of another event.
RegistrySound ==
    \A e \in Events : inflight[e] # NoWorker =>
        inflight[e] \in Holders /\ EventOf[wjob[inflight[e]]] = e

\* Every running audit can be cancelled by its event id.  It needs the calls to
\* carry distinct events: with two jobs of one event it is refuted.
RegistryComplete ==
    \A w \in Holders : inflight[EventOf[wjob[w]]] = w

\* P0/P1 are never refused and never evicted, when the deque is large enough for
\* the calls that may end there.
NeverDropKept ==
    \A c \in NeverDrop : spc[c] # "overflow" /\ fate[c] # "evicted"

\* No lost wake-up on the memory queue: while workers are blocked in get(), each
\* entry of the heap has its own woken worker on the way.
NoLostWakeup ==
    InState({"waiting"}) # {} => Cardinality(queue) <= Cardinality(InState({"woken"}))

\* Each cancel() costs at most one worker.
DeadByCancel == Cardinality(InState({"dead", "stopping", "cancelled"})) <= cancels

\* The stores and the registry agree with the workers' hands: no job is in two places,
\* and cancel(event_id) reaches a running audit of that event or nothing.
PoolSound == TypeOK /\ OneCopy /\ RegistrySound

\* The counts and wake-ups of the loop: the heap keeps its bound over the awaits of
\* submit(), no entry is left to sleeping workers, a cancel costs one worker at most,
\* the gauge is exact, and audits of distinct events can all be cancelled.
WorkersSound == QueueBounded /\ BusyCounts /\ NoLostWakeup /\ DeadByCancel /\ RegistryComplete

\* A job in the heap is eventually taken, as long as a worker is left.
QueueDrains == \A c \in Calls : c \in InQueue ~> c \notin InQueue
-----------------------------------------------------------------------------
(* The pool implements AuditDelivery *)

\* What the life of each job looks like from outside.
Executing == {wjob[w] : w \in InState({"running", "stopping"})}

JobState == [c \in Calls |->
    IF spc[c] = "new" THEN "new"
    ELSE IF spc[c] \in Suspended THEN "pending"
    ELSE IF spc[c] = "overflow" THEN "refused"
    ELSE IF c \in Executing THEN "running"
    ELSE IF fate[c] = "evicted" THEN "dropped"
    ELSE IF fate[c] # "none" THEN "over" ELSE "accepted"]

Delivery == INSTANCE AuditDelivery WITH job <- JobState, Slots <- Cardinality(Workers)

\* The heap, the cascade and the loop together keep what AuditDelivery promises:
\* a job starts at most once and only after it was accepted, never more of them
\* run than there are workers, and only P2/P3 are refused.
DeliverySpec == Delivery!Spec
=============================================================================
