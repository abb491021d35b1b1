------------------------------ MODULE AuditQueue ------------------------------
(* The Redis priority queue of postponed audits (src/backend/audit_pq.py) and  *)
(* the drain task that empties it (src/backend/scheduler.py,                   *)
(* _drain_audit_pq_once): a sorted set of event ids, one payload key per       *)
(* event, and both with expiry times.                                          *)
(*                                                                             *)
(* One backend process runs one drain task; the workers that postpone audits   *)
(* run between any two of its Redis calls, each of which is one atomic step.   *)
(* An enqueue is one MULTI/EXEC pipeline.  Time is counted in whole units;     *)
(* Redis drops a key when its life is over, the drain calls a job aged when    *)
(* its age exceeds the tier's TTL.  Only P0 and P1 jobs are ever enqueued, and *)
(* submit() cannot refuse behind the backpressure test (90% of the same        *)
(* bound), so those two branches of the drain are left out.                    *)
(*                                                                             *)
(* The definitions named Faulty... are plausible mistakes in the definition    *)
(* that follows them and are not part of the specification.                    *)
EXTENDS Integers, Sequences, FiniteSets

CONSTANTS
    Events,
    Priority,    \* [Events -> Nat]
    P0,          \* the events of tier P0; the others are P1
    Agent,       \* those whose lane is a Temporal workflow (llm_agent, llm_deep)
    Ttl,         \* [Events -> Nat]: pq_ttl_for_tier of the event's tier
    MinLife,     \* the shortest expiry enqueue() sets (60 s)
    Retries,     \* how often an aged job is enqueued again (2)
    Batch,       \* audit_pq_drain_batch
    Window,      \* how far pop_matching looks into the sorted set
    PurgeWindow, \* how far purge_stale does
    Limit,       \* agent workflows that may be in flight
    Offers,      \* [Events -> Nat] BOUND: how often workers postpone the event
    MaxNow,      \* BOUND: the clock
    MaxStarts,   \* BOUND: workflows started by others than the drain
    MaxPressure, \* BOUND: rounds in which the worker pool is nearly full
    MaxFaults,   \* BOUND: failures of Redis and the database, and crashes
    NoEvent, NoJob

Larger(a, b) == IF a > b THEN a ELSE b

Life(e) == Larger(MinLife, Ttl[e])           \* of the payload key
KeyLife(e) == Larger(MinLife, 2 * Ttl[e])    \* of the sorted set, from then on

ASSUME QueueAssumption ==
    /\ IsFiniteSet(Events) /\ NoEvent \notin Events
    /\ Priority \in [Events -> Nat] /\ P0 \subseteq Events /\ Agent \subseteq Events
    /\ Ttl \in [Events -> Nat \ {0}] /\ MinLife \in Nat \ {0}
    /\ Retries \in Nat /\ Batch \in Nat \ {0}
    /\ Window \in Nat \ {0} /\ PurgeWindow \in Nat \ {0}
    /\ Limit \in Nat \ {0}
    /\ Offers \in [Events -> Nat] /\ MaxNow \in Nat /\ MaxStarts \in Nat
    /\ MaxPressure \in Nat /\ MaxFaults \in Nat
    /\ NoJob \notin [at : Nat, retry : Nat]

\* The settings give P0 twice the TTL of P1 (3600 s and 1800 s), so the sorted
\* set always outlives the payloads.
ASSUME TtlAssumption == \A e, f \in Events : Ttl[e] <= 2 * Ttl[f]

VARIABLES
    now,        \* the clock
    members,    \* the sorted set
    score,      \* [Events -> the enqueue time in its score]
    keyEnd,     \* when the sorted set expires
    payload,    \* [Events -> the stored job, or NoJob]
    pc,         \* which call the drain task is at
    cur,        \* the event it has in hand
    hand,       \* the payload it has read, or NoJob
    todo,       \* the members it still has to look at
    left,       \* iterations left in this round
    routed,     \* did this round route a job
    inflight,   \* agent workflows in flight
    offers,     \* [Events -> how often the event was postponed]
    handled,    \* [Events -> how often it was routed or closed]
    owed,       \* events postponed, and neither routed nor closed since
    expired,    \* owed events whose payload expired
    starts, pressure, faults

redisVars == <<members, score, keyEnd, payload>>
drainVars == <<pc, cur, hand, todo, left, routed>>
countVars == <<offers, handled, owed, expired>>
boundVars == <<starts, pressure, faults>>
vars == <<now, redisVars, drainVars, inflight, countVars, boundVars>>

Job(t, r) == [at |-> t, retry |-> r]

\* What the drain has taken out of the sorted set and still has to deal with.
Taken == {"get", "delete", "drop", "retry", "close", "start", "route", "requeue"}
DrainPc == {"stats", "pop", "scan", "look", "take", "list", "exists", "zrem"} \cup Taken

Init ==
    /\ now = 0
    /\ members = {} /\ score = [e \in Events |-> 0] /\ keyEnd = 0
    /\ payload = [e \in Events |-> NoJob]
    /\ pc = "stats" /\ cur = NoEvent /\ hand = NoJob /\ todo = <<>>
    /\ left = Batch /\ routed = FALSE
    /\ inflight = 0
    /\ offers = [e \in Events |-> 0] /\ handled = [e \in Events |-> 0]
    /\ owed = {} /\ expired = {}
    /\ starts = 0 /\ pressure = 0 /\ faults = 0
-----------------------------------------------------------------------------
(* The queue *)

\* The pipeline of enqueue().  It replaces what the event had.
Put(e, r) ==
    /\ members' = members \cup {e}
    /\ score' = [score EXCEPT ![e] = now]
    /\ keyEnd' = now + KeyLife(e)
    /\ payload' = [payload EXCEPT ![e] = Job(now, r)]

\* Order of the scores: the higher priority first, then the later job.
Before(e, f) ==
    \/ Priority[e] > Priority[f]
    \/ Priority[e] = Priority[f] /\ score[e] >= score[f]

\* What ZRANGE lists: the first n members in order.
Listing(n) ==
    LET k == IF Cardinality(members) < n THEN Cardinality(members) ELSE n IN
    {s \in [1..k -> members] :
        /\ \A i, j \in 1..k : i < j => s[i] # s[j] /\ Before(s[i], s[j])
        /\ \A e \in members : \A i \in 1..k : (\E j \in 1..k : s[j] = e) \/ Before(s[i], e)}

\* A worker postpones an audit: submit() on a full pool, or no free agent slot.
Offer(e) ==
    /\ offers[e] < Offers[e]
    /\ offers' = [offers EXCEPT ![e] = @ + 1]
    /\ Put(e, 0)
    /\ owed' = owed \cup {e} /\ expired' = expired \ {e}
    /\ UNCHANGED <<now, drainVars, inflight, handled, boundVars>>

Alive(e) == payload[e] # NoJob /\ now + 1 < payload[e].at + Life(e)

\* Time passes, and Redis drops what has expired.
Tick ==
    /\ now < MaxNow /\ now' = now + 1
    /\ payload' = [e \in Events |-> IF Alive(e) THEN payload[e] ELSE NoJob]
    /\ members' = IF now + 1 < keyEnd THEN members ELSE {}
    /\ expired' = expired \cup
           {e \in owed : /\ payload[e] # NoJob /\ ~Alive(e)
                         /\ e \in members \/ (pc = "get" /\ cur = e)}
    /\ UNCHANGED <<score, keyEnd, drainVars, inflight, offers, handled, owed, boundVars>>
-----------------------------------------------------------------------------
(* The drain task *)

NewRound == pc' = "stats" /\ left' = Batch /\ routed' = FALSE

\* Nothing left to pop: a round that routed nothing purges ghosts.
EndRound ==
    /\ cur' = NoEvent /\ hand' = NoJob /\ todo' = <<>>
    /\ IF routed THEN NewRound ELSE pc' = "list" /\ UNCHANGED <<left, routed>>

\* The next iteration of the round; done says whether this one routed its job.
NextJob(done) ==
    LET any == routed \/ done IN
    /\ cur' = NoEvent /\ hand' = NoJob /\ todo' = <<>>
    /\ IF left > 0
       THEN pc' = "stats" /\ routed' = any /\ UNCHANGED left
       ELSE IF any THEN NewRound ELSE pc' = "list" /\ UNCHANGED <<left, routed>>

AgentFull == inflight >= Limit

\* With all agent slots taken the round looks for a job that needs none.
Stats ==
    /\ pc = "stats"
    /\ pc' = IF AgentFull THEN "scan" ELSE "pop"
    /\ left' = left - 1
    /\ UNCHANGED <<cur, hand, todo, routed, redisVars>>

FaultyPop ==                                         \* reads the head and leaves it there
    /\ pc = "pop" /\ members # {}
    /\ \E e \in members :
          /\ \A f \in members : Before(e, f)
          /\ cur' = e
    /\ pc' = "get"
    /\ UNCHANGED <<hand, todo, left, routed, redisVars>>

\* ZPOPMIN of pop_highest.
Pop ==
    /\ pc = "pop" /\ members # {}
    /\ \E e \in members :
          /\ \A f \in members : Before(e, f)
          /\ members' = members \ {e}
          /\ cur' = e
    /\ pc' = "get"
    /\ UNCHANGED <<hand, todo, left, routed, score, keyEnd, payload>>

PopEmpty == pc = "pop" /\ members = {} /\ EndRound /\ UNCHANGED redisVars

Get ==
    /\ pc = "get"
    /\ hand' = payload[cur]
    /\ pc' = "delete"
    /\ UNCHANGED <<cur, todo, left, routed, redisVars>>

Aged(e) == now - hand.at > Ttl[e]

\* What becomes of the job that was popped.
Decide(e) ==
    /\ todo' = <<>>
    /\ pc' = IF Aged(e) THEN IF hand.retry < Retries THEN "retry" ELSE "close"
             ELSE IF e \in Agent \cap P0 THEN "start" ELSE "route"
    /\ UNCHANGED <<cur, hand, left, routed>>

\* A member without a payload ends the round.
Delete ==
    /\ pc = "delete"
    /\ payload' = [payload EXCEPT ![cur] = NoJob]
    /\ IF hand = NoJob THEN EndRound ELSE Decide(cur)
    /\ UNCHANGED <<members, score, keyEnd>>

\* ZRANGE of pop_matching.
Scan ==
    /\ pc = "scan"
    /\ todo' \in Listing(Window)
    /\ pc' = "look"
    /\ UNCHANGED <<cur, hand, left, routed, redisVars>>

EndlessLook ==                                       \* does not get past a ghost
    /\ pc = "look" /\ todo # <<>>
    /\ IF payload[Head(todo)] = NoJob \/ Head(todo) \in Agent
       THEN UNCHANGED <<pc, todo, hand>>
       ELSE pc' = "take" /\ hand' = payload[Head(todo)] /\ UNCHANGED todo
    /\ UNCHANGED <<cur, left, routed, redisVars>>

\* One candidate: ghosts and agent jobs stay where they are.
Look ==
    /\ pc = "look" /\ todo # <<>>
    /\ IF payload[Head(todo)] = NoJob \/ Head(todo) \in Agent
       THEN todo' = Tail(todo) /\ UNCHANGED <<pc, hand>>
       ELSE pc' = "take" /\ hand' = payload[Head(todo)] /\ UNCHANGED todo
    /\ UNCHANGED <<cur, left, routed, redisVars>>

LookEnds == pc = "look" /\ todo = <<>> /\ EndRound /\ UNCHANGED redisVars

\* ZREM tells whether the candidate was still there.
Take ==
    /\ pc = "take"
    /\ IF Head(todo) \in members
       THEN /\ pc' = "drop" /\ cur' = Head(todo)
            /\ members' = members \ {Head(todo)} /\ UNCHANGED <<hand, todo>>
       ELSE /\ pc' = "look" /\ hand' = NoJob /\ todo' = Tail(todo)
            /\ UNCHANGED <<cur, members>>
    /\ UNCHANGED <<left, routed, score, keyEnd, payload>>

Drop ==
    /\ pc = "drop"
    /\ payload' = [payload EXCEPT ![cur] = NoJob]
    /\ Decide(cur)
    /\ UNCHANGED <<members, score, keyEnd>>

\* purge_stale: ZRANGE, then EXISTS and ZREM for each member.
List ==
    /\ pc = "list"
    /\ todo' \in Listing(PurgeWindow)
    /\ pc' = "exists"
    /\ UNCHANGED <<cur, hand, left, routed, redisVars>>

Exists ==
    /\ pc = "exists" /\ todo # <<>>
    /\ IF payload[Head(todo)] = NoJob
       THEN pc' = "zrem" /\ UNCHANGED todo
       ELSE todo' = Tail(todo) /\ UNCHANGED pc
    /\ UNCHANGED <<cur, hand, left, routed, redisVars>>

ZRem ==
    /\ pc = "zrem"
    /\ members' = members \ {Head(todo)}
    /\ todo' = Tail(todo)
    /\ pc' = "exists"
    /\ UNCHANGED <<cur, hand, left, routed, score, keyEnd, payload>>

PurgeEnds ==
    /\ pc = "exists" /\ todo = <<>>
    /\ NewRound
    /\ UNCHANGED <<cur, hand, todo, redisVars>>

\* The steps that only read and pop the queue.
PopStep ==
    /\ \/ Stats \/ Pop \/ PopEmpty \/ Get \/ Delete
       \/ Scan \/ Look \/ LookEnds \/ Take \/ Drop
       \/ List \/ Exists \/ ZRem \/ PurgeEnds
    /\ UNCHANGED <<now, inflight, countVars, boundVars>>

\* An aged job is enqueued again, with a new age.
Retry ==
    /\ pc = "retry"
    /\ Put(cur, hand.retry + 1)
    /\ NextJob(FALSE)
    /\ UNCHANGED <<now, inflight, countVars, boundVars>>

Done(e) ==
    /\ handled' = [handled EXCEPT ![e] = @ + 1]
    /\ owed' = owed \ {e} /\ expired' = expired \ {e}
    /\ UNCHANGED offers

\* _fallback_analysis and _mark_analyzed.
Close ==
    /\ pc = "close"
    /\ Done(cur) /\ NextJob(FALSE)
    /\ UNCHANGED <<now, redisVars, inflight, boundVars>>

\* start_audit_workflow: started, no slot ("shed"), or Temporal is not there.
Start ==
    /\ pc = "start"
    /\ \/ ~AgentFull /\ inflight' = inflight + 1 /\ Done(cur) /\ NextJob(TRUE)
       \/ AgentFull /\ pc' = "requeue"
          /\ UNCHANGED <<inflight, countVars, cur, hand, todo, left, routed>>
       \/ pc' = "route" /\ UNCHANGED <<inflight, countVars, cur, hand, todo, left, routed>>
    /\ UNCHANGED <<now, redisVars, boundVars>>

\* The worker pool takes the job, or is too full.
Route ==
    /\ pc = "route"
    /\ \/ Done(cur) /\ NextJob(TRUE) /\ UNCHANGED pressure
       \/ /\ pressure < MaxPressure /\ pressure' = pressure + 1
          /\ pc' = "requeue" /\ UNCHANGED <<countVars, cur, hand, todo, left, routed>>
    /\ UNCHANGED <<now, redisVars, inflight, starts, faults>>

FaultyRequeue ==                                     \* ends the round without it
    /\ pc = "requeue"
    /\ EndRound
    /\ UNCHANGED <<now, redisVars, inflight, countVars, boundVars>>

\* _reenqueue_pq: the job goes back, with a new age, and the round ends.
Requeue ==
    /\ pc = "requeue"
    /\ Put(cur, hand.retry)
    /\ EndRound
    /\ UNCHANGED <<now, inflight, countVars, boundVars>>
-----------------------------------------------------------------------------
(* Failures *)

\* A Redis call raises, before or after the server executed it.
Popping == {"pop", "get", "delete", "scan", "look", "take", "drop"}

PopFails ==
    /\ pc \in Popping /\ EndRound
    /\ \/ UNCHANGED redisVars
       \/ /\ pc = "pop" /\ members # {}
          /\ \E e \in members : (\A f \in members : Before(e, f)) /\ members' = members \ {e}
          /\ UNCHANGED <<score, keyEnd, payload>>
       \/ pc = "take" /\ members' = members \ {Head(todo)} /\ UNCHANGED <<score, keyEnd, payload>>
       \/ /\ pc \in {"delete", "drop"} /\ payload' = [payload EXCEPT ![cur] = NoJob]
          /\ UNCHANGED <<members, score, keyEnd>>

\* The drain ignores that enqueue() returned False.
PutFails ==
    \/ pc = "retry" /\ NextJob(FALSE) /\ (Put(cur, hand.retry + 1) \/ UNCHANGED redisVars)
    \/ pc = "requeue" /\ EndRound /\ (Put(cur, hand.retry) \/ UNCHANGED redisVars)

PurgeFails ==
    /\ pc \in {"list", "exists", "zrem"}
    /\ NewRound /\ todo' = <<>> /\ UNCHANGED <<cur, hand, score, keyEnd, payload>>
    /\ \/ UNCHANGED members
       \/ pc = "zrem" /\ members' = members \ {Head(todo)}

\* inflight_stats() answers with a limit of 0.
StatsFails ==
    /\ pc = "stats"
    /\ pc' = "pop" /\ left' = left - 1
    /\ UNCHANGED <<cur, hand, todo, routed, redisVars>>

\* The database refuses the fallback verdict.
CloseFails == pc = "close" /\ NextJob(FALSE) /\ UNCHANGED redisVars

Fails ==
    /\ faults < MaxFaults /\ faults' = faults + 1
    /\ PopFails \/ PutFails \/ PurgeFails \/ StatsFails \/ CloseFails
    /\ UNCHANGED <<now, inflight, countVars, starts, pressure>>

\* The backend restarts.  Redis keeps the queue.
Crash ==
    /\ faults < MaxFaults /\ faults' = faults + 1
    /\ NewRound /\ cur' = NoEvent /\ hand' = NoJob /\ todo' = <<>>
    /\ UNCHANGED <<now, redisVars, inflight, countVars, starts, pressure>>

\* A worker starts a workflow for an event that was not postponed.
OtherStarts ==
    /\ starts < MaxStarts /\ ~AgentFull
    /\ starts' = starts + 1 /\ inflight' = inflight + 1
    /\ UNCHANGED <<now, redisVars, drainVars, countVars, pressure, faults>>

WorkflowEnds ==
    /\ inflight > 0 /\ inflight' = inflight - 1
    /\ UNCHANGED <<now, redisVars, drainVars, countVars, boundVars>>
-----------------------------------------------------------------------------
DrainStep == PopStep \/ Retry \/ Close \/ Start \/ Route \/ Requeue

Next ==
    \/ \E e \in Events : Offer(e)
    \/ Tick
    \/ DrainStep \/ Fails \/ Crash
    \/ OtherStarts \/ WorkflowEnds

Spec == Init /\ [][Next]_vars

\* The event loop runs the drain task, and workflows have an execution timeout.
Fairness == WF_vars(DrainStep) /\ WF_vars(WorkflowEnds)

FairSpec == Spec /\ Fairness
-----------------------------------------------------------------------------
(* Properties *)

TypeOK ==
    /\ now \in 0..MaxNow
    /\ members \subseteq Events /\ score \in [Events -> 0..MaxNow] /\ keyEnd \in Nat
    /\ payload \in [Events -> [at : 0..MaxNow, retry : 0..Retries] \cup {NoJob}]
    /\ pc \in DrainPc
    /\ cur \in Events \cup {NoEvent} /\ (cur \in Events <=> pc \in Taken)
    /\ hand \in [at : 0..MaxNow, retry : 0..Retries] \cup {NoJob}
    /\ pc \in (Taken \ {"get", "delete"}) \cup {"take"} => hand # NoJob
    /\ pc = "retry" => hand.retry < Retries
    /\ todo \in Seq(Events) /\ (pc \in {"take", "zrem"} => todo # <<>>)
    /\ left \in 0..Batch /\ routed \in BOOLEAN
    /\ pc = "stats" => left > 0
    /\ inflight \in 0..Limit
    /\ offers \in [Events -> Nat] /\ handled \in [Events -> Nat]
    /\ owed \subseteq Events /\ expired \subseteq owed
    /\ starts \in 0..MaxStarts /\ pressure \in 0..MaxPressure
    /\ faults \in 0..MaxFaults

Queued(e) == e \in members /\ payload[e] # NoJob

InHand(e) ==
    /\ pc \in Taken /\ cur = e
    /\ pc = "get" => payload[e] # NoJob
    /\ pc = "delete" => hand # NoJob

One(p) == IF p THEN 1 ELSE 0

\* How many more times the event can be audited.
Chances(e) == One(e \in members) + One(pc \in Taken /\ cur = e)

\* A postponed audit stays in the queue or in the drain's hands until it is
\* routed or closed, through shed slots, a full worker pool and aging, unless its
\* payload expires, Redis or the database fails, or the process crashes.  (For an
\* event postponed twice purge_stale can remove a member that is not stale.)
PostponedKept ==
    faults = 0 =>
        \A e \in owed : Queued(e) \/ InHand(e) \/ e \in expired \/ offers[e] > 1

\* However the calls of the drain interleave with the workers, an event is not
\* audited more often than it was postponed.
NotMultiplied == \A e \in Events : handled[e] + Chances(e) <= offers[e]

\* The sorted set does not expire before the payload of one of its members,
\* although every enqueue sets its expiry anew for the enqueued event's tier.
SetOutlivesPayloads ==
    \A e \in members : payload[e] # NoJob => payload[e].at + Life(e) <= keyEnd

\* The keys of the queue agree over the calls of the drain: no audit is multiplied, and
\* the sorted set lives as long as the payloads of its members.
QueueSound == TypeOK /\ NotMultiplied /\ SetOutlivesPayloads

\* No member stays in the queue for ever: neither a ghost, nor a shed job, nor the
\* jobs behind them.
QueueDrains == \A e \in Events : e \in members ~> e \notin members
=============================================================================
