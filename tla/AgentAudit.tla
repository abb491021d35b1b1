------------------------------ MODULE AgentAudit ------------------------------
(* The audit of the P0 events that take the llm_agent lane, from the audit     *)
(* worker pool or the priority queue to a verdict in the event's row:          *)
(*   - a caller of start_audit_workflow (a pool worker that runs               *)
(*     _audit_pipeline of src/backend/log_ingestion.py, or the drain task of   *)
(*     src/backend/scheduler.py) takes one of the Limit agent slots, a counter *)
(*     in Redis (src/backend/temporal/client.py), and starts the workflow;     *)
(*   - the workflow's activities, in the Temporal worker process, judge the    *)
(*     event, save the verdict, give the slot back and trigger the response;   *)
(*   - the stuck-audit reaper closes the events that are still not analyzed.   *)
(* Other lanes take no slot and start no workflow.  AuditWorkerPool and        *)
(* AuditQueue say in which order the pool and the queue serve their jobs; here *)
(* they serve any of them.  The definitions named Faulty... are plausible      *)
(* mistakes in the definition that follows them.                               *)
EXTENDS Integers, FiniteSets

CONSTANTS
    Events,       \* P0 events of the llm_agent lane
    Threats,      \* those whose verdict triggers a response
    Limit,        \* audit_llm_agent_inflight_max
    Workers,      \* tasks of the audit worker pool
    MaxAttempts,  \* attempts of save_result
    MaxRuns,      \* BOUND: workflow runs of one event
    MaxFaults,    \* BOUND: failed or ambiguous calls, lost activity attempts, time-outs
                  \*   of a run, and crashes of the backend process
    NoEvent

ASSUME AuditAssumption ==
    /\ IsFiniteSet(Events) /\ Threats \subseteq Events /\ NoEvent \notin Events
    /\ Limit \in Nat \ {0} /\ Workers \in Nat \ {0}
    /\ MaxAttempts \in Nat \ {0} /\ MaxRuns \in Nat \ {0}
    /\ MaxFaults \in Nat

VARIABLES
    row,       \* [Events -> the verdict in the row; "none": not analyzed]
    call,      \* [Events -> where the event's audit job is in the backend]
    drain,     \* the event the drain task is at
    alive,     \* workers of the pool that a cancel has not ended
    total,     \* the counter soc:audit:inflight
    open,      \* [Events -> the run of the event's workflow that is open, or 0]
    runs,      \* [Events -> the runs started so far]
    agent,     \* [Events -> [Runs -> the activity at work, also of a closed run]]
    attempt,   \* [Events -> the attempt of the latest save_result]
    reap,      \* where the reaper is
    rows,      \* the rows it selected
    left,      \* those of them it has not visited
    owed,      \* the slots it is going to release
    responses, \* [Events -> calls of on_threat_detected]
    over,      \* ghost: a slot may have been released that was not held
    leaky,     \* ghost: a slot may have been kept for ever
    repeated,  \* ghost: the events of which a step was repeated or judged lost
    lost,      \* ghost: the events whose job was dropped on the way
    faults

slotVars == <<total, over, leaky>>
jobVars == <<call, drain, alive>>
flowVars == <<open, runs, agent, attempt>>
reapVars == <<reap, rows, left, owed>>
ghostVars == <<repeated, lost>>
vars == <<row, jobVars, slotVars, flowVars, reapVars, responses, ghostVars, faults>>

Runs == 1..MaxRuns
Verdicts == {"none", "failed", "fallback", "llm", "reaped"}
Calling == {"read", "shed", "incr", "start", "release", "zero", "async", "cad", "late"}
CallPc == {"pool", "queue", "gone"} \cup Calling
AgentPc == {"none", "judge", "save", "free", "zero", "saved", "respond"}
ReapPc == {"idle", "visit", "release", "zero"}

\* The jobs that the workers of the pool run.
Working == {e \in Events : call[e] \in Calling /\ e # drain}
Unanalyzed == {e \in Events : row[e] = "none"}

\* A slot is held from the increment to the decrement.
HoldingRuns == {a \in Events \X Runs :
    /\ agent[a[1]][a[2]] \in {"judge", "save", "free"}
    /\ open[a[1]] = a[2] \/ agent[a[1]][a[2]] # "judge"}
HoldingCalls == {e \in Events : call[e] \in {"start", "release"}}
Held == Cardinality(HoldingRuns) + Cardinality(HoldingCalls)

Init ==
    /\ row = [e \in Events |-> "none"]
    /\ call = [e \in Events |-> "pool"]
    /\ drain = NoEvent /\ alive = Workers
    /\ total = 0 /\ over = FALSE /\ leaky = FALSE
    /\ open = [e \in Events |-> 0]
    /\ runs = [e \in Events |-> 0]
    /\ agent = [e \in Events |-> [r \in Runs |-> "none"]]
    /\ attempt = [e \in Events |-> 0]
    /\ reap = "idle" /\ rows = {} /\ left = {} /\ owed = 0
    /\ responses = [e \in Events |-> 0]
    /\ repeated = {} /\ lost = {}
    /\ faults = 0
-----------------------------------------------------------------------------
(* A caller of start_audit_workflow *)

Goto(e, label) == call' = [call EXCEPT ![e] = label]
Fault == faults < MaxFaults /\ faults' = faults + 1

\* A worker takes the job and runs _audit_pipeline; without a Temporal client it
\* audits the event itself.
Take(e) ==
    /\ call[e] = "pool" /\ Cardinality(Working) < alive
    /\ \E label \in {"read", "async"} : Goto(e, label)
    /\ UNCHANGED <<row, drain, alive, slotVars, flowVars, reapVars, responses, ghostVars, faults>>

\* The drain task saw a free slot and popped the job.
DrainTakes(e) ==
    /\ call[e] = "queue" /\ drain = NoEvent /\ total < Limit
    /\ Goto(e, "read") /\ drain' = e
    /\ UNCHANGED <<row, alive, slotVars, flowVars, reapVars, responses, ghostVars, faults>>

\* The counter is read and compared in one step and incremented in a later one.
Read(e) ==
    /\ call[e] = "read"
    /\ Goto(e, IF total < Limit THEN "incr" ELSE "shed")
    /\ UNCHANGED <<row, drain, alive, slotVars, flowVars, reapVars, responses, ghostVars, faults>>

Incr(e) ==
    /\ call[e] = "incr"
    /\ total' = total + 1
    /\ Goto(e, "start")
    /\ UNCHANGED <<row, drain, alive, over, leaky, flowVars, reapVars, responses, ghostVars, faults>>

\* An exception of Redis lets the caller in; the increment may have been executed.
AcquireFails(e) ==
    /\ call[e] \in {"read", "incr"} /\ Fault
    /\ \/ total' = total /\ over' = TRUE
       \/ call[e] = "incr" /\ total' = total + 1 /\ over' = over
    /\ Goto(e, "start")
    /\ UNCHANGED <<row, drain, alive, leaky, flowVars, reapVars, responses, ghostVars>>

\* A shed event waits in the priority queue.
Enqueue(e) ==
    /\ call[e] = "shed"
    /\ Goto(e, "queue")
    /\ drain' = IF drain = e THEN NoEvent ELSE drain
    /\ UNCHANGED <<row, alive, slotVars, flowVars, reapVars, responses, ghostVars, faults>>

\* Redis refuses it: _audit_pipeline closes the event by rule, the drain task
\* does not look at the result and drops the job.
EnqueueFails(e) ==
    /\ call[e] = "shed" /\ Fault
    /\ Goto(e, "gone")
    /\ IF drain = e THEN drain' = NoEvent /\ lost' = lost \cup {e} /\ row' = row
       ELSE row' = [row EXCEPT ![e] = "fallback"] /\ UNCHANGED <<drain, lost>>
    /\ UNCHANGED <<alive, slotVars, flowVars, reapVars, responses, repeated>>

\* The payload expires before the drain task comes to the member.
AgesOut(e) ==
    /\ call[e] = "queue"
    /\ Goto(e, "gone") /\ lost' = lost \cup {e}
    /\ UNCHANGED <<row, drain, alive, slotVars, flowVars, reapVars, responses, repeated, faults>>

\* Temporal opens a run of the workflow audit-<event_id>, unless one is open.
Opens(e) ==
    /\ open[e] = 0 /\ runs[e] < MaxRuns
    /\ runs' = [runs EXCEPT ![e] = @ + 1]
    /\ open' = [open EXCEPT ![e] = runs[e] + 1]
    /\ agent' = [agent EXCEPT ![e][runs[e] + 1] = "judge"]
    /\ attempt' = [attempt EXCEPT ![e] = 1]

FaultyStarts(e) ==                                     \* audits it here as well
    /\ call[e] = "start" /\ Opens(e)
    /\ Goto(e, "async")
    /\ drain' = IF drain = e THEN NoEvent ELSE drain
    /\ UNCHANGED <<row, alive, slotVars, reapVars, responses, ghostVars, faults>>

Starts(e) ==
    /\ call[e] = "start" /\ Opens(e)
    /\ Goto(e, "gone")
    /\ drain' = IF drain = e THEN NoEvent ELSE drain
    /\ UNCHANGED <<row, alive, slotVars, reapVars, responses, ghostVars, faults>>

\* start_workflow raised, also because a run is open already.
StartFails(e) ==
    /\ call[e] = "start"
    /\ Goto(e, "release")
    /\ UNCHANGED <<row, drain, alive, slotVars, flowVars, reapVars, responses, ghostVars, faults>>

\* No answer within audit_temporal_start_timeout_s, but the run was opened.
StartTimesOut(e) ==
    /\ call[e] = "start" /\ Fault /\ Opens(e)
    /\ Goto(e, "release")
    /\ over' = TRUE /\ repeated' = repeated \cup {e}
    /\ UNCHANGED <<row, drain, alive, total, leaky, reapVars, responses, lost>>

\* After a start that returned False the drain task submits the job to the pool,
\* and a worker of the pool audits the event itself.
FallBack(e) ==
    /\ Goto(e, IF drain = e THEN "pool" ELSE "async")
    /\ drain' = IF drain = e THEN NoEvent ELSE drain

FaultyRelease(e) ==                                    \* leaves the slot taken
    /\ call[e] = "release"
    /\ FallBack(e)
    /\ UNCHANGED <<row, alive, slotVars, flowVars, reapVars, responses, ghostVars, faults>>

\* inflight_release: the decrement, and a reset in a later call if it went below 0.
Release(e) ==
    /\ call[e] = "release"
    /\ total' = total - 1
    /\ IF total - 1 < 0 THEN Goto(e, "zero") /\ drain' = drain ELSE FallBack(e)
    /\ UNCHANGED <<row, alive, over, leaky, flowVars, reapVars, responses, ghostVars, faults>>

Zero(e) ==
    /\ call[e] = "zero"
    /\ total' = 0
    /\ FallBack(e)
    /\ UNCHANGED <<row, alive, over, leaky, flowVars, reapVars, responses, ghostVars, faults>>

\* The exception is swallowed; the decrement may have been executed.
ReleaseFails(e) ==
    /\ call[e] = "release" /\ Fault
    /\ total' \in {total, total - 1}
    /\ leaky' = TRUE
    /\ FallBack(e)
    /\ UNCHANGED <<row, alive, over, flowVars, reapVars, responses, ghostVars>>
-----------------------------------------------------------------------------
(* The fallback in the backend process, within the time-out of the tier *)

AsyncSaves(e) ==
    /\ call[e] = "async"
    /\ row' = [row EXCEPT ![e] = "llm"]
    /\ Goto(e, "cad")
    /\ UNCHANGED <<drain, alive, slotVars, flowVars, reapVars, responses, ghostVars, faults>>

Respond(e) == responses' = [responses EXCEPT ![e] = IF e \in Threats THEN @ + 1 ELSE @]

AsyncResponds(e) ==
    /\ call[e] = "cad"
    /\ Respond(e)
    /\ Goto(e, "gone")
    /\ UNCHANGED <<row, drain, alive, slotVars, flowVars, reapVars, ghostVars, faults>>

\* The time-out, or an exception, comes before or after the verdict is saved;
\* _mark_analyzed then only writes to a row that is not analyzed, and it swallows
\* an exception of the database.
AsyncLate(e) ==
    /\ call[e] \in {"async", "cad"}
    /\ \/ row' = [row EXCEPT ![e] = IF @ = "none" THEN "failed" ELSE @] /\ UNCHANGED faults
       \/ row' = row /\ Fault
    /\ lost' = lost \cup {e}
    /\ Goto(e, "late")
    /\ UNCHANGED <<drain, alive, slotVars, flowVars, reapVars, responses, repeated>>

\* _fallback_analysis writes whatever the row holds, and swallows an exception.
AsyncFallback(e) ==
    /\ call[e] = "late"
    /\ \/ row' = [row EXCEPT ![e] = "fallback"] /\ UNCHANGED faults
       \/ row' = row /\ Fault
    /\ Goto(e, "gone")
    /\ UNCHANGED <<drain, alive, slotVars, flowVars, reapVars, responses, ghostVars>>
-----------------------------------------------------------------------------
(* A run of the workflow.  An activity that is at work when its run is closed  *)
(* goes on to its own end, but nothing follows it.                             *)

AgentAt(e, r, label) == agent[e][r] = label
AgentGoto(e, r, label) ==
    agent' = [agent EXCEPT ![e][r] = IF open[e] = r THEN label ELSE "none"]
Closes(e, r) ==
    /\ open' = [open EXCEPT ![e] = IF @ = r THEN 0 ELSE @]
    /\ agent' = [agent EXCEPT ![e][r] = "none"]
Works(e, r, label) == agent' = [agent EXCEPT ![e][r] = label]

Judge(e, r) ==
    /\ AgentAt(e, r, "judge")
    /\ AgentGoto(e, r, "save")
    /\ UNCHANGED <<row, jobVars, slotVars, open, runs, attempt, reapVars, responses, ghostVars, faults>>

Save(e, r) ==
    /\ AgentAt(e, r, "save")
    /\ row' = [row EXCEPT ![e] = "llm"]
    /\ Works(e, r, "free")
    /\ UNCHANGED <<jobVars, slotVars, open, runs, attempt, reapVars, responses, ghostVars, faults>>

Free(e, r) ==
    /\ AgentAt(e, r, "free")
    /\ total' = total - 1
    /\ Works(e, r, IF total - 1 < 0 THEN "zero" ELSE "saved")
    /\ UNCHANGED <<row, jobVars, over, leaky, open, runs, attempt, reapVars, responses, ghostVars, faults>>

FreeZero(e, r) ==
    /\ AgentAt(e, r, "zero")
    /\ total' = 0
    /\ Works(e, r, "saved")
    /\ UNCHANGED <<row, jobVars, over, leaky, open, runs, attempt, reapVars, responses, ghostVars, faults>>

FreeFails(e, r) ==
    /\ AgentAt(e, r, "free") /\ Fault
    /\ total' \in {total, total - 1}
    /\ leaky' = TRUE
    /\ Works(e, r, "saved")
    /\ UNCHANGED <<row, jobVars, over, open, runs, attempt, reapVars, responses, ghostVars>>

FaultySaved(e, r) ==                                   \* never triggers the response
    /\ AgentAt(e, r, "saved")
    /\ Closes(e, r)
    /\ UNCHANGED <<row, jobVars, slotVars, runs, attempt, reapVars, responses, ghostVars, faults>>

\* A verdict that is a threat goes on to the response.
Saved(e, r) ==
    /\ AgentAt(e, r, "saved")
    /\ IF e \in Threats
       THEN AgentGoto(e, r, "respond") /\ open' = open
       ELSE Closes(e, r)
    /\ UNCHANGED <<row, jobVars, slotVars, runs, attempt, reapVars, responses, ghostVars, faults>>

\* The attempt fails or is lost, perhaps after its commit and its release:
\* save_result runs again as a whole.
SaveLost(e, r) ==
    /\ agent[e][r] \in {"save", "free", "zero", "saved"} /\ open[e] = r
    /\ attempt[e] < MaxAttempts /\ Fault
    /\ attempt' = [attempt EXCEPT ![e] = @ + 1]
    /\ Works(e, r, "save")
    /\ over' = (over \/ agent[e][r] \in {"zero", "saved"})
    /\ UNCHANGED <<row, jobVars, total, leaky, open, runs, reapVars, responses, ghostVars>>

Responds(e, r) ==
    /\ AgentAt(e, r, "respond")
    /\ Respond(e)
    /\ Closes(e, r)
    /\ UNCHANGED <<row, jobVars, slotVars, runs, attempt, reapVars, ghostVars, faults>>

\* The attempt is lost after the response was triggered.
RespondLost(e, r) ==
    /\ AgentAt(e, r, "respond") /\ open[e] = r /\ Fault
    /\ Respond(e)
    /\ repeated' = repeated \cup {e}
    /\ UNCHANGED <<row, jobVars, slotVars, flowVars, reapVars, lost>>

\* The run is closed from outside: by the execution time-out, after the last
\* attempt of an activity, or by terminate().  Nobody releases its slot.
Shuts(e) == open' = [open EXCEPT ![e] = 0]

TimesOut(e) ==
    /\ open[e] # 0 /\ Fault
    /\ Shuts(e)
    /\ \/ agent' = agent
       \/ agent' = [agent EXCEPT ![e][open[e]] = "none"]
    /\ leaky' = TRUE /\ lost' = lost \cup {e}
    /\ UNCHANGED <<row, jobVars, total, over, runs, attempt, reapVars, responses, repeated>>
-----------------------------------------------------------------------------
(* The stuck-audit reaper *)

\* Some of the events are older than stuck_audit_reap_minutes.  From here on
\* their rows are those that the session holds.
Select ==
    /\ reap = "idle"
    /\ \E stale \in SUBSET Unanalyzed \ {{}} :
        /\ rows' = stale /\ left' = stale
        /\ repeated' = repeated \cup stale /\ lost' = lost \cup stale
    /\ reap' = "visit" /\ over' = TRUE /\ leaky' = TRUE
    /\ UNCHANGED <<row, jobVars, total, flowVars, owed, responses, faults>>

\* audit_worker.cancel: the job of a running worker ends where it is, and so does
\* the worker.
CancelJob(e) ==
    IF e \in Working THEN Goto(e, "gone") /\ alive' = alive - 1
    ELSE UNCHANGED <<call, alive>>

\* terminate() fails when Temporal cannot be reached.
Visit(e) ==
    /\ reap = "visit" /\ e \in left
    /\ left' = left \ {e}
    /\ CancelJob(e)
    /\ \/ Shuts(e) /\ UNCHANGED faults
       \/ open' = open /\ Fault
    /\ UNCHANGED <<row, drain, slotVars, runs, agent, attempt, reap, rows, owed,
                   responses, ghostVars>>

FaultyCommit ==                                        \* forgets session.commit()
    /\ reap = "visit" /\ left = {}
    /\ reap' = "release" /\ owed' = Cardinality(rows) /\ rows' = {}
    /\ UNCHANGED <<row, jobVars, slotVars, flowVars, left, responses, ghostVars, faults>>

\* The flush writes the selected rows as the session holds them.
Commit ==
    /\ reap = "visit" /\ left = {}
    /\ row' = [e \in Events |-> IF e \in rows THEN "reaped" ELSE row[e]]
    /\ reap' = "release" /\ owed' = Cardinality(rows) /\ rows' = {}
    /\ UNCHANGED <<jobVars, slotVars, flowVars, left, responses, ghostVars, faults>>

CommitFails ==
    /\ reap = "visit" /\ left = {} /\ Fault
    /\ reap' = "idle" /\ rows' = {}
    /\ UNCHANGED <<row, jobVars, slotVars, flowVars, left, owed, responses, ghostVars>>

\* As many releases as rows, whether or not their events held a slot.
ReapRelease ==
    /\ reap = "release" /\ owed > 0
    /\ total' = total - 1 /\ owed' = owed - 1
    /\ reap' = IF total - 1 < 0 THEN "zero" ELSE "release"
    /\ UNCHANGED <<row, jobVars, over, leaky, flowVars, rows, left, responses, ghostVars, faults>>

ReapZero ==
    /\ reap = "zero"
    /\ total' = 0 /\ reap' = "release"
    /\ UNCHANGED <<row, jobVars, over, leaky, flowVars, rows, left, owed, responses, ghostVars, faults>>

ReapEnds ==
    /\ reap = "release" /\ owed = 0
    /\ reap' = "idle"
    /\ UNCHANGED <<row, jobVars, slotVars, flowVars, rows, left, owed, responses, ghostVars, faults>>
-----------------------------------------------------------------------------
(* Redis and the process *)

FaultyKeyExpires ==                                    \* sets no expiry
    /\ Held = 0 /\ total # 0
    /\ UNCHANGED vars

\* The counter expires an hour after the last increment; a slot is held for less.
KeyExpires ==
    /\ Held = 0 /\ total # 0
    /\ total' = 0
    /\ UNCHANGED <<row, jobVars, over, leaky, flowVars, reapVars, responses, ghostVars, faults>>

\* The priority queue and the workflows outlive the backend process.
Crash ==
    /\ Fault
    /\ LET gone == {e \in Events : call[e] \notin {"queue", "gone"}}
       IN  /\ call' = [e \in Events |-> IF e \in gone THEN "gone" ELSE call[e]]
           /\ lost' = lost \cup gone
           /\ leaky' = TRUE
    /\ drain' = NoEvent /\ alive' = Workers
    /\ reap' = "idle" /\ rows' = {} /\ left' = {} /\ owed' = 0
    /\ UNCHANGED <<row, total, over, flowVars, responses, repeated>>
-----------------------------------------------------------------------------
CallSteps(e) ==
    \/ Read(e) \/ Incr(e) \/ AcquireFails(e)
    \/ Enqueue(e) \/ EnqueueFails(e)
    \/ Starts(e) \/ StartFails(e) \/ StartTimesOut(e)
    \/ Release(e) \/ Zero(e) \/ ReleaseFails(e)
    \/ AsyncSaves(e) \/ AsyncResponds(e) \/ AsyncLate(e) \/ AsyncFallback(e)

AgentSteps(e, r) ==
    \/ Judge(e, r) \/ Save(e, r) \/ Free(e, r) \/ FreeZero(e, r) \/ FreeFails(e, r)
    \/ Saved(e, r) \/ SaveLost(e, r)
    \/ Responds(e, r) \/ RespondLost(e, r)

ReapSteps ==
    \/ Select \/ (\E e \in Events : Visit(e))
    \/ Commit \/ CommitFails \/ ReapRelease \/ ReapZero \/ ReapEnds

Next ==
    \/ \E e \in Events :
        \/ Take(e) \/ DrainTakes(e) \/ AgesOut(e)
        \/ CallSteps(e)
        \/ (\E r \in Runs : AgentSteps(e, r))
        \/ TimesOut(e)
    \/ ReapSteps
    \/ KeyExpires
    \/ Crash

Spec == Init /\ [][Next]_vars

\* The event loop serves every task and Temporal keeps dispatching activities, so
\* what is under way for an event goes on; the reaper is a loop that sleeps
\* between its rounds, and Redis lets the key expire.
FairSpec ==
    /\ Spec
    /\ \A e \in Events : WF_vars(CallSteps(e) \/ \E r \in Runs : AgentSteps(e, r))
    /\ WF_vars(ReapSteps) /\ WF_vars(KeyExpires)
-----------------------------------------------------------------------------
(* Properties *)

TypeOK ==
    /\ row \in [Events -> Verdicts]
    /\ call \in [Events -> CallPc]
    /\ drain \in Events \cup {NoEvent} /\ alive \in 0..Workers
    /\ total \in Int
    /\ open \in [Events -> 0..MaxRuns] /\ runs \in [Events -> 0..MaxRuns]
    /\ agent \in [Events -> [Runs -> AgentPc]]
    /\ attempt \in [Events -> 0..MaxAttempts]
    /\ reap \in ReapPc /\ rows \subseteq Events /\ left \subseteq Events
    /\ owed \in 0..Cardinality(Events)
    /\ responses \in [Events -> Nat]
    /\ over \in BOOLEAN /\ leaky \in BOOLEAN
    /\ repeated \subseteq Events /\ lost \subseteq Events
    /\ faults \in 0..MaxFaults

\* The counter covers every slot that is held, as long as no release was one too
\* many: no Redis failure let a caller in, no start was ambiguous, save_result
\* was not repeated behind its release, and the reaper closed nothing.
SlotsCovered == ~over => Held <= total

\* The counter counts no slot that nobody holds, as long as no release failed, no
\* run ended without its save_result, the process did not crash and the reaper
\* closed nothing: every way out of start_audit_workflow gives the slot back.
SlotsReturned == ~leaky => total <= Held

\* The slot counter is exact from both sides, but for the calls that each part excepts.
SlotsSound == TypeOK /\ SlotsCovered /\ SlotsReturned

\* Reading and incrementing the counter are two steps, so the limit can be
\* passed, but by no more than one slot for each task that may be between them
\* while another starts: the workers of the pool, next to the drain task.
AgentsBounded == ~over => Held <= Limit + Workers

\* An event that is not analyzed has a job or an open run, unless its job was
\* dropped by a crash, by a cancel of the reaper, in the queue, or with its run.
NeverForgotten ==
    \A e \in Unanalyzed \ lost : call[e] # "gone" \/ open[e] # 0

\* At most one response for an event, unless a start was ambiguous, the response
\* activity was repeated, or the reaper gave up the event while its audit went on.
RespondedOnce == \A e \in Events \ repeated : responses[e] <= 1

\* Each event is in somebody's hands until it is analyzed, and answered once.
EventsSound == NeverForgotten /\ RespondedOnce

\* Whatever happens to its job, every event is eventually analyzed.
EveryEventAnalyzed == \A e \in Events : <>(row[e] # "none")

\* The verdict on a threat is followed by a response, unless the run or the
\* caller that reached it was ended before.
ThreatAnswered ==
    \A e \in Threats : row[e] = "llm" ~> responses[e] > 0 \/ e \in lost

\* Leaked slots do not block the agents for ever.
SlotsReclaimed == []<>(total < Limit)

\* The reaper only closes events that are not analyzed (scheduler.py:782).
ReaperSparesVerdicts ==
    [][\A e \in Events : row[e] = "llm" => row'[e] # "reaped"]_vars
=============================================================================
