--------------------------- MODULE AgentAuditProofs ---------------------------
(* Proofs about AgentAudit, for any numbers of events, slots, workers, attempts *)
(* and faults: types; what the slot counter says of the slots that are held;    *)
(* how far they pass the limit; no event is forgotten; none is answered twice.  *)
EXTENDS AgentAudit, FiniteSetTheorems, TLAPS

USE AuditAssumption
-----------------------------------------------------------------------------
(* The workers of the pool *)

\* A worker is alive for every job that runs in the pool.
WorkersSuffice == Cardinality(Working) <= alive

LEMMA WorkingFinite == IsFiniteSet(Working) /\ Cardinality(Working) \in Nat
<1>1. Working \in SUBSET Events
  BY DEF Working
<1>2. IsFiniteSet(Working)
  BY <1>1, FS_Subset
<1> QED BY <1>2, FS_CardinalityType

\* Where a step leaves the types and the workers' jobs.
FlowType ==
    /\ open \in [Events -> 0..MaxRuns] /\ runs \in [Events -> 0..MaxRuns]
    /\ agent \in [Events -> [Runs -> AgentPc]]
    /\ attempt \in [Events -> 0..MaxAttempts]
JobType ==
    /\ call \in [Events -> CallPc]
    /\ drain \in Events \cup {NoEvent}
ReapType ==
    /\ reap \in ReapPc /\ rows \subseteq Events /\ left \subseteq Events
    /\ owed \in 0..Cardinality(Events)
RestType ==
    /\ row \in [Events -> Verdicts]
    /\ total \in Int
    /\ responses \in [Events -> Nat]
    /\ over \in BOOLEAN /\ leaky \in BOOLEAN
    /\ repeated \subseteq Events /\ lost \subseteq Events
    /\ faults \in 0..MaxFaults

LEMMA TypeParts ==
    TypeOK <=> FlowType /\ JobType /\ ReapType /\ RestType /\ alive \in 0..Workers
BY DEF TypeOK, FlowType, JobType, ReapType, RestType

LEMMA TypePartsNext ==
    FlowType' /\ JobType' /\ ReapType' /\ RestType' /\ alive' \in 0..Workers => TypeOK'
BY DEF TypeOK, FlowType, JobType, ReapType, RestType

\* The activity of one run moves.
LEMMA AgentSet ==
    ASSUME FlowType, NEW e \in Events, NEW r \in Runs, NEW label \in AgentPc,
           agent' = [agent EXCEPT ![e][r] = label]
    PROVE  /\ agent' \in [Events -> [Runs -> AgentPc]]
           /\ agent'[e][r] = label
           /\ \A x \in Events, s \in Runs :
                  x # e \/ s # r => agent'[x][s] = agent[x][s]
<1>1. agent[e] \in [Runs -> AgentPc]
  BY DEF FlowType
<1>2. agent' = [agent EXCEPT ![e] = [agent[e] EXCEPT ![r] = label]]
  OBVIOUS
<1>3. [agent[e] EXCEPT ![r] = label] \in [Runs -> AgentPc]
  BY <1>1
<1>4. agent' \in [Events -> [Runs -> AgentPc]]
  BY <1>2, <1>3 DEF FlowType
<1>5. agent'[e] = [agent[e] EXCEPT ![r] = label]
  BY <1>2 DEF FlowType
<1>6. agent'[e][r] = label
  BY <1>1, <1>5
<1>7. ASSUME NEW x \in Events, NEW s \in Runs, x # e \/ s # r
      PROVE  agent'[x][s] = agent[x][s]
  <2>1. CASE x # e
    BY <1>2, <2>1 DEF FlowType
  <2>2. CASE x = e
    <3>1. s # r
      BY <1>7, <2>2
    <3> QED BY <1>1, <1>5, <2>2, <3>1
  <2> QED BY <2>1, <2>2
<1> QED BY <1>4, <1>6, <1>7

LEMMA FaultType == ASSUME faults \in 0..MaxFaults, Fault PROVE faults' \in 0..MaxFaults
BY DEF Fault

LEMMA OpensType ==
    ASSUME FlowType, NEW e \in Events, Opens(e)
    PROVE  /\ runs[e] + 1 \in Runs /\ runs[e] \in Nat
           /\ FlowType'
           /\ runs' = [runs EXCEPT ![e] = runs[e] + 1]
           /\ open' = [open EXCEPT ![e] = runs[e] + 1]
           /\ agent' = [agent EXCEPT ![e][runs[e] + 1] = "judge"]
           /\ open[e] = 0
<1>1. runs[e] \in 0..MaxRuns /\ runs[e] < MaxRuns
  BY DEF FlowType, Opens
<1>2. runs[e] + 1 \in Runs /\ runs[e] + 1 \in 0..MaxRuns /\ runs[e] \in Nat
  BY <1>1 DEF Runs
<1>3. agent' \in [Events -> [Runs -> AgentPc]]
  BY <1>2, AgentSet DEF Opens, AgentPc
<1>4. runs' \in [Events -> 0..MaxRuns] /\ open' \in [Events -> 0..MaxRuns]
  BY <1>2 DEF Opens, FlowType
<1>5. attempt' \in [Events -> 0..MaxAttempts]
  BY DEF Opens, FlowType
<1> QED BY <1>2, <1>3, <1>4, <1>5 DEF FlowType, Opens

-----------------------------------------------------------------------------
(* Types *)

\* Call steps that are not about runs, and leave the reaper alone.
LEMMA CallSet ==
    ASSUME JobType, NEW e \in Events, NEW label \in CallPc, Goto(e, label)
    PROVE  /\ call' \in [Events -> CallPc] /\ call'[e] = label
           /\ \A x \in Events : x # e => call'[x] = call[x]
BY DEF JobType, Goto

\* What a step does to the jobs of the pool's workers.
Settles == Working' \subseteq Working /\ alive' = alive
WorkStep ==
    \/ Settles
    \/ \E e \in Events : Working' = Working \cup {e} /\ alive' = alive
                         /\ Cardinality(Working) < alive
    \/ \E e \in Working : Working' = Working \ {e} /\ alive' = alive - 1
    \/ Working' = {} /\ alive' = Workers

\* A step that keeps the drain task, or frees it of a job that ends or leaves.
LEMMA CallSettles ==
    ASSUME JobType, NEW e \in Events, NEW label \in CallPc, Goto(e, label),
           alive' = alive,
           \/ drain' = drain /\ (call[e] \in Calling \/ label \notin Calling)
           \/ drain = e /\ label \notin Calling /\ drain' = NoEvent
    PROVE  Settles
<1> USE CallSet
<1>1. \A x \in Working' : x \in Working
  BY DEF Working, JobType
<1> QED BY <1>1 DEF Settles

LEMMA FlowSame == ASSUME FlowType, UNCHANGED flowVars PROVE FlowType'
BY DEF FlowType, flowVars

LEMMA ReapSame == ASSUME ReapType, UNCHANGED reapVars PROVE ReapType'
BY DEF ReapType, reapVars

LEMMA CallsType ==
    ASSUME TypeOK, NEW e \in Events, CallSteps(e)
    PROVE  TypeOK' /\ Settles
<1> USE DEF CallPc, Calling
<1>0. FlowType /\ JobType /\ ReapType /\ RestType /\ alive \in 0..Workers
  BY TypeParts
<1>1. CASE Read(e) \/ Incr(e) \/ AcquireFails(e) \/ StartFails(e)
  <2>1. \E label \in {"shed", "incr", "start", "release"} : Goto(e, label)
    BY <1>1 DEF Read, Incr, AcquireFails, StartFails
  <2>2. PICK label \in {"shed", "incr", "start", "release"} : Goto(e, label)
    BY <2>1
  <2>3. drain' = drain /\ alive' = alive /\ call[e] \in Calling
    BY <1>1 DEF Read, Incr, AcquireFails, StartFails
  <2>4. label \in CallPc
    OBVIOUS
  <2>5. JobType'
    BY <1>0, <2>2, <2>3, <2>4, CallSet DEF JobType
  <2>6. Settles
    BY <1>0, <2>2, <2>3, <2>4, CallSettles
  <2>7. FlowType' /\ ReapType'
    BY <1>0, <1>1, FlowSame, ReapSame DEF Read, Incr, AcquireFails, StartFails
  <2>8. RestType'
    <3>1. total' \in Int
      BY <1>0, <1>1 DEF Read, Incr, AcquireFails, StartFails, RestType, slotVars
    <3>2. over' \in BOOLEAN /\ leaky' \in BOOLEAN
      BY <1>0, <1>1 DEF Read, Incr, AcquireFails, StartFails, RestType, slotVars
    <3>3. faults' \in 0..MaxFaults
      BY <1>0, <1>1, FaultType DEF Read, Incr, AcquireFails, StartFails, RestType
    <3> QED BY <1>0, <1>1, <3>1, <3>2, <3>3
            DEF Read, Incr, AcquireFails, StartFails, RestType, ghostVars
  <2> QED BY <1>0, <2>3, <2>5, <2>6, <2>7, <2>8, TypePartsNext
<1>2. CASE Enqueue(e) \/ EnqueueFails(e)
  <2>1. PICK label \in {"queue", "gone"} : Goto(e, label)
    BY <1>2 DEF Enqueue, EnqueueFails
  <2>2. alive' = alive /\ drain' = IF drain = e THEN NoEvent ELSE drain
    BY <1>2 DEF Enqueue, EnqueueFails
  <2>3. call[e] \in Calling
    BY <1>2 DEF Enqueue, EnqueueFails
  <2>4. JobType' /\ Settles
    BY <1>0, <2>1, <2>2, <2>3, CallSet, CallSettles DEF JobType
  <2>5. FlowType' /\ ReapType'
    BY <1>0, <1>2, FlowSame, ReapSame DEF Enqueue, EnqueueFails
  <2>6. RestType'
    BY <1>0, <1>2, FaultType
       DEF Enqueue, EnqueueFails, RestType, slotVars, ghostVars, Verdicts
  <2> QED BY <1>0, <2>2, <2>4, <2>5, <2>6, TypePartsNext
<1>3. CASE Starts(e) \/ StartTimesOut(e)
  <2>1. Opens(e) /\ call[e] \in Calling /\ alive' = alive
    BY <1>3 DEF Starts, StartTimesOut
  <2>2. FlowType'
    BY <1>0, <2>1, OpensType
  <2>3. JobType' /\ Settles
    <3>1. CASE Starts(e)
      BY <1>0, <2>1, <3>1, CallSet, CallSettles DEF JobType, Starts
    <3>2. CASE StartTimesOut(e)
      BY <1>0, <2>1, <3>2, CallSet, CallSettles DEF JobType, StartTimesOut
    <3> QED BY <1>3, <3>1, <3>2
  <2>4. ReapType'
    BY <1>0, <1>3, ReapSame DEF Starts, StartTimesOut
  <2>5. RestType'
    BY <1>0, <1>3, FaultType DEF Starts, StartTimesOut, RestType, slotVars, ghostVars
  <2> QED BY <1>0, <2>1, <2>2, <2>3, <2>4, <2>5, TypePartsNext
<1>4. CASE Release(e) \/ Zero(e) \/ ReleaseFails(e)
  <2>1. call[e] \in Calling /\ alive' = alive
    BY <1>4 DEF Release, Zero, ReleaseFails
  <2>2. \/ Goto(e, "zero") /\ drain' = drain
        \/ FallBack(e)
    BY <1>4 DEF Release, Zero, ReleaseFails
  <2>3. JobType' /\ Settles
    <3>1. CASE Goto(e, "zero") /\ drain' = drain
      BY <1>0, <2>1, <3>1, CallSet, CallSettles DEF JobType
    <3>2. CASE drain = e /\ FallBack(e)
      BY <1>0, <2>1, <3>2, CallSet, CallSettles DEF JobType, FallBack
    <3>3. CASE drain # e /\ FallBack(e)
      BY <1>0, <2>1, <3>3, CallSet, CallSettles DEF JobType, FallBack
    <3> QED BY <2>2, <3>1, <3>2, <3>3
  <2>4. FlowType' /\ ReapType'
    BY <1>0, <1>4, FlowSame, ReapSame DEF Release, Zero, ReleaseFails
  <2>5. RestType'
    <3>1. total' \in Int
      BY <1>0, <1>4 DEF Release, Zero, ReleaseFails, RestType
    <3>2. over' \in BOOLEAN /\ leaky' \in BOOLEAN
      BY <1>0, <1>4 DEF Release, Zero, ReleaseFails, RestType
    <3>3. faults' \in 0..MaxFaults
      BY <1>0, <1>4, FaultType DEF Release, Zero, ReleaseFails, RestType
    <3> QED BY <1>0, <1>4, <3>1, <3>2, <3>3
            DEF Release, Zero, ReleaseFails, RestType, ghostVars
  <2> QED BY <1>0, <2>1, <2>3, <2>4, <2>5, TypePartsNext
<1>5. CASE AsyncSaves(e) \/ AsyncResponds(e) \/ AsyncLate(e) \/ AsyncFallback(e)
  <2>1. PICK label \in {"cad", "late", "gone"} : Goto(e, label)
    BY <1>5 DEF AsyncSaves, AsyncResponds, AsyncLate, AsyncFallback
  <2>2. drain' = drain /\ alive' = alive /\ call[e] \in Calling
    BY <1>5 DEF AsyncSaves, AsyncResponds, AsyncLate, AsyncFallback
  <2>3. JobType' /\ Settles
    <3>1. label \in CallPc
      OBVIOUS
    <3>2. JobType'
      BY <1>0, <2>1, <2>2, <3>1, CallSet DEF JobType
    <3>3. Settles
      BY <1>0, <2>1, <2>2, <3>1, CallSettles
    <3> QED BY <3>2, <3>3
  <2>4. FlowType' /\ ReapType'
    BY <1>0, <1>5, FlowSame, ReapSame
       DEF AsyncSaves, AsyncResponds, AsyncLate, AsyncFallback
  <2>5. RestType'
    BY <1>0, <1>5, FaultType
       DEF AsyncSaves, AsyncResponds, AsyncLate, AsyncFallback, Respond, RestType,
           slotVars, ghostVars, Verdicts
  <2> QED BY <1>0, <2>2, <2>3, <2>4, <2>5, TypePartsNext
<1> QED BY <1>1, <1>2, <1>3, <1>4, <1>5 DEF CallSteps

LEMMA AgentsType ==
    ASSUME TypeOK, NEW e \in Events, NEW r \in Runs, AgentSteps(e, r)
    PROVE  TypeOK' /\ Settles
<1> USE DEF AgentPc
<1>0. FlowType /\ JobType /\ ReapType /\ RestType /\ alive \in 0..Workers
  BY TypeParts
<1>1. UNCHANGED jobVars /\ UNCHANGED reapVars
  BY DEF AgentSteps, Judge, Save, Free, FreeZero, FreeFails, Saved, SaveLost, Responds,
         RespondLost
<1>2. JobType' /\ ReapType' /\ alive' \in 0..Workers /\ Settles
  BY <1>0, <1>1, ReapSame DEF JobType, jobVars, Settles, Working
<1>3. \/ agent' = agent
      \/ \E label \in AgentPc : Works(e, r, label)
  BY DEF AgentSteps, Judge, Save, Free, FreeZero, FreeFails, Saved, SaveLost, Responds,
         RespondLost, AgentGoto, Closes, Works, flowVars
<1>4. agent' \in [Events -> [Runs -> AgentPc]]
  <2>1. CASE agent' = agent
    BY <1>0, <2>1 DEF FlowType
  <2>2. CASE \E label \in AgentPc : Works(e, r, label)
    BY <1>0, <2>2, AgentSet DEF Works
  <2> QED BY <1>3, <2>1, <2>2
<1>5. open' \in [Events -> 0..MaxRuns] /\ runs' \in [Events -> 0..MaxRuns]
  BY <1>0 DEF AgentSteps, Judge, Save, Free, FreeZero, FreeFails, Saved, SaveLost, Responds,
         RespondLost, AgentGoto, Closes, flowVars, FlowType
<1>6. attempt' \in [Events -> 0..MaxAttempts]
  <2>1. attempt' = attempt \/ (attempt[e] < MaxAttempts /\ attempt' = [attempt EXCEPT ![e] = @ + 1])
    BY DEF AgentSteps, Judge, Save, Free, FreeZero, FreeFails, Saved, SaveLost, Responds,
           RespondLost, flowVars
  <2> QED BY <1>0, <2>1 DEF FlowType
<1>7. total' \in Int
  BY <1>0 DEF AgentSteps, Judge, Save, Free, FreeZero, FreeFails, Saved, SaveLost, Responds,
         RespondLost, RestType, slotVars
<1>8. over' \in BOOLEAN /\ leaky' \in BOOLEAN
  BY <1>0 DEF AgentSteps, Judge, Save, Free, FreeZero, FreeFails, Saved, SaveLost, Responds,
         RespondLost, RestType, slotVars
<1>9. faults' \in 0..MaxFaults
  BY <1>0, FaultType DEF AgentSteps, Judge, Save, Free, FreeZero, FreeFails, Saved, SaveLost,
         Responds, RespondLost, RestType
<1>10. responses' \in [Events -> Nat]
  BY <1>0 DEF AgentSteps, Judge, Save, Free, FreeZero, FreeFails, Saved, SaveLost,
         Responds, RespondLost, Respond, RestType
<1>11. row' \in [Events -> Verdicts] /\ repeated' \subseteq Events /\ lost' \subseteq Events
  BY <1>0 DEF AgentSteps, Judge, Save, Free, FreeZero, FreeFails, Saved, SaveLost,
         Responds, RespondLost, RestType, ghostVars, Verdicts
<1>12. FlowType'
  BY <1>4, <1>5, <1>6 DEF FlowType
<1>13. RestType'
  BY <1>7, <1>8, <1>9, <1>10, <1>11 DEF RestType
<1> QED BY <1>2, <1>12, <1>13, TypePartsNext

LEMMA JobsType ==
    ASSUME TypeOK, NEW e \in Events, Take(e) \/ DrainTakes(e) \/ AgesOut(e) \/ TimesOut(e)
    PROVE  TypeOK' /\ WorkStep
<1> USE DEF CallPc, Calling
<1>0. FlowType /\ JobType /\ ReapType /\ RestType /\ alive \in 0..Workers
  BY TypeParts
<1>1. ReapType' /\ alive' = alive
  BY <1>0, ReapSame DEF Take, DrainTakes, AgesOut, TimesOut, jobVars
<1>2. RestType'
  BY <1>0, FaultType DEF Take, DrainTakes, AgesOut, TimesOut, RestType, slotVars, ghostVars
<1>3. CASE Take(e)
  <2>1. FlowType'
    BY <1>0, <1>3, FlowSame DEF Take
  <2>2. PICK label \in {"read", "async"} : Goto(e, label)
    BY <1>3 DEF Take
  <2>3. label \in CallPc
    OBVIOUS
  <2>4. JobType'
    BY <1>0, <1>3, <2>2, <2>3, CallSet DEF JobType, Take
  <2>5. /\ \A x \in Working' : x \in Working \cup {e}
        /\ \A x \in Working : x \in Working'
    BY <1>0, <1>3, <2>2, <2>3, CallSet DEF Working, Take
  <2>6. Working' = Working \cup {e} \/ Working' = Working
    BY <2>5
  <2>7. Cardinality(Working) < alive
    BY <1>3 DEF Take
  <2>8. WorkStep
    BY <1>1, <2>6, <2>7 DEF WorkStep, Settles
  <2> QED BY <1>0, <1>1, <1>2, <2>1, <2>4, <2>8, TypePartsNext
<1>4. CASE DrainTakes(e)
  <2>1. FlowType'
    BY <1>0, <1>4, FlowSame DEF DrainTakes
  <2>2. Goto(e, "read") /\ drain = NoEvent /\ drain' = e
    BY <1>4 DEF DrainTakes
  <2>3. JobType'
    BY <1>0, <2>2, CallSet DEF JobType
  <2>4. \A x \in Working' : x \in Working
    BY <1>0, <2>2, CallSet, AuditAssumption DEF Working
  <2>5. WorkStep
    BY <1>1, <2>4 DEF WorkStep, Settles
  <2> QED BY <1>0, <1>1, <1>2, <2>1, <2>3, <2>5, TypePartsNext
<1>5. CASE AgesOut(e)
  <2>1. FlowType'
    BY <1>0, <1>5, FlowSame DEF AgesOut
  <2>2. Goto(e, "gone") /\ drain' = drain
    BY <1>5 DEF AgesOut
  <2>3. JobType'
    BY <1>0, <2>2, CallSet DEF JobType
  <2>4. WorkStep
    BY <1>0, <1>1, <2>2, CallSettles DEF WorkStep
  <2> QED BY <1>0, <1>1, <1>2, <2>1, <2>3, <2>4, TypePartsNext
<1>6. CASE TimesOut(e)
  <2>1. UNCHANGED jobVars
    BY <1>6 DEF TimesOut
  <2>2. JobType' /\ WorkStep
    BY <1>0, <2>1 DEF JobType, jobVars, WorkStep, Settles, Working
  <2>3. open' = [open EXCEPT ![e] = 0] /\ runs' = runs /\ attempt' = attempt
    BY <1>6 DEF TimesOut, Shuts
  <2>4. open[e] \in Runs
    BY <1>0, <1>6 DEF TimesOut, FlowType, Runs
  <2>5. agent' = agent \/ agent' = [agent EXCEPT ![e][open[e]] = "none"]
    BY <1>6 DEF TimesOut
  <2>6. agent' \in [Events -> [Runs -> AgentPc]]
    <3>1. CASE agent' = agent
      BY <1>0, <3>1 DEF FlowType
    <3>2. CASE agent' = [agent EXCEPT ![e][open[e]] = "none"]
      BY <1>0, <2>4, <3>2, AgentSet DEF AgentPc
    <3> QED BY <2>5, <3>1, <3>2
  <2>7. FlowType'
    <3>1. open' \in [Events -> 0..MaxRuns]
      BY <1>0, <2>3 DEF FlowType
    <3> QED BY <1>0, <2>3, <2>6, <3>1 DEF FlowType
  <2> QED BY <1>0, <1>1, <1>2, <2>2, <2>7, TypePartsNext
<1> QED BY <1>3, <1>4, <1>5, <1>6

LEMMA ReapsType ==
    ASSUME TypeOK, WorkersSuffice, ReapSteps
    PROVE  TypeOK' /\ WorkStep
<1> USE DEF ReapPc
<1>0. FlowType /\ JobType /\ ReapType /\ RestType /\ alive \in 0..Workers
  BY TypeParts
<1>1. CASE \E e \in Events : Visit(e)
  <2>1. PICK e \in Events : Visit(e)
    BY <1>1
  <2>2. drain' = drain /\ UNCHANGED <<row, slotVars, reap, rows, owed, responses, ghostVars>>
        /\ runs' = runs /\ agent' = agent /\ attempt' = attempt
        /\ left' = left \ {e} /\ (Shuts(e) \/ open' = open) /\ (faults' = faults \/ Fault)
    BY <2>1 DEF Visit
  <2>3. FlowType' /\ ReapType'
    <3>1. open' \in [Events -> 0..MaxRuns]
      BY <1>0, <2>2 DEF FlowType, Shuts
    <3>2. FlowType'
      BY <1>0, <2>2, <3>1 DEF FlowType
    <3> QED BY <1>0, <2>2, <3>2 DEF ReapType
  <2>4. RestType'
    BY <1>0, <2>2, FaultType DEF RestType, slotVars, ghostVars
  <2>5. CASE e \in Working
    <3>1. Goto(e, "gone") /\ alive' = alive - 1
      BY <2>1, <2>5 DEF Visit, CancelJob
    <3>2. JobType'
      BY <1>0, <2>2, <3>1, CallSet DEF JobType, CallPc
    <3>3. /\ \A x \in Working' : x \in Working \ {e}
          /\ \A x \in Working \ {e} : x \in Working'
      BY <1>0, <2>2, <3>1, CallSet DEF Working, CallPc, Calling
    <3>4. Working' = Working \ {e}
      BY <3>3
    <3>5. Cardinality(Working) # 0
      BY <2>5, WorkingFinite, FS_EmptySet
    <3>6. alive - 1 \in 0..Workers
      BY <1>0, <3>5, WorkingFinite DEF WorkersSuffice
    <3>7. WorkStep
      BY <2>5, <3>1, <3>4 DEF WorkStep
    <3> QED BY <2>3, <2>4, <3>1, <3>2, <3>6, <3>7, TypePartsNext
  <2>6. CASE e \notin Working
    <3>1. call' = call /\ alive' = alive
      BY <2>1, <2>6 DEF Visit, CancelJob
    <3>2. JobType' /\ WorkStep
      BY <1>0, <2>2, <3>1 DEF JobType, WorkStep, Settles, Working
    <3> QED BY <1>0, <2>3, <2>4, <3>1, <3>2, TypePartsNext
  <2> QED BY <2>5, <2>6
<1>2. CASE Select \/ Commit \/ CommitFails \/ ReapRelease \/ ReapZero \/ ReapEnds
  <2>1. UNCHANGED jobVars /\ UNCHANGED flowVars
    BY <1>2 DEF Select, Commit, CommitFails, ReapRelease, ReapZero, ReapEnds
  <2>2. JobType' /\ WorkStep /\ alive' = alive
    BY <1>0, <2>1 DEF JobType, jobVars, WorkStep, Settles, Working
  <2>3. FlowType'
    BY <1>0, <2>1, FlowSame
  <2>4. Cardinality(rows) \in 0..Cardinality(Events) /\ Cardinality(Events) \in Nat
    <3>1. rows \subseteq Events
      BY <1>0 DEF ReapType
    <3>2. IsFiniteSet(Events)
      BY AuditAssumption
    <3>3. IsFiniteSet(rows) /\ Cardinality(rows) <= Cardinality(Events)
      BY <3>1, <3>2, FS_Subset
    <3> QED BY <3>2, <3>3, FS_CardinalityType
  <2>5. ReapType'
    <3>1. Unanalyzed \subseteq Events
      BY DEF Unanalyzed
    <3>2. owed' \in 0..Cardinality(Events)
      BY <1>0, <1>2, <2>4 DEF Select, Commit, CommitFails, ReapRelease, ReapZero, ReapEnds, ReapType
    <3>3. reap' \in ReapPc
      BY <1>0, <1>2 DEF Select, Commit, CommitFails, ReapRelease, ReapZero, ReapEnds, ReapType
    <3>4. rows' \subseteq Events /\ left' \subseteq Events
      BY <1>0, <1>2, <3>1 DEF Select, Commit, CommitFails, ReapRelease, ReapZero, ReapEnds, ReapType
    <3> QED BY <3>2, <3>3, <3>4 DEF ReapType
  <2>6. RestType'
    <3>1. row' \in [Events -> Verdicts] /\ responses' \in [Events -> Nat]
      BY <1>0, <1>2 DEF Select, Commit, CommitFails, ReapRelease, ReapZero, ReapEnds, RestType,
                        Verdicts
    <3>2. total' \in Int
      <4>1. CASE Select
        BY <1>0, <4>1 DEF Select, RestType
      <4>2. CASE ReapRelease \/ ReapZero
        BY <1>0, <4>2 DEF ReapRelease, ReapZero, RestType
      <4>3. CASE Commit \/ CommitFails \/ ReapEnds
        BY <1>0, <4>3 DEF Commit, CommitFails, ReapEnds, RestType, slotVars
      <4> QED BY <1>2, <4>1, <4>2, <4>3
    <3>3. over' \in BOOLEAN /\ leaky' \in BOOLEAN
      BY <1>0, <1>2, Zenon
         DEF Select, Commit, CommitFails, ReapRelease, ReapZero, ReapEnds, RestType, slotVars
    <3>4. repeated' \subseteq Events /\ lost' \subseteq Events
      BY <1>0, <1>2 DEF Select, Commit, CommitFails, ReapRelease, ReapZero, ReapEnds, RestType,
                        ghostVars, Unanalyzed
    <3>5. faults' \in 0..MaxFaults
      BY <1>0, <1>2, FaultType DEF Select, Commit, CommitFails, ReapRelease, ReapZero, ReapEnds,
                                   RestType
    <3> QED BY <3>1, <3>2, <3>3, <3>4, <3>5 DEF RestType
  <2> QED BY <1>0, <2>2, <2>3, <2>5, <2>6, TypePartsNext
<1> QED BY <1>1, <1>2 DEF ReapSteps

LEMMA CrashType ==
    ASSUME TypeOK, KeyExpires \/ Crash
    PROVE  TypeOK' /\ WorkStep
<1>0. FlowType /\ JobType /\ ReapType /\ RestType /\ alive \in 0..Workers
  BY TypeParts
<1>1. FlowType'
  BY <1>0, FlowSame DEF KeyExpires, Crash
<1>2. ReapType'
  <2>1. Cardinality(Events) \in Nat
    BY AuditAssumption, FS_CardinalityType
  <2> QED BY <1>0, <2>1, ReapSame DEF KeyExpires, Crash, ReapType, ReapPc
<1>3. RestType'
  <2>1. total' \in Int
    BY <1>0 DEF KeyExpires, Crash, RestType
  <2>2. over' \in BOOLEAN /\ leaky' \in BOOLEAN
    BY <1>0 DEF KeyExpires, Crash, RestType
  <2>3. faults' \in 0..MaxFaults
    BY <1>0, FaultType DEF KeyExpires, Crash, RestType
  <2>4. repeated' \subseteq Events /\ lost' \subseteq Events
    BY <1>0 DEF KeyExpires, Crash, RestType, ghostVars
  <2> QED BY <1>0, <2>1, <2>2, <2>3, <2>4 DEF KeyExpires, Crash, RestType
<1>4. CASE KeyExpires
  <2>1. UNCHANGED jobVars
    BY <1>4 DEF KeyExpires
  <2>2. JobType' /\ WorkStep /\ alive' = alive
    BY <1>0, <2>1 DEF JobType, jobVars, WorkStep, Settles, Working
  <2> QED BY <1>0, <1>1, <1>2, <1>3, <2>2, TypePartsNext
<1>5. CASE Crash
  <2>1. \A e \in Events : call'[e] \in {"queue", "gone"}
    BY <1>0, <1>5 DEF Crash
  <2>2. JobType'
    BY <1>0, <1>5 DEF Crash, JobType, CallPc
  <2>3. Working' = {}
    BY <2>1 DEF Working, Calling
  <2>4. alive' = Workers
    BY <1>5 DEF Crash
  <2>5. WorkStep
    BY <2>3, <2>4 DEF WorkStep
  <2>6. alive' \in 0..Workers
    BY <2>4, AuditAssumption
  <2> QED BY <1>1, <1>2, <1>3, <2>2, <2>5, <2>6, TypePartsNext
<1> QED BY <1>4, <1>5

\* Workers and the jobs that run in them come and go together.
LEMMA WorkersKept ==
    ASSUME TypeOK, TypeOK', WorkersSuffice, WorkStep
    PROVE  WorkersSuffice'
<1>1. IsFiniteSet(Working) /\ Cardinality(Working) \in Nat /\ alive \in Nat /\ alive' \in Nat
  BY WorkingFinite DEF TypeOK
<1>2. CASE Settles
  <2>1. Cardinality(Working') <= Cardinality(Working) /\ Cardinality(Working') \in Nat
    BY <1>1, <1>2, FS_Subset, FS_CardinalityType DEF Settles
  <2>2. alive' = alive
    BY <1>2 DEF Settles
  <2> QED BY <1>1, <2>1, <2>2 DEF WorkersSuffice
<1>3. CASE \E e \in Events : Working' = Working \cup {e} /\ alive' = alive
                             /\ Cardinality(Working) < alive
  <2>1. PICK e \in Events : Working' = Working \cup {e}
    BY <1>3
  <2>2. Cardinality(Working') = Cardinality(Working)
        \/ Cardinality(Working') = Cardinality(Working) + 1
    BY <1>1, <2>1, FS_AddElement, Zenon
  <2>3. alive' = alive /\ Cardinality(Working) < alive
    BY <1>3
  <2> QED BY <1>1, <2>2, <2>3 DEF WorkersSuffice
<1>4. CASE \E e \in Working : Working' = Working \ {e} /\ alive' = alive - 1
  <2>1. PICK e \in Working : Working' = Working \ {e}
    BY <1>4
  <2>2. Cardinality(Working') = Cardinality(Working) - 1
    BY <1>1, <2>1, FS_RemoveElement
  <2>3. alive' = alive - 1
    BY <1>4
  <2> QED BY <1>1, <2>2, <2>3 DEF WorkersSuffice
<1>5. CASE Working' = {} /\ alive' = Workers
  <2>1. Cardinality(Working') = 0
    BY <1>5, FS_EmptySet
  <2>2. alive' = Workers /\ Workers \in Nat
    BY <1>5, AuditAssumption
  <2> QED BY <2>1, <2>2 DEF WorkersSuffice
<1> QED BY <1>2, <1>3, <1>4, <1>5 DEF WorkStep

LEMMA TypeInit == Init => TypeOK /\ WorkersSuffice
<1> SUFFICES ASSUME Init PROVE TypeOK /\ WorkersSuffice
  OBVIOUS
<1>1. Cardinality(Events) \in Nat
  BY AuditAssumption, FS_CardinalityType
<1>2. FlowType
  <2>1. 0 \in 0..MaxRuns /\ 0 \in 0..MaxAttempts
    BY AuditAssumption
  <2> QED BY <2>1 DEF Init, FlowType, AgentPc
<1>3. JobType
  BY DEF Init, JobType, CallPc
<1>4. ReapType
  BY <1>1 DEF Init, ReapType, ReapPc
<1>5. RestType
  <2>1. faults \in 0..MaxFaults /\ total \in Int
    BY AuditAssumption DEF Init
  <2>2. row \in [Events -> Verdicts] /\ responses \in [Events -> Nat]
    BY DEF Init, Verdicts
  <2>3. over \in BOOLEAN /\ leaky \in BOOLEAN /\ repeated \subseteq Events /\ lost \subseteq Events
    BY DEF Init
  <2> QED BY <2>1, <2>2, <2>3 DEF RestType
<1>6. alive \in 0..Workers
  BY AuditAssumption DEF Init
<1>7. Working = {}
  BY DEF Init, Working, Calling
<1>8. Cardinality(Working) = 0
  BY <1>7, FS_EmptySet
<1>9. WorkersSuffice
  BY <1>6, <1>8 DEF WorkersSuffice
<1> QED BY <1>2, <1>3, <1>4, <1>5, <1>6, <1>9, TypeParts

LEMMA TypeNext ==
    ASSUME TypeOK, WorkersSuffice, [Next]_vars
    PROVE  TypeOK' /\ WorkersSuffice'
<1>1. ASSUME NEW e \in Events, CallSteps(e)
      PROVE  TypeOK' /\ WorkStep
  BY <1>1, CallsType DEF WorkStep
<1>2. ASSUME NEW e \in Events, NEW r \in Runs, AgentSteps(e, r)
      PROVE  TypeOK' /\ WorkStep
  BY <1>2, AgentsType DEF WorkStep
<1>3. CASE UNCHANGED vars
  <2>1. Working' = Working /\ alive' = alive
    BY <1>3 DEF Working, vars, jobVars
  <2>2. TypeOK'
    BY <1>3 DEF TypeOK, vars, jobVars, slotVars, flowVars, reapVars, ghostVars
  <2> QED BY <2>1, <2>2 DEF WorkersSuffice
<1>4. CASE Next
  <2>1. TypeOK' /\ WorkStep
    BY <1>1, <1>2, <1>4, JobsType, ReapsType, CrashType DEF Next
  <2> QED BY <2>1, WorkersKept
<1> QED BY <1>3, <1>4

\* Every variable of the audit keeps its type, and a worker of the pool is alive
\* for every job that runs in the pool, in every behaviour.
THEOREM TypeCorrect == Spec => [](TypeOK /\ WorkersSuffice)
<1>1. Init => TypeOK /\ WorkersSuffice
  BY TypeInit
<1>2. TypeOK /\ WorkersSuffice /\ [Next]_vars => TypeOK' /\ WorkersSuffice'
  BY TypeNext
<1> QED BY <1>1, <1>2, PTL DEF Spec
-----------------------------------------------------------------------------
(* The slots that are held, and the counter *)

Holds(x, s) == /\ agent[x][s] \in {"judge", "save", "free"}
               /\ open[x] = s \/ agent[x][s] # "judge"

LEMMA HeldIsNat ==
    /\ IsFiniteSet(HoldingRuns) /\ Cardinality(HoldingRuns) \in Nat
    /\ IsFiniteSet(HoldingCalls) /\ Cardinality(HoldingCalls) \in Nat
    /\ Held \in Nat
<1>1. IsFiniteSet(Runs)
  BY AuditAssumption, FS_Interval DEF Runs
<1>2. IsFiniteSet(Events \X Runs)
  BY <1>1, AuditAssumption, FS_Product
<1>3. HoldingRuns \subseteq Events \X Runs /\ HoldingCalls \subseteq Events
  BY DEF HoldingRuns, HoldingCalls
<1>4. IsFiniteSet(HoldingRuns) /\ IsFiniteSet(HoldingCalls)
  BY <1>2, <1>3, AuditAssumption, FS_Subset
<1>5. Cardinality(HoldingRuns) \in Nat /\ Cardinality(HoldingCalls) \in Nat
  BY <1>4, FS_CardinalityType
<1> QED BY <1>4, <1>5 DEF Held

\* What the move of one job does to the slots that callers hold.
Paid == {"start", "release"}
LEMMA CallHolds ==
    ASSUME JobType, NEW e \in Events, NEW label \in CallPc, Goto(e, label)
    PROVE  /\ (call[e] \in Paid <=> label \in Paid) => HoldingCalls' = HoldingCalls
           /\ (call[e] \notin Paid /\ label \in Paid) =>
                  Cardinality(HoldingCalls)' = Cardinality(HoldingCalls) + 1
           /\ (call[e] \in Paid /\ label \notin Paid) =>
                  Cardinality(HoldingCalls)' = Cardinality(HoldingCalls) - 1
<1>1. call'[e] = label /\ \A x \in Events : x # e => call'[x] = call[x]
  BY CallSet
<1>2. ASSUME call[e] \in Paid <=> label \in Paid
      PROVE  HoldingCalls' = HoldingCalls
  BY <1>1, <1>2 DEF HoldingCalls, Paid
<1>3. ASSUME call[e] \notin Paid, label \in Paid
      PROVE  Cardinality(HoldingCalls)' = Cardinality(HoldingCalls) + 1
  <2>1. HoldingCalls' = HoldingCalls \cup {e} /\ e \notin HoldingCalls
    BY <1>1, <1>3 DEF HoldingCalls, Paid
  <2> QED BY <2>1, HeldIsNat, FS_AddElement
<1>4. ASSUME call[e] \in Paid, label \notin Paid
      PROVE  Cardinality(HoldingCalls)' = Cardinality(HoldingCalls) - 1
  <2>1. HoldingCalls' = HoldingCalls \ {e} /\ e \in HoldingCalls
    BY <1>1, <1>4 DEF HoldingCalls, Paid
  <2> QED BY <2>1, HeldIsNat, FS_RemoveElement
<1> QED BY <1>2, <1>3, <1>4

\* What the move of one run does to the slots that runs hold.
LEMMA RunHolds ==
    ASSUME NEW e \in Events, NEW r \in Runs,
           \A x \in Events, s \in Runs : x # e \/ s # r => (Holds(x, s)' <=> Holds(x, s))
    PROVE  /\ (Holds(e, r) <=> Holds(e, r)') => HoldingRuns' = HoldingRuns
           /\ (~Holds(e, r) /\ Holds(e, r)') =>
                  Cardinality(HoldingRuns)' = Cardinality(HoldingRuns) + 1
           /\ (Holds(e, r) /\ ~Holds(e, r)') =>
                  Cardinality(HoldingRuns)' = Cardinality(HoldingRuns) - 1
<1>1. HoldingRuns = {a \in Events \X Runs : Holds(a[1], a[2])}
  BY DEF HoldingRuns, Holds
<1>2. HoldingRuns' = {a \in Events \X Runs : Holds(a[1], a[2])'}
  BY DEF HoldingRuns, Holds
<1>3. \A a \in Events \X Runs : a # <<e, r>> => (Holds(a[1], a[2])' <=> Holds(a[1], a[2]))
  OBVIOUS
<1>4. ASSUME Holds(e, r) <=> Holds(e, r)'
      PROVE  HoldingRuns' = HoldingRuns
  BY <1>1, <1>2, <1>3, <1>4
<1>5. ASSUME ~Holds(e, r), Holds(e, r)'
      PROVE  Cardinality(HoldingRuns)' = Cardinality(HoldingRuns) + 1
  <2>1. HoldingRuns' = HoldingRuns \cup {<<e, r>>} /\ <<e, r>> \notin HoldingRuns
    BY <1>1, <1>2, <1>3, <1>5
  <2> QED BY <2>1, HeldIsNat, FS_AddElement
<1>6. ASSUME Holds(e, r), ~Holds(e, r)'
      PROVE  Cardinality(HoldingRuns)' = Cardinality(HoldingRuns) - 1
  <2>1. HoldingRuns' = HoldingRuns \ {<<e, r>>} /\ <<e, r>> \in HoldingRuns
    BY <1>1, <1>2, <1>3, <1>6
  <2> QED BY <2>1, HeldIsNat, FS_RemoveElement
<1> QED BY <1>4, <1>5, <1>6

\* What a step does to the slots that are held and to their counter.
SlotStep ==
    /\ (over => over') /\ (leaky => leaky')
    /\ \/ Held' = Held /\ total' = total
       \/ Held' = Held + 1 /\ (total' = total + 1 \/ (total' = total /\ over'))
       \/ Held' = Held - 1 /\ (total' = total - 1 \/ (total' = total /\ leaky'))
       \/ Held' <= Held /\ total' = total /\ leaky'
       \/ Held' = Held /\ total' = 0 /\ (over \/ Held = 0)
       \/ Held' = Held /\ total' = total - 1 /\ over /\ leaky

\* No run has begun that is not counted yet.
RunsFresh == \A e \in Events, r \in Runs : r > runs[e] => agent[e][r] = "none"
\* The reaper has closed something when it is at work.
ReapGhosts == reap # "idle" => over /\ leaky
\* The counter falls below 0 only after a release that was one too many.
NoZero == ~over => /\ \A e \in Events : call[e] # "zero"
                   /\ \A e \in Events, r \in Runs : agent[e][r] # "zero"

LEMMA RunsSame == ASSUME UNCHANGED flowVars PROVE HoldingRuns' = HoldingRuns
BY DEF HoldingRuns, flowVars

LEMMA CallsSame == ASSUME UNCHANGED call PROVE HoldingCalls' = HoldingCalls
BY DEF HoldingCalls

\* A workflow is opened for a caller: the run holds a slot from here on.
LEMMA OpensHolds ==
    ASSUME FlowType, RunsFresh, NEW e \in Events, Opens(e)
    PROVE  Cardinality(HoldingRuns)' = Cardinality(HoldingRuns) + 1
<1>0. PICK n \in Runs : n = runs[e] + 1
  BY OpensType
<1>1. /\ n \in Runs /\ runs[e] \in Nat /\ FlowType'
      /\ open' = [open EXCEPT ![e] = n] /\ agent' = [agent EXCEPT ![e][n] = "judge"]
      /\ open[e] = 0
  BY <1>0, OpensType
<1>2. agent[e][n] = "none"
  BY <1>0, <1>1 DEF RunsFresh
<1>3. agent'[e][n] = "judge" /\ \A x \in Events, s \in Runs :
                                    x # e \/ s # n => agent'[x][s] = agent[x][s]
  BY <1>1, AgentSet DEF AgentPc
<1>4. open'[e] = n /\ \A x \in Events : x # e => open'[x] = open[x]
  BY <1>1 DEF FlowType
<1>5. ~Holds(e, n) /\ Holds(e, n)'
  BY <1>2, <1>3, <1>4 DEF Holds
<1>6. \A x \in Events, s \in Runs : x # e \/ s # n => (Holds(x, s)' <=> Holds(x, s))
  <2>1. \A s \in Runs : s # 0
    BY DEF Runs
  <2> QED BY <1>1, <1>3, <1>4, <2>1 DEF Holds
<1> QED BY <1>1, <1>5, <1>6, RunHolds

LEMMA CallSlots ==
    ASSUME TypeOK, RunsFresh, NEW e \in Events, CallSteps(e), NoZero
    PROVE  SlotStep
<1> USE DEF CallPc, Calling, Paid
<1> DEFINE HR == Cardinality(HoldingRuns)
           HC == Cardinality(HoldingCalls)
<1>0. /\ FlowType /\ JobType /\ RestType /\ total \in Int
      /\ HR \in Nat /\ HC \in Nat /\ Held = HR + HC
  BY TypeParts, HeldIsNat DEF Held, RestType
<1>h. Held' = HR' + HC'
  BY DEF Held
<1> HIDE DEF HR, HC
<1>1. CASE Read(e) \/ Enqueue(e) \/ EnqueueFails(e) \/ StartFails(e) \/ AsyncSaves(e)
           \/ AsyncResponds(e) \/ AsyncLate(e) \/ AsyncFallback(e)
  <2>1. UNCHANGED flowVars /\ UNCHANGED <<total, over, leaky>>
    BY <1>1 DEF Read, Enqueue, EnqueueFails, StartFails, AsyncSaves, AsyncResponds, AsyncLate,
                AsyncFallback, slotVars
  <2>2. \E label \in CallPc : Goto(e, label) /\ (call[e] \in Paid <=> label \in Paid)
    BY <1>1 DEF Read, Enqueue, EnqueueFails, StartFails, AsyncSaves, AsyncResponds, AsyncLate,
                AsyncFallback
  <2>3. HoldingCalls' = HoldingCalls
    BY <1>0, <2>2, CallHolds
  <2>4. HR' = HR /\ HC' = HC
    BY <2>1, <2>3, RunsSame DEF HR, HC
  <2> QED BY <1>0, <1>h, <2>1, <2>4 DEF SlotStep
<1>2. CASE Incr(e) \/ AcquireFails(e)
  <2>1. UNCHANGED flowVars /\ leaky' = leaky
    BY <1>2 DEF Incr, AcquireFails
  <2>2. Goto(e, "start") /\ call[e] \notin Paid
    BY <1>2 DEF Incr, AcquireFails
  <2>3. HR' = HR /\ HC' = HC + 1
    BY <1>0, <2>1, <2>2, RunsSame, CallHolds DEF HR, HC
  <2>4. (total' = total + 1 /\ over' = over) \/ (total' = total /\ over')
    BY <1>2 DEF Incr, AcquireFails
  <2> QED BY <1>0, <1>h, <2>1, <2>3, <2>4 DEF SlotStep
<1>3. CASE Starts(e)
  <2>1. Opens(e) /\ Goto(e, "gone") /\ call[e] \in Paid /\ UNCHANGED <<total, over, leaky>>
    BY <1>3 DEF Starts, slotVars
  <2>2. HR' = HR + 1 /\ HC' = HC - 1
    BY <1>0, <2>1, OpensHolds, CallHolds DEF HR, HC
  <2> QED BY <1>0, <1>h, <2>1, <2>2 DEF SlotStep
<1>4. CASE StartTimesOut(e)
  <2>1. /\ Opens(e) /\ Goto(e, "release") /\ call[e] \in Paid
        /\ total' = total /\ over' /\ leaky' = leaky
    BY <1>4 DEF StartTimesOut
  <2>2. HR' = HR + 1 /\ HC' = HC
    BY <1>0, <2>1, OpensHolds, CallHolds DEF HR, HC
  <2> QED BY <1>0, <1>h, <2>1, <2>2 DEF SlotStep
<1>5. CASE Release(e) \/ ReleaseFails(e)
  <2>1. /\ UNCHANGED flowVars /\ over' = over /\ (leaky => leaky')
        /\ total' = total - 1 \/ (total' = total /\ leaky')
    BY <1>5 DEF Release, ReleaseFails
  <2>2. call[e] \in Paid /\ \E label \in CallPc : Goto(e, label) /\ label \notin Paid
    BY <1>5 DEF Release, ReleaseFails, FallBack
  <2>3. HR' = HR /\ HC' = HC - 1
    BY <1>0, <2>1, <2>2, RunsSame, CallHolds DEF HR, HC
  <2> QED BY <1>0, <1>h, <2>1, <2>3 DEF SlotStep
<1>6. CASE Zero(e)
  <2>1. UNCHANGED flowVars /\ over' = over /\ leaky' = leaky /\ total' = 0 /\ call[e] = "zero"
    BY <1>6 DEF Zero
  <2>2. \E label \in CallPc : Goto(e, label) /\ label \notin Paid
    BY <1>6 DEF Zero, FallBack
  <2>3. HR' = HR /\ HC' = HC
    BY <1>0, <2>1, <2>2, RunsSame, CallHolds DEF HR, HC
  <2>4. over
    BY <2>1 DEF NoZero
  <2> QED BY <1>0, <1>h, <2>1, <2>3, <2>4 DEF SlotStep
<1> QED BY <1>1, <1>2, <1>3, <1>4, <1>5, <1>6 DEF CallSteps

\* An activity moves one run only.
LEMMA AgentMoves ==
    ASSUME FlowType, NEW e \in Events, NEW r \in Runs, AgentSteps(e, r)
    PROVE  /\ \A x \in Events, s \in Runs : x # e \/ s # r => (Holds(x, s)' <=> Holds(x, s))
           /\ \A label \in AgentPc : Works(e, r, label) => agent'[e][r] = label
<1>1. agent' = agent \/ \E label \in AgentPc : Works(e, r, label)
  BY DEF AgentPc, AgentSteps, Judge, Save, Free, FreeZero, FreeFails, Saved, SaveLost, Responds,
         RespondLost, AgentGoto, Closes, Works, flowVars
<1>2. \A x \in Events, s \in Runs : x # e \/ s # r => agent'[x][s] = agent[x][s]
  <2>1. CASE agent' = agent
    BY <2>1
  <2>2. CASE \E label \in AgentPc : Works(e, r, label)
    BY <2>2, AgentSet DEF Works
  <2> QED BY <1>1, <2>1, <2>2
<1>3. open' = open \/ open' = [open EXCEPT ![e] = IF @ = r THEN 0 ELSE @]
  BY DEF AgentSteps, Judge, Save, Free, FreeZero, FreeFails, Saved, SaveLost, Responds,
         RespondLost, Closes, flowVars
<1>4. \A s \in Runs : s # 0
  BY DEF Runs
<1>5. \A x \in Events, s \in Runs : x # e \/ s # r => (open'[x] = s <=> open[x] = s)
  BY <1>3, <1>4 DEF FlowType
<1>6. \A x \in Events, s \in Runs : x # e \/ s # r => (Holds(x, s)' <=> Holds(x, s))
  BY <1>2, <1>5 DEF Holds
<1>7. ASSUME NEW label \in AgentPc, Works(e, r, label)
      PROVE  agent'[e][r] = label
  BY <1>7, AgentSet DEF Works
<1> QED BY <1>6, <1>7

LEMMA AgentSlots ==
    ASSUME TypeOK, NEW e \in Events, NEW r \in Runs, AgentSteps(e, r), NoZero
    PROVE  SlotStep
<1> USE DEF AgentPc
<1> DEFINE HR == Cardinality(HoldingRuns)
           HC == Cardinality(HoldingCalls)
<1>0. /\ FlowType /\ RestType /\ total \in Int
      /\ HR \in Nat /\ HC \in Nat /\ Held = HR + HC
  BY TypeParts, HeldIsNat DEF Held, RestType
<1>h. Held' = HR' + HC'
  BY DEF Held
<1>c. HC' = HC
  <2>1. call' = call
    BY DEF AgentSteps, Judge, Save, Free, FreeZero, FreeFails, Saved, SaveLost, Responds,
           RespondLost, jobVars
  <2> QED BY <2>1, CallsSame
<1>r. /\ (Holds(e, r) <=> Holds(e, r)') => HR' = HR
      /\ (~Holds(e, r) /\ Holds(e, r)') => HR' = HR + 1
      /\ (Holds(e, r) /\ ~Holds(e, r)') => HR' = HR - 1
  BY <1>0, AgentMoves, RunHolds
<1> HIDE DEF HR, HC
<1>1. CASE Judge(e, r)
  <2>1. agent[e][r] = "judge" /\ open' = open /\ UNCHANGED <<total, over, leaky>>
    BY <1>1 DEF Judge, AgentAt, slotVars
  <2>2. Works(e, r, IF open[e] = r THEN "save" ELSE "none")
    BY <1>1 DEF Judge, AgentGoto, Works
  <2>3. agent'[e][r] = IF open[e] = r THEN "save" ELSE "none"
    BY <1>0, <2>2, AgentMoves
  <2>4. Holds(e, r) <=> Holds(e, r)'
    BY <2>1, <2>3 DEF Holds
  <2> QED BY <1>0, <1>h, <1>c, <1>r, <2>1, <2>4 DEF SlotStep
<1>2. CASE Save(e, r)
  <2>1. agent[e][r] = "save" /\ UNCHANGED <<total, over, leaky>> /\ Works(e, r, "free")
    BY <1>2 DEF Save, AgentAt, slotVars
  <2>2. agent'[e][r] = "free"
    BY <1>0, <2>1, AgentMoves
  <2>3. Holds(e, r) /\ Holds(e, r)'
    BY <2>1, <2>2 DEF Holds
  <2> QED BY <1>0, <1>h, <1>c, <1>r, <2>1, <2>3 DEF SlotStep
<1>3. CASE Free(e, r) \/ FreeFails(e, r)
  <2>1. /\ agent[e][r] = "free" /\ over' = over /\ (leaky => leaky')
        /\ total' = total - 1 \/ (total' = total /\ leaky')
    BY <1>3 DEF Free, FreeFails, AgentAt
  <2>2. Works(e, r, "zero") \/ Works(e, r, "saved")
    BY <1>3 DEF Free, FreeFails
  <2>3. agent'[e][r] \in {"zero", "saved"}
    BY <1>0, <2>2, AgentMoves
  <2>4. Holds(e, r) /\ ~Holds(e, r)'
    BY <2>1, <2>3 DEF Holds
  <2> QED BY <1>0, <1>h, <1>c, <1>r, <2>1, <2>4 DEF SlotStep
<1>4. CASE FreeZero(e, r)
  <2>1. /\ agent[e][r] = "zero" /\ over' = over /\ leaky' = leaky /\ total' = 0
        /\ Works(e, r, "saved")
    BY <1>4 DEF FreeZero, AgentAt
  <2>2. agent'[e][r] = "saved"
    BY <1>0, <2>1, AgentMoves
  <2>3. ~Holds(e, r) /\ ~Holds(e, r)' /\ over
    BY <2>1, <2>2 DEF Holds, NoZero
  <2> QED BY <1>0, <1>h, <1>c, <1>r, <2>1, <2>3 DEF SlotStep
<1>5. CASE Saved(e, r) \/ Responds(e, r) \/ RespondLost(e, r)
  <2>1. agent[e][r] \in {"saved", "respond"} /\ UNCHANGED <<total, over, leaky>>
    BY <1>5 DEF Saved, Responds, RespondLost, AgentAt, slotVars
  <2>2. agent' = agent \/ Works(e, r, "respond") \/ Works(e, r, "none")
    BY <1>5 DEF Saved, Responds, RespondLost, AgentGoto, Closes, Works, flowVars
  <2>3. agent'[e][r] \in {"saved", "respond", "none"}
    BY <1>0, <2>1, <2>2, AgentMoves
  <2>4. ~Holds(e, r) /\ ~Holds(e, r)'
    BY <2>1, <2>3 DEF Holds
  <2> QED BY <1>0, <1>h, <1>c, <1>r, <2>1, <2>4 DEF SlotStep
<1>6. CASE SaveLost(e, r)
  <2>1. /\ agent[e][r] \in {"save", "free", "zero", "saved"}
        /\ UNCHANGED <<total, leaky>> /\ Works(e, r, "save")
    BY <1>6 DEF SaveLost
  <2>2. (over => over') /\ (agent[e][r] \in {"zero", "saved"} => over')
    BY <1>6 DEF SaveLost
  <2>3. agent'[e][r] = "save"
    BY <1>0, <2>1, AgentMoves
  <2>4. Holds(e, r)' /\ (Holds(e, r) \/ over')
    BY <2>1, <2>2, <2>3 DEF Holds
  <2>5. HR' = HR \/ (HR' = HR + 1 /\ over')
    BY <1>r, <2>4
  <2> QED BY <1>0, <1>h, <1>c, <2>1, <2>2, <2>5 DEF SlotStep
<1> QED BY <1>1, <1>2, <1>3, <1>4, <1>5, <1>6 DEF AgentSteps

LEMMA JobSlots ==
    ASSUME TypeOK, NEW e \in Events, Take(e) \/ DrainTakes(e) \/ AgesOut(e)
    PROVE  SlotStep
<1>1. JobType
  BY TypeParts
<1>2. UNCHANGED flowVars /\ UNCHANGED <<total, over, leaky>>
  BY DEF Take, DrainTakes, AgesOut, slotVars
<1>3. \E label \in CallPc : Goto(e, label) /\ (call[e] \in Paid <=> label \in Paid)
  BY DEF Take, DrainTakes, AgesOut, CallPc, Calling, Paid
<1>4. HoldingRuns' = HoldingRuns /\ HoldingCalls' = HoldingCalls
  BY <1>1, <1>2, <1>3, RunsSame, CallHolds
<1>5. Held' = Held
  BY <1>4 DEF Held
<1> QED BY <1>2, <1>5 DEF SlotStep

\* A step that only takes holders away.
LEMMA FewerSlots ==
    ASSUME HoldingRuns' \subseteq HoldingRuns, HoldingCalls' \subseteq HoldingCalls
    PROVE  Held' <= Held
<1>1. Cardinality(HoldingRuns') <= Cardinality(HoldingRuns)
      /\ Cardinality(HoldingRuns') \in Nat
  BY HeldIsNat, FS_Subset, FS_CardinalityType
<1>2. Cardinality(HoldingCalls') <= Cardinality(HoldingCalls)
      /\ Cardinality(HoldingCalls') \in Nat
  BY HeldIsNat, FS_Subset, FS_CardinalityType
<1> QED BY <1>1, <1>2, HeldIsNat DEF Held

LEMMA ClosingSlots ==
    ASSUME TypeOK, KeyExpires \/ Crash \/ \E e \in Events : TimesOut(e) PROVE SlotStep
<1>0. FlowType /\ JobType
  BY TypeParts
<1>1. CASE KeyExpires
  <2>1. HoldingRuns' = HoldingRuns /\ HoldingCalls' = HoldingCalls
    BY <1>1, RunsSame, CallsSame DEF KeyExpires, jobVars
  <2>2. Held' = Held
    BY <2>1 DEF Held
  <2> QED BY <1>1, <2>2 DEF KeyExpires, SlotStep
<1>2. CASE Crash
  <2>1. HoldingRuns' = HoldingRuns
    BY <1>2, RunsSame DEF Crash
  <2>2. HoldingCalls' \subseteq HoldingCalls
    BY <1>0, <1>2 DEF Crash, HoldingCalls, JobType
  <2>3. Held' <= Held
    BY <2>1, <2>2, FewerSlots
  <2>4. total' = total /\ over' = over /\ leaky'
    BY <1>2 DEF Crash
  <2> QED BY <2>3, <2>4 DEF SlotStep
<1>3. CASE \E e \in Events : TimesOut(e)
  <2>1. PICK e \in Events : TimesOut(e)
    BY <1>3
  <2>2. open[e] \in Runs
    BY <1>0, <2>1 DEF TimesOut, FlowType, Runs
  <2>3. agent' = agent \/ agent' = [agent EXCEPT ![e][open[e]] = "none"]
    BY <2>1 DEF TimesOut
  <2>4. \A x \in Events, s \in Runs : agent'[x][s] = agent[x][s] \/ agent'[x][s] = "none"
    BY <1>0, <2>2, <2>3, AgentSet DEF AgentPc
  <2>5. open' = [open EXCEPT ![e] = 0] /\ \A s \in Runs : s # 0
    BY <2>1 DEF TimesOut, Shuts, Runs
  <2>6. \A x \in Events, s \in Runs : open'[x] = s => open[x] = s
    BY <1>0, <2>5 DEF FlowType
  <2>7. HoldingRuns' \subseteq HoldingRuns
    BY <2>4, <2>6 DEF HoldingRuns
  <2>8. HoldingCalls' = HoldingCalls
    BY <2>1, CallsSame DEF TimesOut, jobVars
  <2>9. Held' <= Held
    BY <2>7, <2>8, FewerSlots
  <2>10. total' = total /\ over' = over /\ leaky'
    BY <2>1 DEF TimesOut
  <2> QED BY <2>9, <2>10 DEF SlotStep
<1> QED BY <1>1, <1>2, <1>3

LEMMA ReapSlots ==
    ASSUME TypeOK, ReapGhosts, ReapSteps PROVE SlotStep
<1>0. FlowType /\ JobType
  BY TypeParts
<1>1. CASE Select \/ Commit \/ CommitFails \/ ReapRelease \/ ReapZero \/ ReapEnds
  <2>1. HoldingRuns' = HoldingRuns /\ HoldingCalls' = HoldingCalls
    BY <1>1, RunsSame, CallsSame
       DEF Select, Commit, CommitFails, ReapRelease, ReapZero, ReapEnds, jobVars
  <2>2. Held' = Held
    BY <2>1 DEF Held
  <2>3. CASE ReapRelease \/ ReapZero
    BY <2>2, <2>3 DEF ReapRelease, ReapZero, ReapGhosts, SlotStep
  <2>4. CASE Select
    BY <2>2, <2>4 DEF Select, SlotStep
  <2>5. CASE Commit \/ CommitFails \/ ReapEnds
    BY <2>2, <2>5 DEF Commit, CommitFails, ReapEnds, slotVars, SlotStep
  <2> QED BY <1>1, <2>3, <2>4, <2>5
<1>2. CASE \E e \in Events : Visit(e)
  <2>1. PICK e \in Events : Visit(e)
    BY <1>2
  <2>2. agent' = agent /\ \A x \in Events, s \in Runs : open'[x] = s => open[x] = s
    BY <1>0, <2>1 DEF Visit, Shuts, FlowType, Runs
  <2>3. HoldingRuns' \subseteq HoldingRuns
    BY <2>2 DEF HoldingRuns
  <2>4. Goto(e, "gone") \/ call' = call
    BY <2>1 DEF Visit, CancelJob
  <2>5. HoldingCalls' \subseteq HoldingCalls
    BY <1>0, <2>4 DEF HoldingCalls, JobType, Goto
  <2>6. Held' <= Held
    BY <2>3, <2>5, FewerSlots
  <2>7. UNCHANGED <<total, over, leaky>> /\ leaky
    BY <2>1 DEF Visit, slotVars, ReapGhosts
  <2> QED BY <2>6, <2>7 DEF SlotStep
<1> QED BY <1>1, <1>2 DEF ReapSteps

LEMMA SlotSteps ==
    ASSUME TypeOK, RunsFresh, ReapGhosts, NoZero, Next PROVE SlotStep
BY CallSlots, AgentSlots, JobSlots, ReapSlots, ClosingSlots DEF Next

LEMMA FreshNext ==
    ASSUME TypeOK, RunsFresh, Next PROVE RunsFresh'
<1>0. FlowType
  BY TypeParts
<1>1. CASE UNCHANGED <<runs, agent>>
  BY <1>1 DEF RunsFresh
<1>2. ASSUME NEW e \in Events, Opens(e)
      PROVE  RunsFresh'
  <2>1. PICK n \in Runs : n = runs[e] + 1
    BY <1>0, <1>2, OpensType
  <2>2. /\ runs' = [runs EXCEPT ![e] = n] /\ agent' = [agent EXCEPT ![e][n] = "judge"]
    BY <1>0, <1>2, <2>1, OpensType
  <2>3. \A x \in Events, s \in Runs : x # e \/ s # n => agent'[x][s] = agent[x][s]
    BY <1>0, <2>2, AgentSet DEF AgentPc
  <2>4. ASSUME NEW x \in Events, NEW s \in Runs, s > runs'[x]
        PROVE  agent'[x][s] = "none"
    <3>1. runs[x] \in Nat /\ runs[e] \in Nat /\ s \in Nat
      BY <1>0 DEF FlowType, Runs
    <3>2. s > runs[x] /\ (x # e \/ s # n)
      BY <1>0, <2>1, <2>2, <2>4, <3>1 DEF FlowType
    <3> QED BY <2>3, <3>2 DEF RunsFresh
  <2> QED BY <2>4 DEF RunsFresh
<1>3. ASSUME NEW e \in Events, NEW r \in Runs, AgentSteps(e, r)
      PROVE  RunsFresh'
  <2>1. runs' = runs /\ agent[e][r] # "none"
    BY <1>3 DEF AgentSteps, Judge, Save, Free, FreeZero, FreeFails, Saved, SaveLost, Responds,
                RespondLost, AgentAt, flowVars
  <2>2. agent' = agent \/ \E label \in AgentPc : Works(e, r, label)
    BY <1>3 DEF AgentPc, AgentSteps, Judge, Save, Free, FreeZero, FreeFails, Saved, SaveLost,
                Responds, RespondLost, AgentGoto, Closes, Works, flowVars
  <2>3. \A x \in Events, s \in Runs : x # e \/ s # r => agent'[x][s] = agent[x][s]
    <3>1. CASE agent' = agent
      BY <3>1
    <3>2. CASE \E label \in AgentPc : Works(e, r, label)
      BY <1>0, <3>2, AgentSet DEF Works
    <3> QED BY <2>2, <3>1, <3>2
  <2> QED BY <2>1, <2>3 DEF RunsFresh
<1>4. ASSUME NEW e \in Events, TimesOut(e)
      PROVE  RunsFresh'
  <2>1. open[e] \in Runs /\ runs' = runs
    BY <1>0, <1>4 DEF TimesOut, FlowType, Runs
  <2>2. agent' = agent \/ agent' = [agent EXCEPT ![e][open[e]] = "none"]
    BY <1>4 DEF TimesOut
  <2>3. \A x \in Events, s \in Runs : agent'[x][s] = agent[x][s] \/ agent'[x][s] = "none"
    BY <1>0, <2>1, <2>2, AgentSet DEF AgentPc
  <2> QED BY <2>1, <2>3 DEF RunsFresh
<1>5. ASSUME NEW e \in Events, CallSteps(e)
      PROVE  UNCHANGED <<runs, agent>> \/ Opens(e)
  BY <1>5 DEF CallSteps, Read, Incr, AcquireFails, Enqueue, EnqueueFails, Starts, StartFails,
              StartTimesOut, Release, Zero, ReleaseFails, AsyncSaves, AsyncResponds, AsyncLate,
              AsyncFallback, flowVars
<1>6. ASSUME NEW e \in Events, Take(e) \/ DrainTakes(e) \/ AgesOut(e)
      PROVE  UNCHANGED <<runs, agent>>
  BY <1>6 DEF Take, DrainTakes, AgesOut, flowVars
<1>7. ASSUME ReapSteps \/ KeyExpires \/ Crash
      PROVE  UNCHANGED <<runs, agent>>
  BY <1>7 DEF ReapSteps, Select, Visit, Commit, CommitFails, ReapRelease, ReapZero, ReapEnds,
              KeyExpires, Crash, flowVars
<1> QED BY <1>1, <1>2, <1>3, <1>4, <1>5, <1>6, <1>7 DEF Next

LEMMA GhostsNext ==
    ASSUME ReapGhosts, Next PROVE ReapGhosts'
<1>1. CASE UNCHANGED reap /\ (over => over') /\ (leaky => leaky')
  BY <1>1 DEF ReapGhosts
<1>2. ASSUME NEW e \in Events,
             Take(e) \/ DrainTakes(e) \/ AgesOut(e) \/ TimesOut(e) \/ CallSteps(e)
      PROVE  UNCHANGED reap /\ (over => over') /\ (leaky => leaky')
  BY <1>2 DEF Take, DrainTakes, AgesOut, TimesOut, CallSteps, Read, Incr, AcquireFails, Enqueue,
              EnqueueFails, Starts, StartFails, StartTimesOut, Release, Zero, ReleaseFails,
              AsyncSaves, AsyncResponds, AsyncLate, AsyncFallback, reapVars, slotVars
<1>3. ASSUME NEW e \in Events, NEW r \in Runs, AgentSteps(e, r)
      PROVE  UNCHANGED reap /\ (over => over') /\ (leaky => leaky')
  <2>1. CASE SaveLost(e, r)
    BY <2>1 DEF SaveLost, reapVars
  <2>2. CASE FreeFails(e, r)
    BY <2>2 DEF FreeFails, reapVars
  <2>3. CASE Free(e, r) \/ FreeZero(e, r)
    BY <2>3 DEF Free, FreeZero, reapVars
  <2>4. CASE ~SaveLost(e, r) /\ ~FreeFails(e, r) /\ ~Free(e, r) /\ ~FreeZero(e, r)
    BY <1>3, <2>4 DEF AgentSteps, Judge, Save, Saved, Responds, RespondLost, reapVars, slotVars
  <2> QED BY <2>1, <2>2, <2>3, <2>4
<1>4. CASE Select
  BY <1>4 DEF Select, ReapGhosts
<1>5. CASE KeyExpires \/ Crash
  BY <1>5 DEF KeyExpires, Crash, reapVars, ReapGhosts
<1>6. ASSUME NEW e \in Events, Visit(e)
      PROVE  UNCHANGED reap /\ (over => over') /\ (leaky => leaky')
  BY <1>6 DEF Visit, slotVars
<1>7. CASE Commit \/ CommitFails \/ ReapRelease \/ ReapZero \/ ReapEnds
  BY <1>7 DEF Commit, CommitFails, ReapRelease, ReapZero, ReapEnds, slotVars, ReapGhosts
<1> QED BY <1>1, <1>2, <1>3, <1>4, <1>5, <1>6, <1>7 DEF Next, ReapSteps

\* One holder is enough to keep the counter above 0.
LEMMA HolderCounts ==
    ASSUME TypeOK, SlotsCovered, ~over,
           HoldingCalls # {} \/ HoldingRuns # {}
    PROVE  total - 1 >= 0
<1>1. Held >= 1
  <2>1. CASE HoldingCalls # {}
    <3>1. Cardinality(HoldingCalls) # 0
      BY <2>1, HeldIsNat, FS_EmptySet
    <3> QED BY <3>1, HeldIsNat DEF Held
  <2>2. CASE HoldingRuns # {}
    <3>1. Cardinality(HoldingRuns) # 0
      BY <2>2, HeldIsNat, FS_EmptySet
    <3> QED BY <3>1, HeldIsNat DEF Held
  <2> QED BY <2>1, <2>2
<1>2. Held <= total /\ total \in Int
  BY DEF SlotsCovered, TypeOK
<1> QED BY <1>1, <1>2, HeldIsNat

LEMMA ZeroNext ==
    ASSUME TypeOK, RunsFresh, ReapGhosts, NoZero, SlotsCovered, Next PROVE NoZero'
<1>0. FlowType /\ JobType
  BY TypeParts
<1>o. over => over'
  BY SlotSteps DEF SlotStep
<1> SUFFICES ASSUME ~over' PROVE /\ \A x \in Events : call'[x] # "zero"
                                 /\ \A x \in Events, s \in Runs : agent'[x][s] # "zero"
  BY DEF NoZero
<1>z. ~over /\ (\A x \in Events : call[x] # "zero")
            /\ (\A x \in Events, s \in Runs : agent[x][s] # "zero")
  BY <1>o DEF NoZero
<1>1. ASSUME NEW e \in Events, CallSteps(e)
      PROVE  \E label \in CallPc \ {"zero"} : Goto(e, label)
  <2>1. CASE Release(e)
    <3>1. HoldingCalls # {}
      BY <2>1 DEF Release, HoldingCalls
    <3>2. total - 1 >= 0 /\ total \in Int
      BY <1>z, <3>1, HolderCounts DEF TypeOK
    <3>3. FallBack(e)
      BY <2>1, <3>2 DEF Release
    <3> QED BY <3>3 DEF FallBack, CallPc, Calling
  <2>2. CASE ~Release(e)
    BY <1>1, <1>z, <2>2
       DEF CallSteps, Read, Incr, AcquireFails, Enqueue, EnqueueFails, Starts, StartFails,
           StartTimesOut, Zero, ReleaseFails, AsyncSaves, AsyncResponds, AsyncLate,
           AsyncFallback, FallBack, CallPc, Calling
  <2> QED BY <2>1, <2>2
<1>2. \A x \in Events : call'[x] # "zero"
  <2>1. ASSUME NEW e \in Events, CallSteps(e) \/ Take(e) \/ DrainTakes(e) \/ AgesOut(e)
                                 \/ TimesOut(e) \/ Visit(e)
        PROVE  call' = call \/ \E label \in CallPc \ {"zero"} : Goto(e, label)
    BY <1>1, <2>1 DEF Take, DrainTakes, AgesOut, TimesOut, Visit, CancelJob, CallPc, Calling,
                      jobVars
  <2>2. ASSUME NEW e \in Events, \E label \in CallPc \ {"zero"} : Goto(e, label)
        PROVE  \A x \in Events : call'[x] # "zero"
    BY <1>0, <1>z, <2>2, CallSet
  <2>3. CASE Crash
    BY <1>0, <1>z, <2>3 DEF Crash
  <2>4. CASE call' = call
    BY <1>z, <2>4
  <2>5. ASSUME NEW e \in Events, NEW r \in Runs, AgentSteps(e, r)
        PROVE  call' = call
    BY <2>5 DEF AgentSteps, Judge, Save, Free, FreeZero, FreeFails, Saved, SaveLost,
                Responds, RespondLost, jobVars
  <2>6. CASE Select \/ Commit \/ CommitFails \/ ReapRelease \/ ReapZero \/ ReapEnds \/ KeyExpires
    BY <1>z, <2>6 DEF Select, Commit, CommitFails, ReapRelease, ReapZero, ReapEnds, KeyExpires,
                      jobVars
  <2> QED BY <2>1, <2>2, <2>3, <2>4, <2>5, <2>6 DEF Next, ReapSteps
<1>3. ASSUME NEW e \in Events, NEW r \in Runs, AgentSteps(e, r)
      PROVE  agent' = agent \/ \E label \in AgentPc \ {"zero"} : Works(e, r, label)
  <2>1. CASE Free(e, r)
    <3>1. <<e, r>> \in HoldingRuns
      BY <2>1 DEF Free, AgentAt, HoldingRuns
    <3>2. total - 1 >= 0 /\ total \in Int
      BY <1>z, <3>1, HolderCounts DEF TypeOK
    <3>3. Works(e, r, "saved")
      BY <2>1, <3>2 DEF Free
    <3> QED BY <3>3 DEF AgentPc
  <2>2. CASE ~Free(e, r)
    BY <1>3, <2>2 DEF AgentPc, AgentSteps, Judge, Save, FreeZero, FreeFails, Saved, SaveLost,
                      Responds, RespondLost, AgentGoto, Closes, Works, flowVars
  <2> QED BY <2>1, <2>2
<1>4. \A x \in Events, s \in Runs : agent'[x][s] # "zero"
  <2>1. CASE agent' = agent
    BY <1>z, <2>1
  <2>2. ASSUME NEW e \in Events, NEW r \in Runs, NEW label \in AgentPc \ {"zero"},
               agent' = [agent EXCEPT ![e][r] = label]
        PROVE  \A x \in Events, s \in Runs : agent'[x][s] # "zero"
    BY <1>0, <1>z, <2>2, AgentSet
  <2>3. ASSUME NEW e \in Events, NEW r \in Runs, AgentSteps(e, r)
        PROVE  \A x \in Events, s \in Runs : agent'[x][s] # "zero"
    BY <1>3, <2>1, <2>2, <2>3 DEF Works
  <2>4. ASSUME NEW e \in Events, TimesOut(e)
        PROVE  \A x \in Events, s \in Runs : agent'[x][s] # "zero"
    <3>1. open[e] \in Runs
      BY <1>0, <2>4 DEF TimesOut, FlowType, Runs
    <3>2. agent' = agent \/ agent' = [agent EXCEPT ![e][open[e]] = "none"]
      BY <2>4 DEF TimesOut
    <3> QED BY <2>1, <2>2, <3>1, <3>2 DEF AgentPc
  <2>5. ASSUME NEW e \in Events, Opens(e)
        PROVE  \A x \in Events, s \in Runs : agent'[x][s] # "zero"
    <3>1. PICK n \in Runs : n = runs[e] + 1
      BY <1>0, <2>5, OpensType
    <3>2. agent' = [agent EXCEPT ![e][n] = "judge"]
      BY <1>0, <2>5, <3>1, OpensType
    <3> QED BY <2>2, <3>2 DEF AgentPc
  <2>6. ASSUME NEW e \in Events, CallSteps(e)
        PROVE  agent' = agent \/ Opens(e)
    BY <2>6 DEF CallSteps, Read, Incr, AcquireFails, Enqueue, EnqueueFails, Starts, StartFails,
                StartTimesOut, Release, Zero, ReleaseFails, AsyncSaves, AsyncResponds, AsyncLate,
                AsyncFallback, flowVars
  <2>7. ASSUME NEW e \in Events, Take(e) \/ DrainTakes(e) \/ AgesOut(e)
        PROVE  agent' = agent
    BY <2>7 DEF Take, DrainTakes, AgesOut, flowVars
  <2>8. ASSUME ReapSteps \/ KeyExpires \/ Crash
        PROVE  agent' = agent
    BY <2>8 DEF ReapSteps, Select, Visit, Commit, CommitFails, ReapRelease, ReapZero, ReapEnds,
                KeyExpires, Crash, flowVars
  <2> QED BY <2>1, <2>3, <2>4, <2>5, <2>6, <2>7, <2>8 DEF Next
<1> QED BY <1>2, <1>4

LEMMA HeldNextIsNat == Held' \in Nat
<1>1. HoldingRuns' \subseteq Events \X Runs /\ HoldingCalls' \subseteq Events
  BY DEF HoldingRuns, HoldingCalls
<1>2. IsFiniteSet(Events \X Runs)
  <2>1. IsFiniteSet(Runs)
    BY AuditAssumption, FS_Interval DEF Runs
  <2> QED BY <2>1, AuditAssumption, FS_Product
<1>3. IsFiniteSet(HoldingRuns') /\ IsFiniteSet(HoldingCalls')
  BY <1>1, <1>2, AuditAssumption, FS_Subset
<1> QED BY <1>3, FS_CardinalityType DEF Held

\* The counter says what it should after every step.
LEMMA SlotsNext ==
    ASSUME TypeOK, TypeOK', SlotStep, SlotsCovered, SlotsReturned
    PROVE  SlotsCovered' /\ SlotsReturned'
<1>1. Held \in Nat /\ total \in Int /\ total' \in Int
  BY HeldIsNat DEF TypeOK
<1>2. Held' \in Nat
  BY HeldNextIsNat
<1>3. ASSUME ~over' PROVE Held' <= total'
  <2>1. ~over /\ Held <= total
    BY <1>3 DEF SlotStep, SlotsCovered
  <2> QED BY <1>1, <1>2, <1>3, <2>1 DEF SlotStep
<1>4. ASSUME ~leaky' PROVE total' <= Held'
  <2>1. ~leaky /\ total <= Held
    BY <1>4 DEF SlotStep, SlotsReturned
  <2> QED BY <1>1, <1>2, <1>4, <2>1 DEF SlotStep
<1> QED BY <1>3, <1>4 DEF SlotsCovered, SlotsReturned

SlotInv == /\ TypeOK /\ WorkersSuffice /\ RunsFresh /\ ReapGhosts /\ NoZero
           /\ SlotsCovered /\ SlotsReturned

LEMMA SlotInit == Init => SlotInv
<1> SUFFICES ASSUME Init PROVE SlotInv
  OBVIOUS
<1>1. TypeOK /\ WorkersSuffice
  BY TypeInit
<1>2. RunsFresh /\ ReapGhosts /\ NoZero
  BY DEF Init, RunsFresh, ReapGhosts, NoZero
<1>3. HoldingRuns = {} /\ HoldingCalls = {}
  BY DEF Init, HoldingRuns, HoldingCalls
<1>4. Held = 0
  BY <1>3, FS_EmptySet DEF Held
<1>5. SlotsCovered /\ SlotsReturned
  BY <1>4 DEF Init, SlotsCovered, SlotsReturned
<1> QED BY <1>1, <1>2, <1>5 DEF SlotInv

LEMMA SlotNext == SlotInv /\ [Next]_vars => SlotInv'
<1> SUFFICES ASSUME SlotInv, [Next]_vars PROVE SlotInv'
  OBVIOUS
<1>0. TypeOK' /\ WorkersSuffice'
  BY TypeNext DEF SlotInv
<1>1. CASE Next
  <2>1. SlotStep
    BY <1>1, SlotSteps DEF SlotInv
  <2>2. RunsFresh' /\ ReapGhosts' /\ NoZero'
    BY <1>1, FreshNext, GhostsNext, ZeroNext DEF SlotInv
  <2>3. SlotsCovered' /\ SlotsReturned'
    BY <1>0, <2>1, SlotsNext DEF SlotInv
  <2> QED BY <1>0, <2>2, <2>3 DEF SlotInv
<1>2. CASE UNCHANGED vars
  <2>1. HoldingRuns' = HoldingRuns /\ HoldingCalls' = HoldingCalls
    BY <1>2, RunsSame, CallsSame DEF vars, jobVars
  <2>2. Held' = Held /\ total' = total /\ over' = over /\ leaky' = leaky
    BY <1>2, <2>1 DEF Held, vars, slotVars
  <2>3. SlotsCovered' /\ SlotsReturned'
    BY <2>2 DEF SlotInv, SlotsCovered, SlotsReturned
  <2>4. RunsFresh' /\ ReapGhosts' /\ NoZero'
    BY <1>2 DEF SlotInv, RunsFresh, ReapGhosts, NoZero, vars, jobVars, slotVars, flowVars, reapVars
  <2> QED BY <1>0, <2>3, <2>4 DEF SlotInv
<1> QED BY <1>1, <1>2

THEOREM SlotInvHolds == Spec => []SlotInv
BY SlotInit, SlotNext, PTL DEF Spec

\* Every slot that a caller or a run holds is in the counter, as long as no
\* release of inflight_release was one too many.
THEOREM CounterCovers == Spec => []SlotsCovered
<1>1. SlotInv => SlotsCovered
  BY DEF SlotInv
<1> QED BY <1>1, SlotInvHolds, PTL

\* Every way out of start_audit_workflow and of the workflow gives its slot back,
\* as long as none was ended from outside.
THEOREM CounterReturns == Spec => []SlotsReturned
<1>1. SlotInv => SlotsReturned
  BY DEF SlotInv
<1> QED BY <1>1, SlotInvHolds, PTL
-----------------------------------------------------------------------------
(* The limit *)

\* The callers between the comparison and the increment.
Incrementing == {e \in Events : call[e] = "incr"}
RoomLeft == ~over => Held + Cardinality(Incrementing) <= Limit + Workers

LEMMA IncrementingFinite ==
    /\ IsFiniteSet(Incrementing) /\ Cardinality(Incrementing) \in Nat
    /\ TypeOK /\ WorkersSuffice => Cardinality(Incrementing) <= Workers + 1
<1>1. IsFiniteSet(Incrementing) /\ Cardinality(Incrementing) \in Nat
  BY AuditAssumption, FS_Subset, FS_CardinalityType DEF Incrementing
<1>2. ASSUME TypeOK, WorkersSuffice
      PROVE  Cardinality(Incrementing) <= Workers + 1
  <2>1. Incrementing \subseteq Working \cup {drain}
    BY DEF Incrementing, Working, Calling
  <2>2. IsFiniteSet(Working) /\ Cardinality(Working) \in Nat /\ Cardinality(Working) <= Workers
    BY <1>2, WorkingFinite, AuditAssumption DEF TypeOK, WorkersSuffice
  <2>3. IsFiniteSet(Working \cup {drain})
        /\ (Cardinality(Working \cup {drain}) = Cardinality(Working)
            \/ Cardinality(Working \cup {drain}) = Cardinality(Working) + 1)
    BY <2>2, FS_AddElement, Zenon
  <2>4. Cardinality(Incrementing) <= Cardinality(Working \cup {drain})
    BY <2>1, <2>3, FS_Subset
  <2> QED BY <1>1, <2>2, <2>3, <2>4, AuditAssumption
<1> QED BY <1>1, <1>2

\* Who comes between the comparison and the increment has just found room.
LEMMA IncrementingNext ==
    ASSUME JobType, Next
    PROVE  \/ Incrementing' \subseteq Incrementing
           \/ \E e \in Events : Read(e) /\ total < Limit
<1>1. ASSUME NEW e \in Events, NEW label \in CallPc \ {"incr"}, Goto(e, label)
      PROVE  Incrementing' \subseteq Incrementing
  BY <1>1, CallSet DEF Incrementing
<1>2. CASE call' = call
  BY <1>2 DEF Incrementing
<1>3. ASSUME NEW e \in Events,
             Take(e) \/ DrainTakes(e) \/ AgesOut(e) \/ TimesOut(e) \/ CallSteps(e) \/ Visit(e)
      PROVE  \/ call' = call
             \/ \E label \in CallPc \ {"incr"} : Goto(e, label)
             \/ Read(e) /\ total < Limit
  BY <1>3 DEF Take, DrainTakes, AgesOut, TimesOut, CallSteps, Read, Incr, AcquireFails, Enqueue,
              EnqueueFails, Starts, StartFails, StartTimesOut, Release, Zero, ReleaseFails,
              AsyncSaves, AsyncResponds, AsyncLate, AsyncFallback, Visit, CancelJob, FallBack,
              jobVars, CallPc, Calling
<1>4. ASSUME NEW e \in Events, NEW r \in Runs, AgentSteps(e, r)
      PROVE  call' = call
  BY <1>4 DEF AgentSteps, Judge, Save, Free, FreeZero, FreeFails, Saved, SaveLost,
              Responds, RespondLost, jobVars
<1>5. CASE Select \/ Commit \/ CommitFails \/ ReapRelease \/ ReapZero \/ ReapEnds \/ KeyExpires
  BY <1>2, <1>5 DEF Select, Commit, CommitFails, ReapRelease, ReapZero, ReapEnds, KeyExpires,
                    jobVars
<1>6. CASE Crash
  BY <1>6 DEF Crash, Incrementing, JobType
<1> QED BY <1>1, <1>2, <1>3, <1>4, <1>5, <1>6 DEF Next, ReapSteps

\* Only the increment raises the counter.
LEMMA TotalNext ==
    ASSUME total \in Int, total >= 0, Next
    PROVE  \/ total' <= total
           \/ \E e \in Events : call[e] = "incr" /\ Goto(e, "start")
<1>1. ASSUME NEW e \in Events,
             Take(e) \/ DrainTakes(e) \/ AgesOut(e) \/ TimesOut(e) \/ CallSteps(e)
      PROVE  total' <= total \/ (call[e] = "incr" /\ Goto(e, "start"))
  BY <1>1 DEF Take, DrainTakes, AgesOut, TimesOut, CallSteps, Read, Incr, AcquireFails, Enqueue,
              EnqueueFails, Starts, StartFails, StartTimesOut, Release, Zero, ReleaseFails,
              AsyncSaves, AsyncResponds, AsyncLate, AsyncFallback, slotVars
<1>2. ASSUME NEW e \in Events, NEW r \in Runs, AgentSteps(e, r)
      PROVE  total' <= total
  BY <1>2 DEF AgentSteps, Judge, Save, Free, FreeZero, FreeFails, Saved, SaveLost,
              Responds, RespondLost, slotVars
<1>3. ASSUME ReapSteps \/ KeyExpires \/ Crash
      PROVE  total' <= total
  BY <1>3 DEF ReapSteps, Select, Visit, Commit, CommitFails, ReapRelease, ReapZero, ReapEnds,
              KeyExpires, Crash, slotVars
<1> QED BY <1>1, <1>2, <1>3 DEF Next

LEMMA RoomNext ==
    ASSUME SlotInv, SlotInv', RoomLeft, Next PROVE RoomLeft'
<1> DEFINE I == Cardinality(Incrementing)
<1>0. /\ FlowType /\ JobType /\ total \in Int /\ total' \in Int
      /\ Held \in Nat /\ I \in Nat
      /\ Limit \in Nat /\ Workers \in Nat
  BY TypeParts, HeldIsNat, IncrementingFinite, AuditAssumption DEF SlotInv, TypeOK
<1>1. I' \in Nat /\ I' <= Workers + 1
  <2>1. Incrementing' \subseteq Working' \cup {drain'}
    BY DEF Incrementing, Working, Calling
  <2>2. Working' \subseteq Events
    BY DEF Working
  <2>3. IsFiniteSet(Working')
    BY <2>2, AuditAssumption, FS_Subset
  <2>4. Cardinality(Working') <= Workers /\ Cardinality(Working') \in Nat
    <3>1. Cardinality(Working') \in Nat /\ Cardinality(Working') <= alive' /\ alive' \in 0..Workers
      BY <2>3, FS_CardinalityType DEF SlotInv, WorkersSuffice, TypeOK
    <3> QED BY <1>0, <3>1
  <2>5. IsFiniteSet(Working' \cup {drain'})
        /\ (Cardinality(Working' \cup {drain'}) = Cardinality(Working')
            \/ Cardinality(Working' \cup {drain'}) = Cardinality(Working') + 1)
    BY <2>3, FS_AddElement, Zenon
  <2>6. I' <= Cardinality(Working' \cup {drain'}) /\ IsFiniteSet(Incrementing')
    BY <2>1, <2>5, FS_Subset
  <2>7. I' \in Nat
    BY <2>6, FS_CardinalityType
  <2> QED BY <1>0, <2>4, <2>5, <2>6, <2>7
<1>2. SlotStep
  BY SlotSteps DEF SlotInv
<1> SUFFICES ASSUME ~over' PROVE Held' + I' <= Limit + Workers
  BY DEF RoomLeft
<1>3. ~over /\ Held + I <= Limit + Workers /\ Held <= total /\ total >= 0
  BY <1>0, <1>2 DEF SlotStep, RoomLeft, SlotInv, SlotsCovered
<1>4. Held' \in Nat
  BY HeldNextIsNat
<1>5. CASE \E e \in Events : call[e] = "incr" /\ Goto(e, "start")
  <2>1. PICK e \in Events : call[e] = "incr" /\ Goto(e, "start")
    BY <1>5
  <2>2. Incrementing' = Incrementing \ {e} /\ e \in Incrementing
    BY <1>0, <2>1, CallSet DEF Incrementing, CallPc, Calling
  <2>3. I' = I - 1
    BY <2>2, IncrementingFinite, FS_RemoveElement
  <2>4. Held' <= Held + 1
    BY <1>0, <1>2, <1>4 DEF SlotStep
  <2> QED BY <1>0, <1>1, <1>3, <1>4, <2>3, <2>4
<1>6. CASE total' <= total
  <2>1. Held' <= Held
    <3> HIDE DEF I
    <3> QED BY <1>0, <1>2, <1>3, <1>4, <1>6 DEF SlotStep
  <2>2. CASE Incrementing' \subseteq Incrementing
    <3>1. I' <= I
      BY <2>2, IncrementingFinite, FS_Subset
    <3> QED BY <1>0, <1>1, <1>3, <1>4, <2>1, <3>1
  <2>3. CASE total < Limit
    BY <1>0, <1>1, <1>3, <1>4, <2>1, <2>3
  <2> QED BY <1>0, <2>2, <2>3, IncrementingNext
<1> QED BY <1>0, <1>3, <1>5, <1>6, TotalNext

LEMMA RoomInit == Init => RoomLeft
<1> SUFFICES ASSUME Init PROVE RoomLeft
  OBVIOUS
<1>1. HoldingRuns = {} /\ HoldingCalls = {} /\ Incrementing = {}
  BY DEF Init, HoldingRuns, HoldingCalls, Incrementing
<1>2. Held = 0 /\ Cardinality(Incrementing) = 0
  BY <1>1, FS_EmptySet DEF Held
<1> QED BY <1>2, AuditAssumption DEF RoomLeft

\* However the comparisons and the increments of the workers and of the drain
\* task interleave, they pass audit_llm_agent_inflight_max by no more slots than
\* the pool has workers, as long as no release was one too many.
THEOREM LimitHolds == Spec => []AgentsBounded
<1>1. SlotInv /\ RoomLeft /\ [Next]_vars => RoomLeft'
  <2> SUFFICES ASSUME SlotInv, RoomLeft, [Next]_vars PROVE RoomLeft'
    OBVIOUS
  <2>1. SlotInv'
    BY SlotNext
  <2>2. CASE Next
    BY <2>1, <2>2, RoomNext
  <2>3. CASE UNCHANGED vars
    <3>1. HoldingRuns' = HoldingRuns /\ HoldingCalls' = HoldingCalls
          /\ Incrementing' = Incrementing
      BY <2>3, RunsSame, CallsSame DEF vars, jobVars, Incrementing
    <3>2. Held' = Held /\ over' = over
      BY <2>3, <3>1 DEF Held, vars, slotVars
    <3> QED BY <3>1, <3>2 DEF RoomLeft
  <2> QED BY <2>2, <2>3
<1>2. RoomLeft => AgentsBounded
  <2>1. Held \in Nat /\ Cardinality(Incrementing) \in Nat /\ Limit + Workers \in Nat
    BY HeldIsNat, IncrementingFinite, AuditAssumption
  <2> QED BY <2>1 DEF RoomLeft, AgentsBounded
<1> QED BY <1>1, <1>2, RoomInit, SlotInvHolds, PTL DEF Spec
-----------------------------------------------------------------------------
(* No event is forgotten *)

\* Who goes on to a response, or has nothing left to do, has saved a verdict; the
\* reaper visits events that it has given up.
Judged ==
    /\ \A e \in Events : call[e] = "cad" => row[e] # "none"
    /\ \A e \in Events, r \in Runs :
           agent[e][r] \in {"free", "zero", "saved", "respond"} => row[e] # "none"
    /\ \A e \in Events : call[e] = "late" => e \in lost
    /\ left \subseteq lost
KeptInv == Judged /\ NeverForgotten

\* Rows are never emptied, and what was lost stays lost.
Monotone == /\ \A e \in Events : row[e] # "none" => row'[e] # "none"
            /\ lost \subseteq lost'

LEMMA CallsKeep ==
    ASSUME TypeOK, KeptInv, NEW e \in Events, CallSteps(e) PROVE KeptInv'
<1>0. FlowType /\ JobType /\ row \in [Events -> Verdicts]
  BY TypeParts DEF RestType
<1>1. ASSUME NEW label \in CallPc, Goto(e, label), Monotone, UNCHANGED <<agent, open, left>>,
             label = "cad" => row'[e] # "none",
             label = "late" => e \in lost',
             label = "gone" => row'[e] # "none" \/ e \in lost'
      PROVE  KeptInv'
  <2>1. call'[e] = label /\ \A x \in Events : x # e => call'[x] = call[x]
    BY <1>0, <1>1, CallSet
  <2>2. Judged'
    BY <1>1, <2>1 DEF KeptInv, Judged, Monotone
  <2>3. NeverForgotten'
    BY <1>1, <2>1 DEF KeptInv, NeverForgotten, Unanalyzed, Monotone
  <2> QED BY <2>2, <2>3 DEF KeptInv
<1>2. CASE Read(e) \/ Incr(e) \/ AcquireFails(e) \/ StartFails(e)
  <2>1. \E label \in CallPc \ {"cad", "gone", "late"} : Goto(e, label)
    BY <1>2 DEF Read, Incr, AcquireFails, StartFails, CallPc, Calling
  <2>2. UNCHANGED <<row, agent, open, left, lost>>
    BY <1>2 DEF Read, Incr, AcquireFails, StartFails, flowVars, reapVars, ghostVars
  <2> QED BY <1>1, <2>1, <2>2 DEF Monotone
<1>3. CASE Release(e) \/ Zero(e) \/ ReleaseFails(e)
  <2>1. \E label \in CallPc \ {"cad", "gone", "late"} : Goto(e, label)
    BY <1>3 DEF Release, Zero, ReleaseFails, FallBack, CallPc, Calling
  <2>2. UNCHANGED <<row, agent, open, left, lost>>
    BY <1>3 DEF Release, Zero, ReleaseFails, flowVars, reapVars, ghostVars
  <2> QED BY <1>1, <2>1, <2>2 DEF Monotone
<1>4. CASE Enqueue(e) \/ EnqueueFails(e)
  <2>1. /\ \/ Goto(e, "queue") /\ UNCHANGED <<row, lost>>
           \/ Goto(e, "gone") /\ lost' = lost \cup {e} /\ row' = row
           \/ Goto(e, "gone") /\ lost' = lost /\ row' = [row EXCEPT ![e] = "fallback"]
        /\ UNCHANGED <<agent, open, left>>
    BY <1>4 DEF Enqueue, EnqueueFails, flowVars, reapVars, ghostVars
  <2> QED BY <1>0, <1>1, <2>1 DEF Monotone, CallPc
<1>5. CASE Starts(e)
  <2>1. FlowType' /\ open' = [open EXCEPT ![e] = runs[e] + 1] /\ runs[e] + 1 \in Runs
    BY <1>0, <1>5, OpensType DEF Starts
  <2>2. \A x \in Events, s \in Runs : agent'[x][s] \in {agent[x][s], "judge"}
    BY <1>0, <1>5, OpensType, AgentSet DEF Starts, AgentPc
  <2>3. Goto(e, "gone") /\ UNCHANGED <<row, left, lost>>
    BY <1>5 DEF Starts, reapVars, ghostVars
  <2>4. Judged'
    BY <1>0, <2>2, <2>3, CallSet DEF KeptInv, Judged, CallPc
  <2>5. open'[e] # 0 /\ \A x \in Events : x # e => open'[x] = open[x]
    BY <1>0, <2>1 DEF Runs, FlowType
  <2>6. NeverForgotten'
    BY <1>0, <2>3, <2>5, CallSet DEF KeptInv, NeverForgotten, Unanalyzed, CallPc
  <2> QED BY <2>4, <2>6 DEF KeptInv
<1>6. CASE StartTimesOut(e)
  <2>1. \A x \in Events, s \in Runs : agent'[x][s] \in {agent[x][s], "judge"}
    BY <1>0, <1>6, OpensType, AgentSet DEF StartTimesOut, AgentPc
  <2>2. Goto(e, "release") /\ UNCHANGED <<row, left, lost>>
    BY <1>6 DEF StartTimesOut, reapVars
  <2>3. Judged'
    BY <1>0, <2>1, <2>2, CallSet DEF KeptInv, Judged, CallPc, Calling
  <2>4. \A x \in Events : x # e => open'[x] = open[x]
    BY <1>0, <1>6, OpensType DEF StartTimesOut, FlowType
  <2>5. NeverForgotten'
    BY <1>0, <2>2, <2>4, CallSet DEF KeptInv, NeverForgotten, Unanalyzed, CallPc, Calling
  <2> QED BY <2>3, <2>5 DEF KeptInv
<1>7. CASE AsyncSaves(e) \/ AsyncResponds(e) \/ AsyncLate(e) \/ AsyncFallback(e)
  <2>1. UNCHANGED <<agent, open, left>>
    BY <1>7 DEF AsyncSaves, AsyncResponds, AsyncLate, AsyncFallback, flowVars, reapVars
  <2>2. CASE AsyncSaves(e) \/ AsyncResponds(e)
    <3>1. /\ \/ Goto(e, "cad") /\ row' = [row EXCEPT ![e] = "llm"]
             \/ Goto(e, "gone") /\ row' = row /\ row[e] # "none"
          /\ lost' = lost
      BY <2>2 DEF AsyncSaves, AsyncResponds, KeptInv, Judged, ghostVars
    <3> QED BY <1>0, <1>1, <2>1, <3>1 DEF Monotone, CallPc, Calling
  <2>3. CASE AsyncLate(e)
    <3>1. Goto(e, "late") /\ lost' = lost \cup {e}
          /\ (row' = row \/ row' = [row EXCEPT ![e] = IF @ = "none" THEN "failed" ELSE @])
      BY <2>3 DEF AsyncLate
    <3> QED BY <1>0, <1>1, <2>1, <3>1 DEF Monotone, CallPc, Calling
  <2>4. CASE AsyncFallback(e)
    <3>1. Goto(e, "gone") /\ lost' = lost /\ e \in lost
          /\ (row' = row \/ row' = [row EXCEPT ![e] = "fallback"])
      BY <2>4 DEF AsyncFallback, ghostVars, KeptInv, Judged
    <3> QED BY <1>0, <1>1, <2>1, <3>1 DEF Monotone, CallPc, Calling
  <2> QED BY <1>7, <2>2, <2>3, <2>4
<1> QED BY <1>2, <1>3, <1>4, <1>5, <1>6, <1>7 DEF CallSteps

LEMMA AgentsKeep ==
    ASSUME TypeOK, KeptInv, NEW e \in Events, NEW r \in Runs, AgentSteps(e, r)
    PROVE  KeptInv'
<1>0. FlowType /\ JobType /\ row \in [Events -> Verdicts]
  BY TypeParts DEF RestType
<1>1. UNCHANGED <<call, left, lost>>
  BY DEF AgentSteps, Judge, Save, Free, FreeZero, FreeFails, Saved, SaveLost, Responds,
         RespondLost, jobVars, reapVars, ghostVars
<1>2. row' = row \/ row' = [row EXCEPT ![e] = "llm"]
  BY DEF AgentSteps, Judge, Save, Free, FreeZero, FreeFails, Saved, SaveLost, Responds,
         RespondLost
<1>3. \A x \in Events : /\ row[x] # "none" => row'[x] # "none"
                        /\ x # e => row'[x] = row[x]
  BY <1>0, <1>2
<1>4. \/ agent' = agent
      \/ \E label \in AgentPc : /\ Works(e, r, label)
                                /\ label \in {"free", "zero", "saved", "respond"} =>
                                       row'[e] # "none"
  <2>1. CASE Judge(e, r) \/ Responds(e, r) \/ RespondLost(e, r)
    BY <2>1 DEF Judge, Responds, RespondLost, AgentGoto, Closes, Works, AgentPc, flowVars
  <2>2. CASE Save(e, r)
    BY <1>0, <2>2 DEF Save, Works, AgentPc
  <2>3. CASE Free(e, r) \/ FreeZero(e, r) \/ FreeFails(e, r)
    <3>1. row[e] # "none" /\ row' = row
      BY <2>3 DEF Free, FreeZero, FreeFails, AgentAt, KeptInv, Judged
    <3>2. \E label \in AgentPc : Works(e, r, label)
      BY <2>3 DEF Free, FreeZero, FreeFails, AgentPc
    <3> QED BY <3>1, <3>2
  <2>4. CASE Saved(e, r)
    <3>1. row[e] # "none" /\ row' = row
      BY <2>4 DEF Saved, AgentAt, KeptInv, Judged
    <3>2. \E label \in AgentPc : Works(e, r, label)
      BY <2>4 DEF Saved, AgentGoto, Closes, Works, AgentPc
    <3> QED BY <3>1, <3>2
  <2>5. CASE SaveLost(e, r)
    <3>1. Works(e, r, "save") /\ "save" \in AgentPc
      BY <2>5 DEF SaveLost, AgentPc
    <3> QED BY <3>1
  <2> QED BY <2>1, <2>2, <2>3, <2>4, <2>5 DEF AgentSteps
<1>5. open' = open \/ (row[e] # "none" /\ \A x \in Events : x # e => open'[x] = open[x])
  <2>1. CASE Saved(e, r) \/ Responds(e, r)
    <3>1. row[e] # "none"
      BY <2>1 DEF Saved, Responds, AgentAt, KeptInv, Judged
    <3>2. \A x \in Events : x # e => open'[x] = open[x]
      BY <1>0, <2>1 DEF Saved, Responds, Closes, FlowType
    <3> QED BY <3>1, <3>2
  <2>2. CASE ~Saved(e, r) /\ ~Responds(e, r)
    BY <2>2 DEF AgentSteps, Judge, Save, Free, FreeZero, FreeFails, SaveLost, RespondLost,
                flowVars
  <2> QED BY <2>1, <2>2
<1>6. NeverForgotten'
  BY <1>1, <1>3, <1>5 DEF KeptInv, NeverForgotten, Unanalyzed
<1>7. Judged'
  <2>1. \A x \in Events, s \in Runs :
            agent'[x][s] \in {"free", "zero", "saved", "respond"} => row'[x] # "none"
    <3>1. CASE agent' = agent
      BY <1>3, <3>1 DEF KeptInv, Judged
    <3>2. ASSUME NEW label \in AgentPc, Works(e, r, label),
                 label \in {"free", "zero", "saved", "respond"} => row'[e] # "none"
          PROVE  \A x \in Events, s \in Runs :
                     agent'[x][s] \in {"free", "zero", "saved", "respond"} => row'[x] # "none"
      <4>1. /\ agent'[e][r] = label
            /\ \A x \in Events, s \in Runs : x # e \/ s # r => agent'[x][s] = agent[x][s]
        <5>1. agent' = [agent EXCEPT ![e][r] = label]
          BY <3>2 DEF Works
        <5> QED BY ONLY <1>0, <5>1, AgentSet, label \in AgentPc, e \in Events, r \in Runs
      <4> QED BY <1>3, <3>2, <4>1 DEF KeptInv, Judged
    <3> QED BY <1>4, <3>1, <3>2
  <2> QED BY <1>1, <1>3, <2>1 DEF KeptInv, Judged
<1> QED BY <1>6, <1>7 DEF KeptInv

LEMMA OthersKeep ==
    ASSUME TypeOK, KeptInv,
           \/ \E e \in Events : Take(e) \/ DrainTakes(e) \/ AgesOut(e) \/ TimesOut(e)
           \/ ReapSteps \/ KeyExpires \/ Crash
    PROVE  KeptInv'
<1>0. FlowType /\ JobType /\ row \in [Events -> Verdicts] /\ rows \subseteq Events
  BY TypeParts DEF RestType, ReapType
<1>1. CASE \E e \in Events : Take(e) \/ DrainTakes(e) \/ AgesOut(e)
  <2>1. PICK e \in Events : Take(e) \/ DrainTakes(e) \/ AgesOut(e)
    BY <1>1
  <2>2. UNCHANGED <<row, agent, open, left>>
    BY <2>1 DEF Take, DrainTakes, AgesOut, flowVars, reapVars
  <2>3. PICK label \in {"read", "async", "gone"} : Goto(e, label)
    BY <2>1 DEF Take, DrainTakes, AgesOut
  <2>4. (lost' = lost /\ label # "gone") \/ lost' = lost \cup {e}
    BY <1>0, <2>1, <2>3, CallSet DEF Take, DrainTakes, AgesOut, ghostVars, CallPc, Calling
  <2>5. call'[e] = label /\ \A x \in Events : x # e => call'[x] = call[x]
    <3>1. label \in CallPc
      BY DEF CallPc, Calling
    <3> QED BY <1>0, <2>3, <3>1, CallSet
  <2>6. Judged'
    BY <2>2, <2>4, <2>5 DEF KeptInv, Judged
  <2>7. NeverForgotten'
    BY <2>2, <2>4, <2>5 DEF KeptInv, NeverForgotten, Unanalyzed
  <2> QED BY <2>6, <2>7 DEF KeptInv
<1>2. CASE \E e \in Events : TimesOut(e)
  <2>1. PICK e \in Events : TimesOut(e)
    BY <1>2
  <2>2. UNCHANGED <<row, call, left>> /\ lost' = lost \cup {e}
    BY <2>1 DEF TimesOut, jobVars, reapVars
  <2>3. open[e] \in Runs /\ (agent' = agent \/ agent' = [agent EXCEPT ![e][open[e]] = "none"])
    BY <1>0, <2>1 DEF TimesOut, FlowType, Runs
  <2>4. \A x \in Events, s \in Runs : agent'[x][s] \in {agent[x][s], "none"}
    BY <1>0, <2>3, AgentSet DEF AgentPc
  <2>5. \A x \in Events : x # e => open'[x] = open[x]
    BY <1>0, <2>1 DEF TimesOut, Shuts, FlowType
  <2>6. Judged'
    BY <2>2, <2>4 DEF KeptInv, Judged
  <2>7. NeverForgotten'
    BY <2>2, <2>5 DEF KeptInv, NeverForgotten, Unanalyzed
  <2> QED BY <2>6, <2>7 DEF KeptInv
<1>3. CASE Select
  <2>1. UNCHANGED <<row, call, open, agent>> /\ lost \subseteq lost' /\ left' \subseteq lost'
    BY <1>3 DEF Select, jobVars, flowVars
  <2> QED BY <2>1 DEF KeptInv, Judged, NeverForgotten, Unanalyzed
<1>4. CASE \E e \in Events : Visit(e)
  <2>1. PICK e \in Events : Visit(e)
    BY <1>4
  <2>2. UNCHANGED <<row, agent, lost>> /\ left' \subseteq left /\ e \in lost
    BY <2>1 DEF Visit, KeptInv, Judged, ghostVars
  <2>3. /\ \A x \in Events : x # e => open'[x] = open[x]
        /\ \A x \in Events : x # e => call'[x] = call[x]
        /\ call'[e] \in {call[e], "gone"}
    BY <1>0, <2>1 DEF Visit, Shuts, CancelJob, Goto, FlowType, JobType
  <2>4. Judged'
    BY <2>2, <2>3 DEF KeptInv, Judged
  <2>5. NeverForgotten'
    BY <2>2, <2>3 DEF KeptInv, NeverForgotten, Unanalyzed
  <2> QED BY <2>4, <2>5 DEF KeptInv
<1>5. CASE Commit \/ CommitFails \/ ReapRelease \/ ReapZero \/ ReapEnds \/ KeyExpires
  <2>1. UNCHANGED <<call, open, agent, lost, left>>
    BY <1>5 DEF Commit, CommitFails, ReapRelease, ReapZero, ReapEnds, KeyExpires, jobVars,
                flowVars, ghostVars, reapVars
  <2>2. row' = row \/ row' = [e \in Events |-> IF e \in rows THEN "reaped" ELSE row[e]]
    BY <1>5 DEF Commit, CommitFails, ReapRelease, ReapZero, ReapEnds, KeyExpires
  <2>3. \A x \in Events : row[x] # "none" => row'[x] # "none"
    BY <2>2
  <2> QED BY <2>1, <2>3 DEF KeptInv, Judged, NeverForgotten, Unanalyzed
<1>6. CASE Crash
  <2>1. UNCHANGED <<row, open, agent>> /\ left' = {}
    BY <1>6 DEF Crash, flowVars
  <2>2. \A x \in Events : /\ x \in lost => x \in lost'
                          /\ call[x] \notin {"queue", "gone"} => x \in lost'
                          /\ call[x] \in {"queue", "gone"} => call'[x] = call[x]
                          /\ call'[x] \in {"queue", "gone"}
    BY <1>6 DEF Crash
  <2>3. Judged'
    BY <2>1, <2>2 DEF KeptInv, Judged
  <2>4. NeverForgotten'
    BY <2>1, <2>2 DEF KeptInv, NeverForgotten, Unanalyzed
  <2> QED BY <2>3, <2>4 DEF KeptInv
<1> QED BY <1>1, <1>2, <1>3, <1>4, <1>5, <1>6 DEF ReapSteps

\* An event that is not analyzed has a job or an open run, unless its job was
\* dropped by a crash, by a cancel of the reaper, in the queue, or with its run.
THEOREM EventsAreKept == Spec => []NeverForgotten
<1>1. Init => KeptInv
  BY DEF Init, KeptInv, Judged, NeverForgotten, Unanalyzed
<1>2. TypeOK /\ KeptInv /\ [Next]_vars => KeptInv'
  <2> SUFFICES ASSUME TypeOK, KeptInv, [Next]_vars PROVE KeptInv'
    OBVIOUS
  <2>1. CASE Next
    BY <2>1, CallsKeep, AgentsKeep, OthersKeep DEF Next
  <2>2. CASE UNCHANGED vars
    BY <2>2 DEF KeptInv, Judged, NeverForgotten, Unanalyzed, vars, jobVars, flowVars, reapVars,
                ghostVars
  <2> QED BY <2>1, <2>2
<1>3. KeptInv => NeverForgotten
  BY DEF KeptInv
<1> QED BY <1>1, <1>2, <1>3, TypeCorrect, PTL DEF Spec
-----------------------------------------------------------------------------
(* One response *)

\* An event has one token, which a job hands over to one run: whoever has
\* triggered the response has used it up.
Token(e) ==
    /\ call[e] # "gone" => runs[e] = 0
    /\ call[e] \notin {"gone", "late"} => responses[e] = 0
    /\ runs[e] <= 1
    /\ responses[e] = 0 \/ (responses[e] = 1 /\ \A r \in Runs : agent[e][r] = "none")
AnswerInv == \A e \in Events \ repeated : Token(e)

\* A step that leaves the jobs, runs and responses of an event alone.
LEMMA TokenKept ==
    ASSUME NEW e \in Events, Token(e), runs'[e] = runs[e], responses'[e] = responses[e],
           \A r \in Runs : agent'[e][r] \in {agent[e][r], "none"},
           call'[e] = call[e] \/ call'[e] = "gone"
           \/ (call[e] \notin {"gone", "late"})
    PROVE  Token(e)'
BY DEF Token

\* The job of one event moves and nothing else of it.
LEMMA CallsAnswer ==
    ASSUME TypeOK, RunsFresh, AnswerInv, NEW e \in Events, CallSteps(e)
    PROVE  AnswerInv'
<1>0. /\ FlowType /\ JobType /\ responses \in [Events -> Nat] /\ repeated \subseteq Events
  BY TypeParts DEF RestType
<1>1. repeated \subseteq repeated'
  BY DEF CallSteps, Read, Incr, AcquireFails, Enqueue, EnqueueFails, Starts, StartFails,
         StartTimesOut, Release, Zero, ReleaseFails, AsyncSaves, AsyncResponds, AsyncLate,
         AsyncFallback, ghostVars
<1>2. \E label \in CallPc : Goto(e, label)
  BY DEF CallSteps, Read, Incr, AcquireFails, Enqueue, EnqueueFails, Starts, StartFails,
         StartTimesOut, Release, Zero, ReleaseFails, AsyncSaves, AsyncResponds, AsyncLate,
         AsyncFallback, FallBack, CallPc, Calling
<1>3. \A x \in Events : x # e => call'[x] = call[x]
  BY <1>0, <1>2, CallSet
<1>4. UNCHANGED <<runs, agent>> \/ Opens(e)
  BY DEF CallSteps, Read, Incr, AcquireFails, Enqueue, EnqueueFails, Starts, StartFails,
         StartTimesOut, Release, Zero, ReleaseFails, AsyncSaves, AsyncResponds, AsyncLate,
         AsyncFallback, flowVars
<1>5. ASSUME Opens(e)
      PROVE  /\ runs'[e] = runs[e] + 1 /\ runs[e] \in Nat
             /\ \A x \in Events : x # e => /\ runs'[x] = runs[x]
                                           /\ \A s \in Runs : agent'[x][s] = agent[x][s]
  <2>1. PICK n \in Runs : n = runs[e] + 1
    BY <1>0, <1>5, OpensType
  <2>2. /\ runs' = [runs EXCEPT ![e] = n] /\ agent' = [agent EXCEPT ![e][n] = "judge"]
        /\ runs[e] \in Nat
    BY <1>0, <1>5, <2>1, OpensType
  <2>3. \A x \in Events, s \in Runs : x # e => agent'[x][s] = agent[x][s]
    BY <1>0, <2>2, AgentSet DEF AgentPc
  <2> QED BY <1>0, <2>1, <2>2, <2>3 DEF FlowType
<1>6. \A x \in Events : x # e => responses'[x] = responses[x]
  BY <1>0 DEF CallSteps, Read, Incr, AcquireFails, Enqueue, EnqueueFails, Starts, StartFails,
              StartTimesOut, Release, Zero, ReleaseFails, AsyncSaves, AsyncResponds, AsyncLate,
              AsyncFallback, Respond
<1>7. ASSUME NEW x \in Events, x # e, Token(x)
      PROVE  Token(x)'
  <2>1. runs'[x] = runs[x] /\ \A s \in Runs : agent'[x][s] = agent[x][s]
    BY <1>4, <1>5, <1>7
  <2> QED BY <1>3, <1>6, <1>7, <2>1, TokenKept
<1>8. ASSUME Token(e), e \notin repeated'
      PROVE  Token(e)'
  <2>1. CASE Starts(e)
    <3>1. /\ Opens(e) /\ Goto(e, "gone") /\ responses' = responses /\ call[e] = "start"
      BY <2>1 DEF Starts
    <3>2. call'[e] = "gone"
      BY <1>0, <3>1, CallSet DEF CallPc
    <3>3. runs[e] = 0 /\ responses[e] = 0
      BY <1>8, <3>1 DEF Token
    <3> QED BY <1>5, <3>1, <3>2, <3>3 DEF Token
  <2>2. CASE StartTimesOut(e)
    BY <1>8, <2>2 DEF StartTimesOut
  <2>3. CASE AsyncResponds(e)
    <3>1. /\ call[e] = "cad" /\ Goto(e, "gone") /\ UNCHANGED <<runs, agent>>
          /\ responses'[e] \in {responses[e], responses[e] + 1}
      BY <1>0, <2>3 DEF AsyncResponds, Respond, flowVars
    <3>2. call'[e] = "gone"
      BY <1>0, <3>1, CallSet DEF CallPc
    <3>3. runs[e] = 0 /\ responses[e] = 0
      BY <1>8, <3>1 DEF Token
    <3>4. \A r \in Runs : agent[e][r] = "none"
      BY <3>3 DEF RunsFresh, Runs
    <3> QED BY <3>1, <3>2, <3>3, <3>4 DEF Token
  <2>4. CASE AsyncFallback(e)
    <3>1. Goto(e, "gone") /\ UNCHANGED <<runs, agent, responses>>
      BY <2>4 DEF AsyncFallback, flowVars
    <3>2. call'[e] = "gone"
      BY <1>0, <3>1, CallSet DEF CallPc
    <3> QED BY <1>8, <3>1, <3>2, TokenKept
  <2>5. CASE ~Starts(e) /\ ~StartTimesOut(e) /\ ~AsyncResponds(e) /\ ~AsyncFallback(e)
    <3>1. UNCHANGED <<runs, agent, responses>> /\ call[e] \notin {"gone", "late"}
      BY <2>5 DEF CallSteps, Read, Incr, AcquireFails, Enqueue, EnqueueFails, StartFails,
                  Release, Zero, ReleaseFails, AsyncSaves, AsyncLate, flowVars
    <3> QED BY <1>8, <3>1, TokenKept
  <2> QED BY <2>1, <2>2, <2>3, <2>4, <2>5
<1> QED BY <1>1, <1>7, <1>8 DEF AnswerInv

LEMMA AgentsAnswer ==
    ASSUME TypeOK, RunsFresh, AnswerInv, NEW e \in Events, NEW r \in Runs, AgentSteps(e, r)
    PROVE  AnswerInv'
<1>0. /\ FlowType /\ JobType /\ responses \in [Events -> Nat] /\ repeated \subseteq Events
  BY TypeParts DEF RestType
<1>1. UNCHANGED <<call, runs>> /\ repeated \subseteq repeated' /\ agent[e][r] # "none"
  BY DEF AgentSteps, Judge, Save, Free, FreeZero, FreeFails, Saved, SaveLost, Responds,
         RespondLost, jobVars, ghostVars, flowVars, AgentAt
<1>2. agent' = agent \/ \E label \in AgentPc : Works(e, r, label)
  BY DEF AgentPc, AgentSteps, Judge, Save, Free, FreeZero, FreeFails, Saved, SaveLost,
         Responds, RespondLost, AgentGoto, Closes, Works, flowVars
<1>3. \A x \in Events, s \in Runs : x # e \/ s # r => agent'[x][s] = agent[x][s]
  <2>1. CASE agent' = agent
    BY <2>1
  <2>2. CASE \E label \in AgentPc : Works(e, r, label)
    BY <1>0, <2>2, AgentSet DEF Works
  <2> QED BY <1>2, <2>1, <2>2
<1>4. \A x \in Events : x # e => responses'[x] = responses[x]
  BY <1>0 DEF AgentSteps, Judge, Save, Free, FreeZero, FreeFails, Saved, SaveLost, Responds,
              RespondLost, Respond
<1>5. ASSUME NEW x \in Events, x # e, Token(x)
      PROVE  Token(x)'
  BY <1>1, <1>3, <1>4, <1>5, TokenKept
<1>6. ASSUME Token(e), e \notin repeated'
      PROVE  Token(e)'
  <2>1. responses[e] = 0 /\ runs[e] \in Nat /\ runs[e] <= 1 /\ call[e] \in {"gone"}
    <3>1. runs[e] # 0 /\ runs[e] \in Nat
      BY <1>0, <1>1 DEF RunsFresh, FlowType, Runs
    <3> QED BY <1>1, <1>6, <3>1 DEF Token
  <2>2. CASE Responds(e, r)
    <3>1. responses'[e] \in {0, 1}
      BY <1>0, <2>1, <2>2 DEF Responds, Respond
    <3>2. agent'[e][r] = "none"
      <4>1. Works(e, r, "none")
        BY <2>2 DEF Responds, Closes, Works
      <4> QED BY <1>0, <4>1, AgentSet DEF Works, AgentPc
    <3>3. \A s \in Runs : s # r => agent[e][s] = "none"
      <4>1. r = 1
        BY <1>1, <2>1 DEF RunsFresh, Runs
      <4> QED BY <2>1, <4>1 DEF RunsFresh, Runs
    <3>4. \A s \in Runs : agent'[e][s] = "none"
      BY <1>3, <3>2, <3>3
    <3> QED BY <1>1, <2>1, <3>1, <3>4 DEF Token
  <2>3. CASE RespondLost(e, r)
    BY <1>6, <2>3 DEF RespondLost
  <2>4. CASE ~Responds(e, r) /\ ~RespondLost(e, r)
    <3>1. responses' = responses
      BY <2>4 DEF AgentSteps, Judge, Save, Free, FreeZero, FreeFails, Saved, SaveLost
    <3> QED BY <1>1, <2>1, <3>1 DEF Token
  <2> QED BY <2>2, <2>3, <2>4
<1> QED BY <1>1, <1>5, <1>6 DEF AnswerInv

LEMMA OthersAnswer ==
    ASSUME TypeOK, AnswerInv,
           \/ \E e \in Events : Take(e) \/ DrainTakes(e) \/ AgesOut(e) \/ TimesOut(e)
           \/ ReapSteps \/ KeyExpires \/ Crash
    PROVE  AnswerInv'
<1>0. FlowType /\ JobType /\ repeated \subseteq Events
  BY TypeParts DEF RestType
<1>1. UNCHANGED <<runs, responses>> /\ repeated \subseteq repeated'
  BY DEF Take, DrainTakes, AgesOut, TimesOut, ReapSteps, Select, Visit, Commit, CommitFails,
         ReapRelease, ReapZero, ReapEnds, KeyExpires, Crash, flowVars, ghostVars
<1>2. \A x \in Events, s \in Runs : agent'[x][s] \in {agent[x][s], "none"}
  <2>1. CASE \E e \in Events : TimesOut(e)
    <3>1. PICK e \in Events : TimesOut(e)
      BY <2>1
    <3>2. open[e] \in Runs /\ (agent' = agent \/ agent' = [agent EXCEPT ![e][open[e]] = "none"])
      BY <1>0, <3>1 DEF TimesOut, FlowType, Runs
    <3> QED BY <1>0, <3>2, AgentSet DEF AgentPc
  <2>2. CASE ~\E e \in Events : TimesOut(e)
    <3>1. agent' = agent
      BY <2>2 DEF Take, DrainTakes, AgesOut, ReapSteps, Select, Visit, Commit, CommitFails,
                  ReapRelease, ReapZero, ReapEnds, KeyExpires, Crash, flowVars
    <3> QED BY <3>1
  <2> QED BY <2>1, <2>2
<1>3. \A x \in Events : call'[x] = call[x] \/ call'[x] = "gone" \/ call[x] \notin {"gone", "late"}
  <2>1. CASE \E e \in Events : Take(e) \/ DrainTakes(e) \/ AgesOut(e)
    BY <1>0, <2>1 DEF Take, DrainTakes, AgesOut, Goto, JobType
  <2>2. CASE \E e \in Events : Visit(e)
    BY <1>0, <2>2 DEF Visit, CancelJob, Goto, JobType
  <2>3. CASE Crash
    BY <1>0, <2>3 DEF Crash, JobType
  <2>4. CASE \/ \E e \in Events : TimesOut(e)
             \/ Select \/ Commit \/ CommitFails \/ ReapRelease \/ ReapZero \/ ReapEnds \/ KeyExpires
    BY <2>4 DEF TimesOut, Select, Commit, CommitFails, ReapRelease, ReapZero, ReapEnds,
                KeyExpires, jobVars
  <2> QED BY <2>1, <2>2, <2>3, <2>4 DEF ReapSteps
<1>4. ASSUME NEW x \in Events, Token(x)
      PROVE  Token(x)'
  BY <1>1, <1>2, <1>3, <1>4, TokenKept
<1> QED BY <1>1, <1>4 DEF AnswerInv

\* At most one response is triggered for an event, unless a start was ambiguous,
\* the response activity was repeated, or the reaper gave the event up while its
\* audit went on.
THEOREM OneResponse == Spec => []RespondedOnce
<1>1. Init => AnswerInv
  BY DEF Init, AnswerInv, Token
<1>2. SlotInv /\ AnswerInv /\ [Next]_vars => AnswerInv'
  <2> SUFFICES ASSUME SlotInv, AnswerInv, [Next]_vars PROVE AnswerInv'
    OBVIOUS
  <2>1. CASE Next
    BY <2>1, CallsAnswer, AgentsAnswer, OthersAnswer DEF Next, SlotInv
  <2>2. CASE UNCHANGED vars
    BY <2>2 DEF AnswerInv, Token, vars, jobVars, flowVars, ghostVars
  <2> QED BY <2>1, <2>2
<1>3. AnswerInv => RespondedOnce
  BY DEF AnswerInv, Token, RespondedOnce
<1> QED BY <1>1, <1>2, <1>3, SlotInvHolds, PTL DEF Spec

\* The slot counter covers what is held, and counts nothing else.
THEOREM SlotsAreSound == Spec => []SlotsSound
BY TypeCorrect, CounterCovers, CounterReturns, PTL DEF SlotsSound

\* An event has somebody who will end its audit, and gets one response.
THEOREM EventsAreSound == Spec => []EventsSound
BY EventsAreKept, OneResponse, PTL DEF EventsSound
=============================================================================
