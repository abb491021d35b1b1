--------------------------- MODULE ResponseProofs ---------------------------
(* What the response engine promises, for any threats, policies, batches,      *)
(* requests, rules and sweeps, and any number of faults and restarts: tickets,  *)
(* rollback, the frequency limit of the guard, and the firewall's lines.        *)
EXTENDS SshFirewall, ResponseTickets, ResponseRollback, RateLimiter, FiniteSetTheorems, SequenceTheorems, WellFoundedInduction, TLAPS

USE ResponseAssumption, RollbackAssumption

-----------------------------------------------------------------------------
(* Tickets *)

LEMMA BatchFacts ==
    /\ \A t \in Threats : Call(t) \in Batches /\ Poll(t) \in Batches
    /\ \A t, u \in Threats : /\ Call(t) # Poll(u)
                             /\ Call(t) = Call(u) => t = u
                             /\ Poll(t) = Poll(u) => t = u
    /\ \A b \in Batches : Outcomes(b) \subseteq {"failed", "done", "blocked"}
BY DEF Call, Poll, Batches, Outcomes

\* The cool-downs of a match and of a policy are different ones.
LEMMA KeyFacts == \A t, u \in Threats : PolicyKey(t) \notin MatchKeys(u)
BY DEF PolicyKey, MatchKeys, IpKey, UncertainKey

\* How the place of the call, the ticket, the poll task's batch and the ghosts hang
\* together: a ticket is issued once, and what runs for it was released.
Linked(t) ==
    /\ handler[t] \in {"new", "matched", "executing"} => ticket[t] = "none"
    /\ handler[t] \in {"new", "matched"} => batch[Call(t)] = "none"
    /\ handler[t] = "polling" => ticket[t] \notin {"none", "auto"}
    /\ ticket[t] = "approved" => t \in released
    /\ t \in released => ticket[t] \in {"approved", "expired"}
    /\ t \in refused => ticket[t] \in {"rejected", "expired"} /\ t \notin released
    /\ batch[Poll(t)] # "none" => t \in released
    /\ t \in Critical => batch[Call(t)] = "none"
    /\ ticket[t] = "pending" => t \in poll \/ handler[t] = "polling"

Earned(u) == ticket[u] # "none" \/ Succeeded(Call(u)) \/ Succeeded(Poll(u))

TicketInv == ResponseTypeOK /\ (\A t \in Threats : Linked(t)) /\ CooldownEarned

LEMMA TicketInvSuffices == TicketInv => TicketsSound
<1> SUFFICES ASSUME TicketInv PROVE TicketsSound
  OBVIOUS
<1>1. Critical \subseteq Threats /\ refused \subseteq Threats
  BY DEF TicketInv, ResponseTypeOK
<1>2. CriticalIsApproved
  BY <1>1, BatchFacts DEF TicketInv, Linked, CriticalIsApproved, Begun
<1>3. RejectedNeverRuns
  BY <1>1, BatchFacts DEF TicketInv, Linked, RejectedNeverRuns, Begun
<1>4. PendingIsPolled
  BY DEF TicketInv, Linked, PendingIsPolled
<1> QED BY <1>2, <1>3, <1>4 DEF TicketInv, TicketsSound

LEMMA TicketInvInit == ResponseInit => TicketInv
BY BatchFacts DEF ResponseInit, TicketInv, ResponseTypeOK, Linked, CooldownEarned

\* What was earned stays earned; a step only has to account for the keys it adds.
LEMMA EarnedStays ==
    ASSUME CooldownEarned,
           \A u \in Threats : Earned(u) => Earned(u)',
           \A u \in Threats : PolicyKey(u) \in cooling' =>
               PolicyKey(u) \in cooling
               \/ \E w \in Threats : PolicyKey(w) = PolicyKey(u) /\ Earned(w)'
    PROVE  CooldownEarned'
BY DEF CooldownEarned, Earned, PolicyKey

\* The actions start.
LEMMA StartsFacts ==
    ASSUME batch \in [Batches -> {"none", "acting", "denied", "failed", "done", "blocked"}],
           NEW b \in Batches, Starts(b)
    PROVE  /\ batch' \in [Batches -> {"none", "acting", "denied", "failed", "done", "blocked"}]
           /\ \A c \in Batches : c # b => batch'[c] = batch[c]
           /\ batch'[b] \in {"acting", "denied"}
BY DEF Starts

-----------------------------------------------------------------------------
LEMMA CallKeeps ==
    ASSUME TicketInv, NEW t \in Threats, CallStep(t)
    PROVE  TicketInv'
<1> USE BatchFacts, KeyFacts
<1>1. CASE Match(t)
  <2>1. ResponseTypeOK'
    BY <1>1 DEF TicketInv, ResponseTypeOK, Match, At, Hot, ticketVars
  <2>2. \A u \in Threats : Linked(u)'
    BY <1>1 DEF TicketInv, ResponseTypeOK, Linked, Match, At, ticketVars
  <2>3. CooldownEarned'
    <3>1. \A u \in Threats : PolicyKey(u) \in cooling' => PolicyKey(u) \in cooling
      BY <1>1 DEF Match, Hot
    <3>2. \A u \in Threats : Earned(u) => Earned(u)'
      BY <1>1 DEF Match, ticketVars, Earned, Succeeded
    <3> QED BY <3>1, <3>2, EarnedStays DEF TicketInv
  <2> QED BY <2>1, <2>2, <2>3 DEF TicketInv
<1>2. CASE Executes(t)
  <2>1. /\ batch' \in [Batches -> {"none", "acting", "denied", "failed", "done", "blocked"}]
        /\ \A c \in Batches : c # Call(t) => batch'[c] = batch[c]
    BY <1>2, StartsFacts DEF Executes, TicketInv, ResponseTypeOK
  <2>2. ResponseTypeOK'
    BY <1>2, <2>1 DEF TicketInv, ResponseTypeOK, Executes, At, ticketVars
  <2>3. \A u \in Threats : Linked(u)'
    BY <1>2, <2>1 DEF TicketInv, ResponseTypeOK, Linked, Executes, RunsAtOnce, At, ticketVars
  <2>4. CooldownEarned'
    <3>1. \A u \in Threats : Earned(u) => Earned(u)'
      BY <1>2, <2>1 DEF Executes, ticketVars, Earned, Succeeded, TicketInv, Linked
    <3>2. cooling' = cooling
      BY <1>2 DEF Executes
    <3> QED BY <3>1, <3>2, EarnedStays DEF TicketInv
  <2> QED BY <2>2, <2>3, <2>4 DEF TicketInv
<1>3. CASE Submits(t)
  <2>1. ResponseTypeOK'
    BY <1>3 DEF TicketInv, ResponseTypeOK, Submits, At, Stands
  <2>2. \A u \in Threats : Linked(u)'
    BY <1>3 DEF TicketInv, ResponseTypeOK, Linked, Submits, At, Stands
  <2>3. CooldownEarned'
    <3>1. \A u \in Threats : Earned(u) => Earned(u)'
      BY <1>3 DEF Submits, Stands, Earned, Succeeded, TicketInv, ResponseTypeOK
    <3>2. \A u \in Threats : PolicyKey(u) \in cooling' =>
              PolicyKey(u) \in cooling \/ (PolicyKey(u) = PolicyKey(t) /\ Earned(t)')
      BY <1>3 DEF Submits, Stands, Earned, TicketInv, ResponseTypeOK
    <3> QED BY <3>1, <3>2, EarnedStays DEF TicketInv
  <2> QED BY <2>1, <2>2, <2>3 DEF TicketInv
<1>4. CASE Answers(t)
  <2>1. ResponseTypeOK'
    BY <1>4 DEF TicketInv, ResponseTypeOK, Linked, Answers, At, Stands, Polled
  <2>2. \A u \in Threats : Linked(u)'
    BY <1>4 DEF TicketInv, ResponseTypeOK, Linked, Answers, At, Stands, Polled
  <2>3. CooldownEarned'
    <3>1. \A u \in Threats : Earned(u) => Earned(u)'
      BY <1>4 DEF Answers, Stands, Earned, Succeeded, TicketInv, ResponseTypeOK
    <3>2. \A u \in Threats : PolicyKey(u) \in cooling' =>
              PolicyKey(u) \in cooling \/ (PolicyKey(u) = PolicyKey(t) /\ Earned(t)')
      BY <1>4 DEF Answers, Earned, Succeeded
    <3> QED BY <3>1, <3>2, EarnedStays DEF TicketInv
  <2> QED BY <2>1, <2>2, <2>3 DEF TicketInv
<1>5. CASE PollCreated(t)
  <2>1. ResponseTypeOK'
    BY <1>5 DEF TicketInv, ResponseTypeOK, Linked, PollCreated, At
  <2>2. \A u \in Threats : Linked(u)'
    BY <1>5 DEF TicketInv, ResponseTypeOK, Linked, PollCreated, At
  <2>3. CooldownEarned'
    BY <1>5 DEF TicketInv, CooldownEarned, PollCreated, Succeeded
  <2> QED BY <2>1, <2>2, <2>3 DEF TicketInv
<1> QED BY <1>1, <1>2, <1>3, <1>4, <1>5 DEF CallStep

LEMMA PollKeeps ==
    ASSUME TicketInv, NEW t \in Threats, PollStep(t)
    PROVE  TicketInv'
<1> USE BatchFacts
<1>1. CASE PollExecutes(t)
  <2>1. /\ batch' \in [Batches -> {"none", "acting", "denied", "failed", "done", "blocked"}]
        /\ \A c \in Batches : c # Poll(t) => batch'[c] = batch[c]
    BY <1>1, StartsFacts DEF PollExecutes, TicketInv, ResponseTypeOK
  <2>2. ResponseTypeOK'
    BY <1>1, <2>1 DEF TicketInv, ResponseTypeOK, PollExecutes, ticketVars
  <2>3. \A u \in Threats : Linked(u)'
    BY <1>1, <2>1 DEF TicketInv, ResponseTypeOK, Linked, PollExecutes, Granted, ticketVars
  <2>4. CooldownEarned'
    <3>1. \A u \in Threats : Earned(u) => Earned(u)'
      BY <1>1, <2>1 DEF PollExecutes, ticketVars, Earned, Succeeded
    <3>2. cooling' = cooling
      BY <1>1 DEF PollExecutes
    <3> QED BY <3>1, <3>2, EarnedStays DEF TicketInv
  <2> QED BY <2>2, <2>3, <2>4 DEF TicketInv
<1>2. CASE PollGivesUp(t)
  <2>1. ResponseTypeOK' /\ \A u \in Threats : Linked(u)'
    BY <1>2 DEF TicketInv, ResponseTypeOK, Linked, PollGivesUp
  <2>2. CooldownEarned'
    BY <1>2 DEF TicketInv, CooldownEarned, PollGivesUp, Succeeded
  <2> QED BY <2>1, <2>2 DEF TicketInv
<1>3. CASE PollEnds(t)
  <2>1. batch[Poll(t)] # "none"
    BY <1>3 DEF PollEnds, Ended
  <2>2. ResponseTypeOK'
    BY <1>3 DEF TicketInv, ResponseTypeOK, PollEnds
  <2>3. \A u \in Threats : Linked(u)'
    BY <1>3, <2>1 DEF TicketInv, Linked, PollEnds
  <2>4. CooldownEarned'
    <3>1. \A u \in Threats : Earned(u) => Earned(u)'
      BY <1>3 DEF PollEnds, Earned, Succeeded
    <3>2. \A u \in Threats : PolicyKey(u) \in cooling' =>
              PolicyKey(u) \in cooling \/ (PolicyKey(u) = PolicyKey(t) /\ Earned(t)')
      BY <1>3 DEF PollEnds, Earned, Succeeded
    <3> QED BY <3>1, <3>2, EarnedStays DEF TicketInv
  <2> QED BY <2>2, <2>3, <2>4 DEF TicketInv
<1> QED BY <1>1, <1>2, <1>3 DEF PollStep

LEMMA DecisionKeeps ==
    ASSUME TicketInv, NEW t \in Threats, Decision(t) \/ Lapse(t)
    PROVE  TicketInv'
<1> USE BatchFacts
<1>1. ResponseTypeOK'
  BY DEF TicketInv, ResponseTypeOK, Decision, DecidedLate, Approve, Reject, Lapse, Stands, Decidable
<1>2. \A u \in Threats : Linked(u)'
  <2>1. CASE DecidedLate(t) \/ Lapse(t)
    BY <2>1 DEF TicketInv, ResponseTypeOK, Linked, DecidedLate, Lapse, Stands
  <2>2. CASE Approve(t) \/ Reject(t)
    BY <2>2 DEF TicketInv, ResponseTypeOK, Linked, Approve, Reject, Stands, Decidable
  <2> QED BY <2>1, <2>2 DEF Decision
<1>3. CooldownEarned'
  <2>1. \A u \in Threats : Earned(u) => Earned(u)'
    BY DEF Decision, DecidedLate, Approve, Reject, Lapse, Stands, Earned, Succeeded, TicketInv,
           ResponseTypeOK
  <2>2. cooling' = cooling
    BY DEF Decision, DecidedLate, Approve, Reject, Lapse
  <2> QED BY <2>1, <2>2, EarnedStays DEF TicketInv
<1> QED BY <1>1, <1>2, <1>3 DEF TicketInv

LEMMA OthersKeep ==
    ASSUME TicketInv, CoolEnds \/ ListPending \/ \E b \in Batches : Acts(b)
    PROVE  TicketInv'
<1> USE BatchFacts
<1>1. CASE CoolEnds
  <2>1. ResponseTypeOK' /\ \A u \in Threats : Linked(u)'
    BY <1>1 DEF TicketInv, ResponseTypeOK, Linked, CoolEnds, ticketVars
  <2>2. CooldownEarned'
    <3>1. \A u \in Threats : Earned(u) => Earned(u)'
      BY <1>1 DEF CoolEnds, ticketVars, Earned, Succeeded
    <3>2. cooling' \subseteq cooling
      BY <1>1 DEF CoolEnds
    <3> QED BY <3>1, <3>2, EarnedStays DEF TicketInv
  <2> QED BY <2>1, <2>2 DEF TicketInv
<1>2. CASE ListPending
  <2>1. ResponseTypeOK'
    BY <1>2 DEF TicketInv, ResponseTypeOK, ListPending
  <2>2. \A u \in Threats : Linked(u)'
    BY <1>2 DEF TicketInv, ResponseTypeOK, Linked, ListPending, Overdue
  <2>3. CooldownEarned'
    <3>1. \A u \in Threats : Earned(u) => Earned(u)'
      BY <1>2 DEF ListPending, Earned, Succeeded
    <3>2. cooling' = cooling
      BY <1>2 DEF ListPending
    <3> QED BY <3>1, <3>2, EarnedStays DEF TicketInv
  <2> QED BY <2>1, <2>2, <2>3 DEF TicketInv
<1>3. ASSUME NEW b \in Batches, Acts(b) PROVE TicketInv'
  <2>1. /\ batch' \in [Batches -> {"none", "acting", "denied", "failed", "done", "blocked"}]
        /\ \A c \in Batches : c # b => batch'[c] = batch[c]
        /\ batch[b] = "acting"
    BY <1>3 DEF Acts, TicketInv, ResponseTypeOK
  <2>2. ResponseTypeOK'
    BY <1>3, <2>1 DEF TicketInv, ResponseTypeOK, Acts, ticketVars
  <2>3. \A u \in Threats : Linked(u)'
    BY <1>3, <2>1 DEF TicketInv, Linked, Acts, ticketVars
  <2>4. CooldownEarned'
    <3>1. \A u \in Threats : Earned(u) => Earned(u)'
      BY <1>3, <2>1 DEF Acts, ticketVars, Earned, Succeeded
    <3>2. cooling' = cooling
      BY <1>3 DEF Acts
    <3> QED BY <3>1, <3>2, EarnedStays DEF TicketInv
  <2> QED BY <2>2, <2>3, <2>4 DEF TicketInv
<1> QED BY <1>1, <1>2, <1>3

\* Handlers, poll tasks, routes and expiries execute nothing that nobody approved,
\* leave no ticket unwatched and earn no cool-down for what did not run.
THEOREM TicketsAreSound == ResponseSpec => []TicketsSound
<1>1. TicketInv /\ [ResponseNext]_responseVars => TicketInv'
  <2> SUFFICES ASSUME TicketInv, [ResponseNext]_responseVars PROVE TicketInv'
    OBVIOUS
  <2>1. CASE ResponseNext
    BY <2>1, CallKeeps, PollKeeps, DecisionKeeps, OthersKeep DEF ResponseNext
  <2>2. CASE UNCHANGED responseVars
    BY <2>2 DEF responseVars, ticketVars, TicketInv, ResponseTypeOK, Linked, CooldownEarned, Succeeded
  <2> QED BY <2>1, <2>2
<1> QED BY TicketInvInit, <1>1, TicketInvSuffices, PTL DEF ResponseSpec
-----------------------------------------------------------------------------
(* Rollback *)

\* Until the first fault or restart the table of rules is the firewall's; a record or a
\* mark belongs to a batch that was executed, and Redis knows only the backend's.
RollbackLinks ==
    /\ undoFaults = 0 /\ reboots = 0 => inForce = active
    /\ \A b \in recorded \cup persisted \cup rolled \cup rolledRedis : job[b] # "new"
    /\ \A b \in persisted : Home[b] = "backend"
    /\ undoFaults = 0 => \A b \in Jobs : undone[b] = 0 \/ (undone[b] = 1 /\ b \in rolledRedis)

RollbackInv == RollbackTypeOK /\ RollbackLinks /\ BlocksAreTimed /\ RolledIsLifted

LEMMA RollbackInvSuffices == RollbackInv => RollbackSound
BY DEF RollbackInv, RollbackLinks, RollbackSound, UndoneOnce

LEMMA RollbackInvInit == RollbackInit => RollbackInv
BY DEF RollbackInit, RollbackInv, RollbackTypeOK, RollbackLinks, BlocksAreTimed, RolledIsLifted

LEMMA FaultCounts ==
    ASSUME RollbackTypeOK, UndoFault
    PROVE  undoFaults' \in 0..MaxUndoFaults /\ undoFaults' # 0
BY DEF RollbackTypeOK, UndoFault

LEMMA ActKeeps ==
    ASSUME RollbackInv, NEW b \in Jobs, ActSucceeds(b) \/ ActFails(b)
    PROVE  RollbackInv'
<1>1. CASE ActSucceeds(b)
  <2>1. RollbackTypeOK'
    BY <1>1 DEF ActSucceeds, Becomes, Timed, RollbackInv, RollbackTypeOK, storeVars
  <2>2. RollbackLinks'
    BY <1>1 DEF ActSucceeds, Becomes, RollbackInv, RollbackTypeOK, RollbackLinks, storeVars
  <2>3. BlocksAreTimed' /\ RolledIsLifted'
    BY <1>1 DEF ActSucceeds, Timed, RollbackInv, RollbackTypeOK, RollbackLinks, BlocksAreTimed,
                RolledIsLifted, storeVars
  <2> QED BY <2>1, <2>2, <2>3 DEF RollbackInv
<1>2. CASE ActFails(b)
  <2>1. undoFaults' \in 0..MaxUndoFaults /\ undoFaults' # 0
    BY <1>2, FaultCounts DEF ActFails, RollbackInv
  <2>2. RollbackTypeOK'
    BY <1>2, <2>1 DEF ActFails, Becomes, RollbackInv, RollbackTypeOK, storeVars
  <2>3. RollbackLinks'
    BY <1>2, <2>1 DEF ActFails, Becomes, RollbackInv, RollbackTypeOK, RollbackLinks, storeVars
  <2>4. BlocksAreTimed' /\ RolledIsLifted'
    BY <1>2, <2>1 DEF ActFails, RollbackInv, BlocksAreTimed, RolledIsLifted
  <2> QED BY <2>2, <2>3, <2>4 DEF RollbackInv
<1> QED BY <1>1, <1>2

LEMMA RecordKeeps ==
    ASSUME RollbackInv, NEW b \in Jobs, Record(b)
    PROVE  RollbackInv'
<1>1. /\ recorded' \cup persisted' \subseteq recorded \cup persisted \cup {b}
      /\ \A a \in persisted' : Home[a] = "backend"
      /\ undoFaults' = undoFaults \/ undoFaults' # 0
      /\ undoFaults' \in 0..MaxUndoFaults
  <2>1. CASE UNCHANGED undoFaults
    BY <2>1, FaultCounts DEF Record, RollbackInv, RollbackTypeOK, RollbackLinks
  <2>2. CASE UndoFault
    BY <2>2, FaultCounts DEF Record, RollbackInv, RollbackTypeOK, RollbackLinks
  <2> QED BY <2>1, <2>2 DEF Record
<1>2. RollbackTypeOK'
  BY <1>1 DEF Record, Becomes, RollbackInv, RollbackTypeOK, ruleVars
<1>3. RollbackLinks'
  BY <1>1 DEF Record, Becomes, RollbackInv, RollbackTypeOK, RollbackLinks, ruleVars
<1>4. BlocksAreTimed' /\ RolledIsLifted'
  BY <1>1 DEF Record, RollbackInv, BlocksAreTimed, RolledIsLifted, ruleVars
<1> QED BY <1>2, <1>3, <1>4 DEF RollbackInv

LEMMA UndoKeeps ==
    ASSUME RollbackInv, NEW b \in Jobs, Undo(b)
    PROVE  RollbackInv'
<1>1. PICK lifted \in SUBSET Meant(b) :
        /\ inForce' = inForce \ lifted /\ active' = active \ lifted
        /\ \/ lifted = Meant(b) /\ rolledRedis' = MarksRedis(b) /\ UNCHANGED undoFaults
           \/ rolledRedis' \in {rolledRedis, MarksRedis(b)} /\ UndoFault
  BY DEF Undo
<1>2. /\ rolled' = rolled \cup {b} /\ recorded' = recorded \cup {b}
      /\ undone' = [undone EXCEPT ![b] = @ + 1]
      /\ UNCHANGED <<job, lifting, cutOff, persisted, reboots>>
      /\ Found(b) /\ b \notin rolled \cup rolledRedis
  BY DEF Undo
<1>3. job[b] # "new" /\ Home[b] = "backend"
  BY <1>2 DEF Found, RollbackInv, RollbackLinks
<1>4. undoFaults' \in 0..MaxUndoFaults /\ rolledRedis' \subseteq rolledRedis \cup {b}
  <2>1. CASE UndoFault
    BY <1>1, <2>1, FaultCounts DEF RollbackInv, MarksRedis
  <2>2. CASE UNCHANGED undoFaults
    BY <1>1, <2>2 DEF RollbackInv, RollbackTypeOK, MarksRedis
  <2> QED BY <1>1, <2>1, <2>2
\* Without a fault, everything that was meant is lifted, and the mark reaches Redis.
<1>5. undoFaults' = 0 =>
        lifted = Meant(b) /\ rolledRedis' = rolledRedis \cup {b} /\ undoFaults = 0
  BY <1>1, FaultCounts DEF RollbackInv, MarksRedis
<1>6. RollbackTypeOK'
  <2>1. undone' \in [Jobs -> Nat]
    BY <1>2 DEF RollbackInv, RollbackTypeOK
  <2> QED BY <1>1, <1>2, <1>4, <2>1 DEF RollbackInv, RollbackTypeOK
<1>7. RollbackLinks'
  <2>1. undoFaults' = 0 => \A a \in Jobs : undone'[a] = 0 \/ (undone'[a] = 1 /\ a \in rolledRedis')
    BY <1>2, <1>5 DEF RollbackInv, RollbackTypeOK, RollbackLinks
  <2>2. \A a \in recorded' \cup persisted' \cup rolled' \cup rolledRedis' : job'[a] # "new"
    BY <1>2, <1>3, <1>4 DEF RollbackInv, RollbackLinks
  <2>3. undoFaults' = 0 /\ reboots' = 0 => inForce' = active'
    BY <1>1, <1>2, <1>5 DEF RollbackInv, RollbackLinks
  <2>4. \A a \in persisted' : Home[a] = "backend"
    BY <1>2 DEF RollbackInv, RollbackLinks
  <2> QED BY <2>1, <2>2, <2>3, <2>4 DEF RollbackLinks
<1>8. BlocksAreTimed'
  BY <1>1, <1>2 DEF RollbackInv, BlocksAreTimed
<1>9. RolledIsLifted'
  <2> SUFFICES ASSUME undoFaults' = 0, reboots' = 0
               PROVE  (rolled' \cup rolledRedis') \cap inForce' = {}
    BY DEF RolledIsLifted
  <2>1. inForce = active /\ (rolled \cup rolledRedis) \cap inForce = {}
    BY <1>2, <1>5 DEF RollbackInv, RollbackLinks, RolledIsLifted
  <2>2. b \in inForce => b \in Meant(b)
    BY <1>3, <2>1 DEF Meant
  <2>3. b \notin inForce'
    BY <1>1, <1>5, <2>2
  <2> QED BY <1>1, <1>2, <1>4, <2>1, <2>3
<1> QED BY <1>6, <1>7, <1>8, <1>9 DEF RollbackInv

LEMMA LiftKeeps ==
    ASSUME RollbackInv, NEW b \in Jobs, Lift(b)
    PROVE  RollbackInv'
<1>1. UndoFault => undoFaults' \in 0..MaxUndoFaults /\ undoFaults' # 0
  BY FaultCounts DEF RollbackInv
<1>2. RollbackTypeOK'
  BY <1>1 DEF Lift, RollbackInv, RollbackTypeOK, storeVars
<1>3. RollbackLinks'
  BY <1>1 DEF Lift, RollbackInv, RollbackLinks, storeVars
<1>4. BlocksAreTimed' /\ RolledIsLifted'
  BY <1>1 DEF Lift, RollbackInv, BlocksAreTimed, RolledIsLifted, storeVars
<1> QED BY <1>2, <1>3, <1>4 DEF RollbackInv

LEMMA RebootKeeps ==
    ASSUME RollbackInv, NEW p \in Processes, Reboot(p)
    PROVE  RollbackInv'
<1>1. reboots' \in 0..MaxReboots /\ reboots' # 0
  BY DEF Reboot, RollbackInv, RollbackTypeOK
<1>2. job' \in [Jobs -> {"new", "acted", "done", "cut"}]
      /\ \A a \in Jobs : job[a] # "new" => job'[a] # "new"
  BY DEF Reboot, RollbackInv, RollbackTypeOK
<1>3. RollbackTypeOK'
  BY <1>1, <1>2 DEF Reboot, RollbackInv, RollbackTypeOK
<1>4. RollbackLinks'
  BY <1>1, <1>2 DEF Reboot, RollbackInv, RollbackTypeOK, RollbackLinks
<1>5. BlocksAreTimed' /\ RolledIsLifted'
  BY <1>1 DEF Reboot, RollbackInv, RollbackTypeOK, BlocksAreTimed, RolledIsLifted
<1> QED BY <1>3, <1>4, <1>5 DEF RollbackInv

\* A block outlives its timer only if a fault or a restart cut them apart, undoing a
\* batch lifts its rule, and it is undone once, over any faults and restarts.
THEOREM RollbackIsSound == RollbackSpec => []RollbackSound
<1>1. RollbackInv /\ [RollbackNext]_rollbackVars => RollbackInv'
  <2> SUFFICES ASSUME RollbackInv, [RollbackNext]_rollbackVars PROVE RollbackInv'
    OBVIOUS
  <2>1. CASE RollbackNext
    BY <2>1, ActKeeps, RecordKeeps, UndoKeeps, LiftKeeps, RebootKeeps DEF RollbackNext
  <2>2. CASE UNCHANGED rollbackVars
    BY <2>2 DEF rollbackVars, ruleVars, storeVars, RollbackInv, RollbackTypeOK, RollbackLinks,
                BlocksAreTimed, RolledIsLifted
  <2> QED BY <2>1, <2>2
<1> QED BY RollbackInvInit, <1>1, RollbackInvSuffices, PTL DEF RollbackSpec

-----------------------------------------------------------------------------
(* Sequences *)

LEMMA SeqShape ==
    ASSUME NEW S, NEW s \in Seq(S)
    PROVE  /\ Len(s) \in Nat /\ DOMAIN s = 1..Len(s) /\ \A i \in 1..Len(s) : s[i] \in S
           /\ Range(s) \subseteq S /\ \A x : x \in Range(s) <=> \E i \in 1..Len(s) : s[i] = x
<1>1. Len(s) \in Nat /\ DOMAIN s = 1..Len(s) /\ \A i \in 1..Len(s) : s[i] \in S
  BY LenProperties, ElementOfSeq
<1> QED BY <1>1 DEF Range

-----------------------------------------------------------------------------
(* The frequency limit of the guard *)

USE RateAssumption

Ages == 0..Window

\* The places of a list that are younger than n.
Below(q, n) == {i \in DOMAIN q : q[i] < n}
Young(S, adm, n) == {r \in S : adm[r] < n}
Of(a) == {r \in Requests : ActionOf[r] = a}

\* At each age the list covers the requests that were admitted since, but for the places
\* that failures gave back.
Covers(q, S, adm, rel) ==
    \A n \in Ages : Cardinality(Young(S, adm, n)) <= Cardinality(Below(q, n)) + rel

RateTypes ==
    /\ request \in [Requests -> {"new", "denied", "executing", "done", "failed"}]
    /\ globalCalls \in Seq(Ages) /\ InTimeOrder(globalCalls)
    /\ actionCalls \in [Actions -> Seq(Ages)] /\ \A a \in Actions : InTimeOrder(actionCalls[a])
    /\ admitted \in [Requests -> Ages] /\ releases \in Nat

RateInv ==
    /\ RateTypes
    /\ Covers(globalCalls, Requests, admitted, releases) /\ Count(globalCalls) <= GlobalLimit
    /\ \A a \in Actions :
        Covers(actionCalls[a], Of(a), admitted, releases) /\ Count(actionCalls[a]) <= ActionLimit[a]
-----------------------------------------------------------------------------
LEMMA RateConstants ==
    /\ Window \in Nat \ {0} /\ GlobalLimit \in Nat \ {0} /\ Ages = 0..Window
    /\ \A r \in Requests : ActionOf[r] \in Actions
    /\ \A a \in Actions : ActionLimit[a] \in Nat \ {0}
BY DEF Actions, Ages

LEMMA BelowFacts ==
    ASSUME NEW q \in Seq(Ages), NEW n \in Ages
    PROVE  /\ Below(q, n) \subseteq 1..Len(q) /\ IsFiniteSet(Below(q, n))
           /\ Cardinality(Below(q, n)) \in 0..Len(q) /\ Len(q) \in Nat
           /\ \A i : i \in Below(q, n) <=> i \in 1..Len(q) /\ q[i] < n
<1>1. Len(q) \in Nat /\ DOMAIN q = 1..Len(q)
  BY SeqShape
<1>2. IsFiniteSet(1..Len(q)) /\ Cardinality(1..Len(q)) = Len(q)
  <2>1. IsFiniteSet(1..Len(q)) /\ Cardinality(1..Len(q)) = IF 1 > Len(q) THEN 0 ELSE Len(q) - 1 + 1
    BY <1>1, FS_Interval
  <2>2. Len(q) = IF 1 > Len(q) THEN 0 ELSE Len(q) - 1 + 1
    BY <1>1
  <2> QED BY <2>1, <2>2
<1>3. Below(q, n) \subseteq 1..Len(q) /\ \A i : i \in Below(q, n) <=> i \in 1..Len(q) /\ q[i] < n
  BY <1>1 DEF Below
<1>4. IsFiniteSet(Below(q, n)) /\ Cardinality(Below(q, n)) \in Nat /\ Cardinality(Below(q, n)) <= Len(q)
  BY <1>2, <1>3, FS_Subset, FS_CardinalityType
<1> QED BY <1>1, <1>3, <1>4

LEMMA CountIsBelow == \A q : Count(q) = Cardinality(Below(q, Window))
BY DEF Count, Below

\* The list without what has left the window: it is shorter, and covers as much.
LEMMA WindowKept ==
    ASSUME NEW q \in Seq(Ages), InTimeOrder(q)
    PROVE  /\ InWindow(q) \in Seq(Ages) /\ InTimeOrder(InWindow(q))
           /\ \A n \in Ages : Cardinality(Below(InWindow(q), n)) = Cardinality(Below(q, n))
<1> DEFINE c == Count(q)
           L == Len(q)
           w == InWindow(q)
           d == L - c
<1>1. L \in Nat /\ c \in 0..L /\ d \in 0..L /\ \A i \in 1..L : q[i] \in Ages
  BY BelowFacts, CountIsBelow, RateConstants, SeqShape, SMTT(30)
<1>2. \A i, j \in 1..L : i < j => q[j] <= q[i]
  BY <1>1, SeqShape DEF InTimeOrder
<1>3. /\ w \in Seq(Ages) /\ Len(w) = c /\ \A i \in 1..c : w[i] = q[d + i]
  <2>1. \A i \in d + 1..L : q[i] \in Ages
    BY <1>1
  <2>2. /\ SubSeq(q, d + 1, L) \in Seq(Ages)
        /\ Len(SubSeq(q, d + 1, L)) = IF d + 1 <= L THEN L - (d + 1) + 1 ELSE 0
        /\ \A i \in 1..L - (d + 1) + 1 : SubSeq(q, d + 1, L)[i] = q[d + 1 + i - 1]
    BY <1>1, <2>1, SubSeqProperties
  <2>3. w = SubSeq(q, d + 1, L)
    BY <1>1 DEF InWindow
  <2> QED BY <1>1, <2>2, <2>3
<1> HIDE DEF c, L, w, d
<1>4. \A i \in 1..c : d + i \in 1..L
  BY <1>1 DEF d
<1>5. InTimeOrder(w)
  <2> SUFFICES ASSUME NEW i \in 1..c, NEW j \in 1..c, i < j PROVE w[j] <= w[i]
    BY <1>3, SeqShape DEF InTimeOrder
  <2>1. d + i < d + j /\ d + i \in 1..L /\ d + j \in 1..L
    BY <1>1, <1>4
  <2> QED BY <1>2, <1>3, <2>1
<1>6. ASSUME NEW i \in 1..L, q[i] < Window PROVE i > d
  <2> SUFFICES ASSUME i <= d PROVE FALSE
    BY <1>1
  <2>1. i..L \subseteq Below(q, Window)
    <3> SUFFICES ASSUME NEW j \in i..L PROVE j \in 1..L /\ q[j] < Window
      BY RateConstants, BelowFacts DEF L
    <3>1. j \in 1..L /\ (j = i \/ i < j)
      BY <1>1
    <3>2. q[j] <= q[i] /\ q[j] \in 0..Window /\ q[i] \in 0..Window
      BY <1>1, <1>2, <3>1, RateConstants
    <3> QED BY <1>6, <3>1, <3>2, RateConstants
  <2>2. Cardinality(i..L) = L - i + 1
    BY <1>1, FS_Interval
  <2>3. Cardinality(i..L) <= c
    <3>1. Window \in Ages
      BY RateConstants
    <3>2. IsFiniteSet(Below(q, Window)) /\ c = Cardinality(Below(q, Window))
      BY <3>1, BelowFacts, CountIsBelow DEF c
    <3> QED BY <2>1, <3>2, FS_Subset
  <2> QED BY <1>1, <2>2, <2>3 DEF d
<1>7. ASSUME NEW n \in Ages PROVE Cardinality(Below(w, n)) = Cardinality(Below(q, n))
  <2> DEFINE f == [i \in Below(w, n) |-> d + i]
  <2>1. \A i : i \in Below(w, n) <=> i \in 1..c /\ w[i] < n
    BY <1>3, BelowFacts
  <2>2. \A i : i \in Below(q, n) <=> i \in 1..L /\ q[i] < n
    BY BelowFacts DEF L
  <2>3. \A i \in Below(w, n) : d + i \in Below(q, n)
    BY <1>3, <1>4, <2>1, <2>2
  <2>4. \A i, j \in Below(w, n) : d + i = d + j => i = j
    BY <1>1, <2>1
  <2>5. ASSUME NEW k \in Below(q, n) PROVE \E i \in Below(w, n) : d + i = k
    <3>1. k \in 1..L /\ q[k] < n /\ q[k] \in 0..Window
      BY <1>1, <2>2, RateConstants
    <3>2. q[k] < Window
      BY <3>1, RateConstants
    <3>3. k > d
      BY <1>6, <3>1, <3>2
    <3>4. k - d \in 1..c /\ d + (k - d) = k
      BY <1>1, <3>1, <3>3 DEF d
    <3>5. k - d \in Below(w, n)
      BY <1>3, <2>1, <3>1, <3>4
    <3> QED BY <3>4, <3>5
  <2>6. f \in Bijection(Below(w, n), Below(q, n))
    BY <2>3, <2>4, <2>5 DEF Bijection, Injection, Surjection, IsInjective
  <2> QED BY <1>3, <2>6, BelowFacts, FS_Bijection DEF ExistsBijection
<1> QED BY <1>3, <1>5, <1>7 DEF w

\* A new place.
LEMMA PlaceTaken ==
    ASSUME NEW q \in Seq(Ages), InTimeOrder(q)
    PROVE  /\ Append(q, 0) \in Seq(Ages) /\ InTimeOrder(Append(q, 0))
           /\ \A n \in Ages : Cardinality(Below(Append(q, 0), n))
                              = IF n = 0 THEN Cardinality(Below(q, n)) ELSE Cardinality(Below(q, n)) + 1
<1> DEFINE t == Append(q, 0)
<1>1. 0 \in Ages
  BY RateConstants
<1>2. /\ t \in Seq(Ages) /\ Len(t) = Len(q) + 1 /\ t[Len(q) + 1] = 0
      /\ \A i \in 1..Len(q) : t[i] = q[i]
  BY <1>1, AppendProperties
<1> HIDE DEF t
<1>3. Len(q) \in Nat /\ \A i \in 1..Len(q) : q[i] \in 0..Window
  BY SeqShape, RateConstants
<1>4. InTimeOrder(t)
  <2> SUFFICES ASSUME NEW i \in 1..Len(t), NEW j \in 1..Len(t), i < j PROVE t[j] <= t[i]
    BY <1>2, SeqShape DEF InTimeOrder
  <2>1. i \in 1..Len(q)
    BY <1>2, <1>3
  <2>2. CASE j \in 1..Len(q)
    BY <1>2, <2>1, <2>2, SeqShape DEF InTimeOrder
  <2>3. CASE j = Len(q) + 1
    BY <1>2, <1>3, <2>1, <2>3
  <2> QED BY <1>2, <1>3, <2>2, <2>3
<1>5. ASSUME NEW n \in Ages
      PROVE  Cardinality(Below(t, n)) = IF n = 0 THEN Cardinality(Below(q, n)) ELSE Cardinality(Below(q, n)) + 1
  <2>0. n \in 0..Window
    BY RateConstants
  <2>1. \A i : i \in Below(t, n) <=> i \in 1..Len(q) + 1 /\ t[i] < n
    BY <1>2, BelowFacts
  <2>2. \A i : i \in Below(q, n) <=> i \in 1..Len(q) /\ q[i] < n
    BY BelowFacts
  <2>3. Len(q) + 1 \notin Below(q, n)
    BY <1>3, <2>2
  <2>4. CASE n = 0
    <3>1. \A i \in 1..Len(q) + 1 : ~(t[i] < n)
      BY <1>2, <1>3, <2>4
    <3>2. \A i \in 1..Len(q) : ~(q[i] < n)
      BY <1>3, <2>4
    <3>3. Below(t, n) = {}
      BY <2>1, <3>1
    <3>4. Below(q, n) = {}
      BY <2>2, <3>2
    <3> QED BY <2>4, <3>3, <3>4
  <2>5. CASE n # 0
    <3>1. Below(t, n) = Below(q, n) \cup {Len(q) + 1}
      BY <1>2, <1>3, <2>0, <2>1, <2>2, <2>5
    <3> QED BY <2>3, <2>5, <3>1, BelowFacts, FS_AddElement
  <2> QED BY <2>4, <2>5
<1> QED BY <1>2, <1>4, <1>5 DEF t

\* A place that is given back.
LEMMA PlaceReleased ==
    ASSUME NEW q \in Seq(Ages), InTimeOrder(q)
    PROVE  /\ Popped(q) \in Seq(Ages) /\ InTimeOrder(Popped(q))
           /\ \A n \in Ages : /\ Cardinality(Below(Popped(q), n)) <= Cardinality(Below(q, n))
                              /\ Cardinality(Below(q, n)) <= Cardinality(Below(Popped(q), n)) + 1
<1>1. CASE q = <<>>
  <2>1. Popped(q) = q
    BY <1>1 DEF Popped
  <2>2. \A n \in Ages : Cardinality(Below(q, n)) \in Nat
    BY BelowFacts
  <2> QED BY <2>1, <2>2
<1>2. CASE q # <<>>
  <2> DEFINE t == Popped(q)
  <2>1. Len(q) \in Nat \ {0} /\ \A i \in 1..Len(q) : q[i] \in Ages
    BY <1>2, SeqShape, EmptySeq
  <2>2. t = SubSeq(q, 1, Len(q) - 1)
    BY <1>2 DEF Popped, Front
  <2>3. \A i \in 1..Len(q) - 1 : q[i] \in Ages
    BY <2>1
  <2>4. /\ t \in Seq(Ages) /\ Len(t) = Len(q) - 1
        /\ \A i \in 1..Len(q) - 1 : t[i] = q[i]
    <3>1. /\ SubSeq(q, 1, Len(q) - 1) \in Seq(Ages)
          /\ Len(SubSeq(q, 1, Len(q) - 1)) = IF 1 <= Len(q) - 1 THEN Len(q) - 1 - 1 + 1 ELSE 0
          /\ \A i \in 1..Len(q) - 1 - 1 + 1 : SubSeq(q, 1, Len(q) - 1)[i] = q[1 + i - 1]
      BY <2>1, <2>3, SubSeqProperties
    <3>2. Len(q) - 1 = IF 1 <= Len(q) - 1 THEN Len(q) - 1 - 1 + 1 ELSE 0
      <4>1. \A n \in Nat \ {0} : n - 1 = IF 1 <= n - 1 THEN n - 1 - 1 + 1 ELSE 0
        OBVIOUS
      <4>2. Len(q) \in Nat \ {0}
        BY <2>1
      <4> QED BY <4>1, <4>2
    <3> HIDE DEF t
    <3>3. /\ Len(q) - 1 - 1 + 1 = Len(q) - 1
          /\ \A i \in 1..Len(q) - 1 : i \in Int /\ 1 + i - 1 = i
      <4>1. Len(q) \in Nat
        BY <2>1
      <4> QED BY <4>1
    <3>4. t \in Seq(Ages) /\ Len(t) = Len(q) - 1
      BY <2>2, <3>1, <3>2
    <3>5. \A i \in 1..Len(q) - 1 : t[i] = q[i]
      BY <2>2, <3>1, <3>3
    <3> QED BY <3>4, <3>5
  <2> HIDE DEF t
  <2>5. InTimeOrder(t)
    <3>1. DOMAIN t = 1..Len(q) - 1 /\ DOMAIN q = 1..Len(q)
      BY <2>4, SeqShape
    <3> SUFFICES ASSUME NEW i \in 1..Len(q) - 1, NEW j \in 1..Len(q) - 1, i < j PROVE t[j] <= t[i]
      BY <3>1 DEF InTimeOrder
    <3>2. t[i] = q[i] /\ t[j] = q[j]
      BY <2>4
    <3>3. i \in 1..Len(q) /\ j \in 1..Len(q)
      BY <2>1
    <3> QED BY <3>1, <3>2, <3>3 DEF InTimeOrder
  <2>6. ASSUME NEW n \in Ages
        PROVE  /\ Cardinality(Below(t, n)) <= Cardinality(Below(q, n))
               /\ Cardinality(Below(q, n)) <= Cardinality(Below(t, n)) + 1
    <3>1. \A i : i \in Below(t, n) <=> i \in 1..Len(q) - 1 /\ t[i] < n
      BY <2>4, BelowFacts
    <3>2. \A i : i \in Below(q, n) <=> i \in 1..Len(q) /\ q[i] < n
      BY BelowFacts
    <3>3. Below(t, n) = Below(q, n) \ {Len(q)}
      BY <2>1, <2>4, <3>1, <3>2
    <3>4. IsFiniteSet(Below(q, n)) /\ Cardinality(Below(q, n)) \in Nat
      BY BelowFacts
    <3>5. Cardinality(Below(t, n)) = IF Len(q) \in Below(q, n) THEN Cardinality(Below(q, n)) - 1 ELSE Cardinality(Below(q, n))
      BY <3>3, <3>4, FS_RemoveElement
    <3> QED BY <3>4, <3>5
  <2> QED BY <2>4, <2>5, <2>6 DEF t
<1> QED BY <1>1, <1>2

\* Time passes.
LEMMA ListAges ==
    ASSUME NEW q \in Seq(Ages), InTimeOrder(q)
    PROVE  /\ AllOlder(q) \in Seq(Ages) /\ InTimeOrder(AllOlder(q))
           /\ \A n \in Ages : Below(AllOlder(q), n) = IF n = 0 THEN {} ELSE Below(q, n - 1)
<1> DEFINE t == AllOlder(q)
<1>1. Len(q) \in Nat /\ DOMAIN q = 1..Len(q) /\ \A i \in 1..Len(q) : q[i] \in 0..Window
  BY SeqShape, RateConstants
<1>2. t = [i \in 1..Len(q) |-> Older(q[i])]
  BY <1>1 DEF AllOlder
<1>3. \A i \in 1..Len(q) : Older(q[i]) \in Ages
  BY <1>1, RateConstants DEF Older
<1>4. t \in Seq(Ages) /\ Len(t) = Len(q) /\ DOMAIN t = 1..Len(q) /\ \A i \in 1..Len(q) : t[i] = Older(q[i])
  <2>1. t \in [1..Len(q) -> Ages]
    BY <1>2, <1>3
  <2>2. t \in Seq(Ages)
    BY <1>1, <2>1, SeqDef
  <2> QED BY <1>1, <1>2, <2>2, SeqShape, LenProperties
<1> HIDE DEF t
<1>5. InTimeOrder(t)
  <2> SUFFICES ASSUME NEW i \in 1..Len(q), NEW j \in 1..Len(q), i < j PROVE t[j] <= t[i]
    BY <1>4 DEF InTimeOrder
  <2>1. q[j] <= q[i] /\ q[j] \in 0..Window /\ q[i] \in 0..Window
    BY <1>1 DEF InTimeOrder
  <2>2. Older(q[j]) <= Older(q[i])
    BY <2>1, RateConstants DEF Older
  <2> QED BY <1>4, <2>2
<1>6. ASSUME NEW n \in Ages PROVE Below(t, n) = IF n = 0 THEN {} ELSE Below(q, n - 1)
  <2>1. n \in 0..Window /\ \A i \in 1..Len(q) : t[i] = Older(q[i]) /\ q[i] \in 0..Window
    BY <1>1, <1>4, RateConstants
  <2>2. CASE n = 0
    BY <1>4, <2>1, <2>2, RateConstants DEF Below, Older
  <2>3. CASE n # 0
    <3>1. \A i \in 1..Len(q) : t[i] < n <=> q[i] < n - 1
      BY <2>1, <2>3, RateConstants DEF Older
    <3> QED BY <1>1, <1>4, <2>3, <3>1 DEF Below
  <2> QED BY <2>2, <2>3
<1> QED BY <1>4, <1>5, <1>6 DEF t
-----------------------------------------------------------------------------
(* Requests *)

LEMMA YoungFacts ==
    ASSUME NEW adm \in [Requests -> Ages], NEW S \in SUBSET Requests, NEW n
    PROVE  IsFiniteSet(Young(S, adm, n)) /\ Cardinality(Young(S, adm, n)) \in Nat
<1>1. Young(S, adm, n) \subseteq Requests
  BY DEF Young
<1> QED BY <1>1, FS_Subset, FS_CardinalityType

LEMMA OfFacts == \A a : Of(a) \in SUBSET Requests
BY DEF Of

\* A step without a tick covers each age as before.
LEMMA CoversStays ==
    ASSUME NEW q \in Seq(Ages), NEW t \in Seq(Ages), NEW S \in SUBSET Requests,
           NEW adm \in [Requests -> Ages], NEW adm2 \in [Requests -> Ages], NEW rel \in Nat, NEW rel2 \in Nat,
           Covers(q, S, adm, rel), NEW k \in {0, 1}, NEW r \in Requests,
           \A o \in Requests \ {r} : adm2[o] = adm[o],
           \A n \in Ages : n # 0 =>
               \/ /\ Cardinality(Below(q, n)) + 1 = Cardinality(Below(t, n)) /\ rel2 = rel
               \/ /\ Cardinality(Below(q, n)) <= Cardinality(Below(t, n)) + k /\ rel2 = rel + k
                  /\ (r \in S => adm2[r] >= adm[r])
    PROVE  Covers(t, S, adm2, rel2)
<1> SUFFICES ASSUME NEW n \in Ages PROVE Cardinality(Young(S, adm2, n)) <= Cardinality(Below(t, n)) + rel2
  BY DEF Covers, Below, Young
<1>1. /\ Cardinality(Young(S, adm, n)) \in Nat /\ Cardinality(Young(S, adm2, n)) \in Nat
      /\ Cardinality(Below(q, n)) \in Nat /\ Cardinality(Below(t, n)) \in Nat
      /\ rel \in Nat /\ n \in 0..Window
  <2>1. IsFiniteSet(Young(S, adm, n)) /\ Cardinality(Young(S, adm, n)) \in Nat
    BY YoungFacts
  <2>2. Young(S, adm2, n) \subseteq Requests
    BY DEF Young
  <2>3. IsFiniteSet(Young(S, adm2, n)) /\ Cardinality(Young(S, adm2, n)) \in Nat
    BY <2>2, FS_Subset, FS_CardinalityType
  <2> QED BY <2>1, <2>3, BelowFacts, RateConstants
<1>2. Cardinality(Young(S, adm, n)) <= Cardinality(Below(q, n)) + rel
  BY DEF Covers
<1>3. CASE n = 0
  <2>1. Young(S, adm2, n) = {}
    BY <1>3, RateConstants DEF Young
  <2> QED BY <1>1, <2>1, FS_EmptySet
<1>4. ASSUME r \in S => adm2[r] >= adm[r]
      PROVE  Cardinality(Young(S, adm2, n)) <= Cardinality(Young(S, adm, n))
  <2>1. Young(S, adm2, n) \subseteq Young(S, adm, n)
    <3>1. \A o \in S : o \in Requests /\ adm[o] \in 0..Window /\ adm2[o] \in 0..Window
      BY RateConstants
    <3>2. \A o \in S : adm2[o] >= adm[o]
      BY <1>4, <3>1
    <3> QED BY <1>1, <3>1, <3>2 DEF Young
  <2> QED BY <2>1, YoungFacts, FS_Subset
<1>5. Cardinality(Young(S, adm2, n)) <= Cardinality(Young(S, adm, n)) + 1
  <2>1. Young(S, adm2, n) \subseteq Young(S, adm, n) \cup {r}
    BY DEF Young
  <2>2. IsFiniteSet(Young(S, adm, n))
    BY YoungFacts
  <2>3. IsFiniteSet(Young(S, adm, n) \cup {r}) /\ Cardinality(Young(S, adm, n) \cup {r}) <= Cardinality(Young(S, adm, n)) + 1
    <3>1. IsFiniteSet(Young(S, adm, n) \cup {r}) /\ Cardinality(Young(S, adm, n) \cup {r}) =
             IF r \in Young(S, adm, n) THEN Cardinality(Young(S, adm, n)) ELSE Cardinality(Young(S, adm, n)) + 1
      BY <2>2, FS_AddElement
    <3> QED BY <1>1, <3>1
  <2>4. Cardinality(Young(S, adm2, n)) <= Cardinality(Young(S, adm, n) \cup {r}) /\ Cardinality(Young(S, adm, n) \cup {r}) \in Nat
    BY <2>1, <2>3, FS_Subset, FS_CardinalityType
  <2> QED BY <1>1, <2>3, <2>4
<1>6. CASE n # 0
  <2>1. CASE Cardinality(Below(q, n)) + 1 = Cardinality(Below(t, n)) /\ rel2 = rel
    BY <1>1, <1>2, <1>5, <2>1
  <2>2. CASE /\ Cardinality(Below(q, n)) <= Cardinality(Below(t, n)) + k /\ rel2 = rel + k
             /\ (r \in S => adm2[r] >= adm[r])
    BY <1>1, <1>2, <1>4, <2>2
  <2> QED BY <1>6, <2>1, <2>2
<1> QED BY <1>3, <1>6

\* The list and its requests grow older together.
LEMMA CoversAges ==
    ASSUME NEW q \in Seq(Ages), InTimeOrder(q), NEW S \in SUBSET Requests,
           NEW adm \in [Requests -> Ages], NEW adm2, NEW rel \in Nat, Covers(q, S, adm, rel),
           adm2 = [r \in Requests |-> Older(adm[r])]
    PROVE  Covers(AllOlder(q), S, adm2, rel)
<1> DEFINE t == AllOlder(q)
<1>0. \A n \in Ages : Below(t, n) = IF n = 0 THEN {} ELSE Below(q, n - 1)
  BY ListAges
<1> HIDE DEF t
<1> SUFFICES ASSUME NEW n \in Ages PROVE Cardinality(Young(S, adm2, n)) <= Cardinality(Below(t, n)) + rel
  BY DEF Covers, Below, Young, t, AllOlder, Older
<1>1. n \in 0..Window /\ rel \in Nat /\ \A r \in Requests : adm[r] \in 0..Window
  BY RateConstants
<1>2. CASE n = 0
  <2>1. Young(S, adm2, n) = {}
    BY <1>1, <1>2, RateConstants DEF Young, Older
  <2>2. Below(t, n) = {}
    BY <1>0, <1>2
  <2>3. Cardinality({}) = 0
    BY FS_EmptySet
  <2>4. Cardinality(Young(S, adm2, n)) = 0 /\ Cardinality(Below(t, n)) = 0 /\ rel \in Nat
    BY <2>1, <2>2, <2>3
  <2> QED BY <2>4
<1>3. CASE n # 0
  <2>1. n - 1 \in Ages
    BY <1>1, <1>3, RateConstants
  <2>2. \A r \in Requests : Older(adm[r]) < n <=> adm[r] < n - 1
    BY <1>1, <1>3, RateConstants DEF Older
  <2>3. Young(S, adm2, n) = Young(S, adm, n - 1)
    BY <2>2 DEF Young
  <2>4. Below(t, n) = Below(q, n - 1)
    BY <1>0, <1>3
  <2> QED BY <2>1, <2>3, <2>4 DEF Covers
<1> QED BY <1>2, <1>3

\* The limit is kept by what has grown older.
LEMMA CountAges ==
    ASSUME NEW q \in Seq(Ages), InTimeOrder(q)
    PROVE  Count(AllOlder(q)) <= Count(q) /\ Count(AllOlder(q)) \in Nat /\ Count(q) \in Nat
<1>1. Window \in Ages /\ Window # 0 /\ Window - 1 \in Ages
  BY RateConstants
<1>2. Below(AllOlder(q), Window) = Below(q, Window - 1) /\ AllOlder(q) \in Seq(Ages)
  BY <1>1, ListAges
<1>3. Below(q, Window - 1) \subseteq Below(q, Window)
  <2>1. \A i \in 1..Len(q) : q[i] \in 0..Window
    BY SeqShape, RateConstants
  <2>2. \A i : i \in Below(q, Window) <=> i \in 1..Len(q) /\ q[i] < Window
    BY <1>1, BelowFacts
  <2>3. \A i : i \in Below(q, Window - 1) <=> i \in 1..Len(q) /\ q[i] < Window - 1
    BY <1>1, BelowFacts
  <2> QED BY <2>1, <2>2, <2>3, RateConstants
<1>4. IsFiniteSet(Below(q, Window)) /\ Cardinality(Below(q, Window)) \in Nat
      /\ Cardinality(Below(AllOlder(q), Window)) \in Nat
  BY <1>1, <1>2, BelowFacts
<1>5. Cardinality(Below(q, Window - 1)) <= Cardinality(Below(q, Window))
  BY <1>3, <1>4, FS_Subset
<1> QED BY <1>2, <1>4, <1>5, CountIsBelow
-----------------------------------------------------------------------------
LEMMA RateInvInit == RateInit => RateInv
<1> SUFFICES ASSUME RateInit PROVE RateInv
  OBVIOUS
<1>1. <<>> \in Seq(Ages) /\ InTimeOrder(<<>>)
  BY DEF InTimeOrder
<1>2. RateTypes
  BY <1>1, RateConstants DEF RateInit, RateTypes, Gone
<1>3. \A n \in Ages : Below(<<>>, n) = {}
  BY DEF Below
<1>4. \A S \in SUBSET Requests : \A n \in Ages : Young(S, admitted, n) = {}
  BY RateConstants DEF Young, RateInit, Gone
<1>5. Count(<<>>) = 0
  <2>1. Window \in Ages /\ Cardinality({}) = 0
    BY RateConstants, FS_EmptySet
  <2> QED BY <1>3, <2>1, CountIsBelow
<1>6. \A S \in SUBSET Requests : Covers(<<>>, S, admitted, releases)
  <2>1. Cardinality({}) = 0 /\ releases = 0
    BY FS_EmptySet DEF RateInit
  <2>2. \A S \in SUBSET Requests : \A n \in Ages : Cardinality(Young(S, admitted, n)) = 0 /\ Cardinality(Below(<<>>, n)) = 0
    BY <1>3, <1>4, <2>1
  <2> QED BY <2>1, <2>2 DEF Covers
<1>7. \A a \in Actions : actionCalls[a] = <<>>
  BY DEF RateInit
<1> QED BY <1>2, <1>5, <1>6, <1>7, OfFacts, RateConstants DEF RateInv, RateInit

LEMMA TickKeeps == RateInv /\ Tick => RateInv'
<1> SUFFICES ASSUME RateInv, Tick PROVE RateInv'
  OBVIOUS
<1>1. /\ globalCalls \in Seq(Ages) /\ InTimeOrder(globalCalls)
      /\ \A a \in Actions : actionCalls[a] \in Seq(Ages) /\ InTimeOrder(actionCalls[a])
  BY DEF RateInv, RateTypes
<1>2. /\ globalCalls' = AllOlder(globalCalls) /\ \A a \in Actions : actionCalls'[a] = AllOlder(actionCalls[a])
      /\ actionCalls' = [a \in Actions |-> AllOlder(actionCalls[a])]
      /\ admitted' = [r \in Requests |-> Older(admitted[r])] /\ releases' = releases /\ request' = request
  BY DEF Tick
<1>3. RateTypes'
  <2>1. admitted' \in [Requests -> Ages]
    <3>1. \A r \in Requests : Older(admitted[r]) \in Ages
      BY RateConstants DEF RateInv, RateTypes, Older
    <3> QED BY <1>2, <3>1
  <2> QED BY <1>1, <1>2, <2>1, ListAges DEF RateInv, RateTypes
<1>4. /\ Covers(AllOlder(globalCalls), Requests, admitted', releases)
      /\ \A a \in Actions : Covers(AllOlder(actionCalls[a]), Of(a), admitted', releases)
  BY <1>1, <1>2, CoversAges, OfFacts DEF RateInv, RateTypes
<1>5. Covers(globalCalls, Requests, admitted, releases)' /\ Count(globalCalls') <= GlobalLimit
  BY <1>1, <1>2, <1>4, CountAges, RateConstants DEF RateInv
<1>6. \A a \in Actions : Covers(actionCalls[a], Of(a), admitted, releases)' /\ Count(actionCalls'[a]) <= ActionLimit[a]
  <2> SUFFICES ASSUME NEW a \in Actions
               PROVE  Covers(actionCalls[a], Of(a), admitted, releases)' /\ Count(actionCalls'[a]) <= ActionLimit[a]
    OBVIOUS
  <2>1. actionCalls'[a] = AllOlder(actionCalls[a]) /\ releases' = releases
    BY <1>2
  <2>2. Covers(AllOlder(actionCalls[a]), Of(a), admitted', releases)
    BY <1>4
  <2>3. Count(actionCalls[a]) <= ActionLimit[a] /\ ActionLimit[a] \in Nat
    BY RateConstants DEF RateInv
  <2>4. Count(AllOlder(actionCalls[a])) <= Count(actionCalls[a]) /\ Count(AllOlder(actionCalls[a])) \in Nat
        /\ Count(actionCalls[a]) \in Nat
    BY <1>1, CountAges
  <2>5. Count(AllOlder(actionCalls[a])) <= ActionLimit[a]
    BY <2>3, <2>4
  <2> QED BY <2>1, <2>2, <2>5
<1> QED BY <1>3, <1>5, <1>6 DEF RateInv

\* What a reservation makes of a list.
LEMMA ListReserves ==
    ASSUME NEW q \in Seq(Ages), InTimeOrder(q), NEW limit \in Nat, Count(q) < limit
    PROVE  /\ InWindow(Append(q, 0)) \in Seq(Ages) /\ InTimeOrder(InWindow(Append(q, 0)))
           /\ Count(InWindow(Append(q, 0))) <= limit
           /\ \A n \in Ages : n # 0 =>
                Cardinality(Below(q, n)) + 1 = Cardinality(Below(InWindow(Append(q, 0)), n))
<1>1. /\ Append(q, 0) \in Seq(Ages) /\ InTimeOrder(Append(q, 0))
      /\ \A n \in Ages : n # 0 => Cardinality(Below(Append(q, 0), n)) = Cardinality(Below(q, n)) + 1
  BY PlaceTaken
<1>2. /\ InWindow(Append(q, 0)) \in Seq(Ages) /\ InTimeOrder(InWindow(Append(q, 0)))
      /\ \A n \in Ages : Cardinality(Below(InWindow(Append(q, 0)), n)) = Cardinality(Below(Append(q, 0), n))
  BY <1>1, WindowKept
<1>3. Window \in Ages /\ Window # 0
  BY RateConstants
<1>4. Count(InWindow(Append(q, 0))) = Count(q) + 1 /\ Count(q) \in Nat
  <2>1. Cardinality(Below(q, Window)) \in Nat
    BY <1>3, BelowFacts
  <2> QED BY <1>1, <1>2, <1>3, <2>1, CountIsBelow
<1> QED BY <1>1, <1>2, <1>4

LEMMA ListTrimmed ==
    ASSUME NEW q \in Seq(Ages), InTimeOrder(q)
    PROVE  /\ InWindow(q) \in Seq(Ages) /\ InTimeOrder(InWindow(q)) /\ Count(InWindow(q)) = Count(q)
           /\ \A n \in Ages : Cardinality(Below(InWindow(q), n)) = Cardinality(Below(q, n)) /\ Cardinality(Below(q, n)) \in Nat
<1>1. Window \in Ages
  BY RateConstants
<1> QED BY <1>1, WindowKept, CountIsBelow, BelowFacts

\* inspect(): the place is there at once, whether the request is let in or denied.
LEMMA ReserveKeeps ==
    ASSUME RateInv, NEW r \in Requests, Passes(ActionOf[r]), Reserve(ActionOf[r]), releases' = releases,
           request' \in [Requests -> {"new", "denied", "executing", "done", "failed"}],
           admitted' = [admitted EXCEPT ![r] = 0] \/ admitted' = admitted
    PROVE  RateInv'
<1> DEFINE a == ActionOf[r]
<1>1. /\ globalCalls \in Seq(Ages) /\ InTimeOrder(globalCalls)
      /\ \A b \in Actions : actionCalls[b] \in Seq(Ages) /\ InTimeOrder(actionCalls[b])
      /\ admitted \in [Requests -> Ages] /\ releases \in Nat /\ a \in Actions
  BY RateConstants DEF RateInv, RateTypes
<1>2. /\ globalCalls' = InWindow(Append(globalCalls, 0))
      /\ \A b \in Actions : actionCalls'[b] = InWindow(IF a = b THEN Append(actionCalls[b], 0) ELSE actionCalls[b])
      /\ actionCalls' = [b \in Actions |-> InWindow(IF a = b THEN Append(actionCalls[b], 0) ELSE actionCalls[b])]
  BY DEF Reserve
<1>3. Count(globalCalls) < GlobalLimit /\ Count(actionCalls[a]) < ActionLimit[a]
  BY DEF Passes
<1>4. /\ admitted' \in [Requests -> Ages]
      /\ \A o \in Requests \ {r} : admitted'[o] = admitted[o]
  BY <1>1, RateConstants
<1> HIDE DEF a
<1>5. /\ globalCalls' \in Seq(Ages) /\ InTimeOrder(globalCalls') /\ Count(globalCalls') <= GlobalLimit
      /\ \A n \in Ages : n # 0 => Cardinality(Below(globalCalls, n)) + 1 = Cardinality(Below(globalCalls', n))
  BY <1>1, <1>2, <1>3, ListReserves, RateConstants
<1>6. Covers(globalCalls', Requests, admitted', releases)
  BY <1>1, <1>4, <1>5, CoversStays DEF RateInv
<1>7. ASSUME NEW b \in Actions
      PROVE  /\ actionCalls'[b] \in Seq(Ages) /\ InTimeOrder(actionCalls'[b]) /\ Count(actionCalls'[b]) <= ActionLimit[b]
             /\ Covers(actionCalls'[b], Of(b), admitted', releases)
  <2>0. actionCalls[b] \in Seq(Ages) /\ InTimeOrder(actionCalls[b]) /\ Covers(actionCalls[b], Of(b), admitted, releases)
        /\ Count(actionCalls[b]) <= ActionLimit[b] /\ Of(b) \in SUBSET Requests /\ ActionLimit[b] \in Nat
    BY <1>1, OfFacts, RateConstants DEF RateInv
  <2>1. CASE a = b
    <3>1. actionCalls'[b] = InWindow(Append(actionCalls[b], 0)) /\ Count(actionCalls[b]) < ActionLimit[b]
      BY <1>2, <1>3, <2>1
    <3>2. /\ actionCalls'[b] \in Seq(Ages) /\ InTimeOrder(actionCalls'[b]) /\ Count(actionCalls'[b]) <= ActionLimit[b]
          /\ \A n \in Ages : n # 0 => Cardinality(Below(actionCalls[b], n)) + 1 = Cardinality(Below(actionCalls'[b], n))
      BY <2>0, <3>1, ListReserves
    <3> QED BY <1>1, <1>4, <2>0, <3>2, CoversStays
  <2>2. CASE a # b
    <3>1. actionCalls'[b] = InWindow(actionCalls[b])
      BY <1>2, <2>2
    <3>2. /\ actionCalls'[b] \in Seq(Ages) /\ InTimeOrder(actionCalls'[b]) /\ Count(actionCalls'[b]) <= ActionLimit[b]
          /\ \A n \in Ages : /\ Cardinality(Below(actionCalls'[b], n)) = Cardinality(Below(actionCalls[b], n))
                             /\ Cardinality(Below(actionCalls[b], n)) \in Nat
      BY <2>0, <3>1, ListTrimmed
    <3>4. r \notin Of(b)
      BY <2>2 DEF Of, a
    <3>5. Covers(actionCalls'[b], Of(b), admitted', releases)
      <4>1. \A n \in Ages : Young(Of(b), admitted', n) = Young(Of(b), admitted, n)
        BY <1>4, <2>0, <3>4 DEF Young
      <4> QED BY <2>0, <3>2, <4>1 DEF Covers
    <3> QED BY <3>2, <3>5
  <2> QED BY <2>1, <2>2
<1>8. actionCalls' \in [Actions -> Seq(Ages)]
  BY <1>2, <1>7
<1>9. RateTypes'
  BY <1>1, <1>4, <1>5, <1>7, <1>8 DEF RateTypes
<1> QED BY <1>5, <1>6, <1>7, <1>9 DEF RateInv

LEMMA FailsKeeps ==
    ASSUME RateInv, NEW r \in Requests, Fails(r)
    PROVE  RateInv'
<1> DEFINE a == ActionOf[r]
<1>1. /\ globalCalls \in Seq(Ages) /\ InTimeOrder(globalCalls)
      /\ actionCalls \in [Actions -> Seq(Ages)]
      /\ \A b \in Actions : actionCalls[b] \in Seq(Ages) /\ InTimeOrder(actionCalls[b])
      /\ admitted \in [Requests -> Ages] /\ releases \in Nat /\ a \in Actions
  BY RateConstants DEF RateInv, RateTypes
<1>2. /\ globalCalls' = Popped(globalCalls)
      /\ \A b \in Actions : actionCalls'[b] = IF a = b THEN Popped(actionCalls[b]) ELSE actionCalls[b]
      /\ actionCalls' = [actionCalls EXCEPT ![a] = Popped(actionCalls[a])]
      /\ releases' = releases + 1
      /\ request' \in [Requests -> {"new", "denied", "executing", "done", "failed"}]
  BY <1>1 DEF Fails, RateInv, RateTypes
<1>3. /\ admitted' \in [Requests -> Ages] /\ admitted'[r] >= admitted[r]
      /\ \A o \in Requests \ {r} : admitted'[o] = admitted[o]
  <2>1. admitted' = [admitted EXCEPT ![r] = Window] /\ admitted[r] \in 0..Window
    BY <1>1, RateConstants DEF Fails, Gone
  <2> QED BY <1>1, <2>1, RateConstants
<1> HIDE DEF a
<1>4. ASSUME NEW q \in Seq(Ages), InTimeOrder(q), NEW S \in SUBSET Requests, Covers(q, S, admitted, releases)
      PROVE  /\ Popped(q) \in Seq(Ages) /\ InTimeOrder(Popped(q)) /\ Count(Popped(q)) <= Count(q)
             /\ Count(q) \in Nat /\ Count(Popped(q)) \in Nat
             /\ Covers(Popped(q), S, admitted', releases') /\ Covers(q, S, admitted', releases')
  <2>1. /\ Popped(q) \in Seq(Ages) /\ InTimeOrder(Popped(q))
        /\ \A n \in Ages : /\ Cardinality(Below(Popped(q), n)) <= Cardinality(Below(q, n))
                           /\ Cardinality(Below(q, n)) <= Cardinality(Below(Popped(q), n)) + 1
    BY <1>4, PlaceReleased
  <2>2. Covers(Popped(q), S, admitted', releases')
    <3>1. releases' \in Nat /\ releases' = releases + 1
      BY <1>1, <1>2
    <3>2. \A n \in Ages : n # 0 =>
             /\ Cardinality(Below(q, n)) <= Cardinality(Below(Popped(q), n)) + 1
             /\ releases' = releases + 1 /\ (r \in S => admitted'[r] >= admitted[r])
      BY <1>3, <2>1, <3>1
    <3> QED BY <1>1, <1>3, <1>4, <2>1, <3>1, <3>2, CoversStays
  <2>3. \A n \in Ages : Cardinality(Below(q, n)) \in Nat
    BY BelowFacts
  <2>4. \A n \in Ages : Cardinality(Below(q, n)) <= Cardinality(Below(q, n)) + 1
    BY <2>3
  <2>5. Covers(q, S, admitted', releases')
    <3>1. releases' \in Nat /\ releases' = releases + 1
      BY <1>1, <1>2
    <3>2. \A n \in Ages : n # 0 =>
             /\ Cardinality(Below(q, n)) <= Cardinality(Below(q, n)) + 1
             /\ releases' = releases + 1 /\ (r \in S => admitted'[r] >= admitted[r])
      BY <1>3, <2>4, <3>1
    <3> QED BY <1>1, <1>3, <1>4, <3>1, <3>2, CoversStays
  <2>6. Window \in Ages
    BY RateConstants
  <2> QED BY <2>1, <2>2, <2>3, <2>5, <2>6, CountIsBelow, BelowFacts
<1>5. /\ globalCalls' \in Seq(Ages) /\ InTimeOrder(globalCalls') /\ Count(globalCalls') <= GlobalLimit
      /\ Covers(globalCalls', Requests, admitted', releases')
  <2>1. Covers(globalCalls, Requests, admitted, releases) /\ Count(globalCalls) <= GlobalLimit
    BY DEF RateInv
  <2>2. /\ globalCalls' \in Seq(Ages) /\ InTimeOrder(globalCalls') /\ Count(globalCalls') <= Count(globalCalls)
        /\ Covers(globalCalls', Requests, admitted', releases')
        /\ Count(globalCalls) \in Nat /\ Count(globalCalls') \in Nat
    BY <1>1, <1>2, <1>4, <2>1
  <2> QED BY <2>1, <2>2, RateConstants
<1>6. ASSUME NEW b \in Actions
      PROVE  /\ actionCalls'[b] \in Seq(Ages) /\ InTimeOrder(actionCalls'[b]) /\ Count(actionCalls'[b]) <= ActionLimit[b]
             /\ Covers(actionCalls'[b], Of(b), admitted', releases')
  <2>1. /\ Covers(actionCalls[b], Of(b), admitted, releases) /\ Count(actionCalls[b]) <= ActionLimit[b]
        /\ Of(b) \in SUBSET Requests /\ ActionLimit[b] \in Nat
        /\ actionCalls[b] \in Seq(Ages) /\ InTimeOrder(actionCalls[b])
    BY <1>1, OfFacts, RateConstants DEF RateInv
  <2>2. actionCalls'[b] = Popped(actionCalls[b]) \/ actionCalls'[b] = actionCalls[b]
    BY <1>2
  <2>3. /\ actionCalls'[b] \in Seq(Ages) /\ InTimeOrder(actionCalls'[b]) /\ Count(actionCalls'[b]) <= Count(actionCalls[b])
        /\ Covers(actionCalls'[b], Of(b), admitted', releases')
        /\ Count(actionCalls[b]) \in Nat /\ Count(actionCalls'[b]) \in Nat
    <3>1. /\ Popped(actionCalls[b]) \in Seq(Ages) /\ InTimeOrder(Popped(actionCalls[b]))
          /\ Count(Popped(actionCalls[b])) <= Count(actionCalls[b])
          /\ Count(actionCalls[b]) \in Nat /\ Count(Popped(actionCalls[b])) \in Nat
          /\ Covers(Popped(actionCalls[b]), Of(b), admitted', releases')
          /\ Covers(actionCalls[b], Of(b), admitted', releases')
      BY <1>4, <2>1
    <3>2. CASE actionCalls'[b] = Popped(actionCalls[b])
      BY <3>1, <3>2
    <3>3. CASE actionCalls'[b] = actionCalls[b]
      BY <2>1, <3>1, <3>3
    <3> QED BY <2>2, <3>2, <3>3
  <2> QED BY <2>1, <2>3
<1>7. RateTypes'
  <2>1. actionCalls' \in [Actions -> Seq(Ages)]
    BY <1>1, <1>2, <1>6
  <2> QED BY <1>1, <1>2, <1>3, <1>5, <1>6, <2>1 DEF RateTypes
<1> QED BY <1>5, <1>6, <1>7 DEF RateInv

LEMMA RateInvStep == RateInv /\ [RateNext]_rateVars => RateInv'
<1> SUFFICES ASSUME RateInv, [RateNext]_rateVars PROVE RateInv'
  OBVIOUS
<1>1. ASSUME NEW r \in Requests, Inspect(r) PROVE RateInv'
  <2>1. request' \in [Requests -> {"new", "denied", "executing", "done", "failed"}] /\ releases' = releases
    BY <1>1 DEF Inspect, RateInv, RateTypes
  <2>2. CASE Passes(ActionOf[r]) /\ Reserve(ActionOf[r]) /\ admitted' = [admitted EXCEPT ![r] = 0]
    BY <2>1, <2>2, ReserveKeeps
  <2>3. CASE Passes(ActionOf[r]) /\ Reserve(ActionOf[r]) /\ admitted' = admitted
    BY <2>1, <2>3, ReserveKeeps
  <2>4. CASE UNCHANGED <<globalCalls, actionCalls, admitted>>
    BY <2>1, <2>4 DEF RateInv, RateTypes
  <2> QED BY <1>1, <2>2, <2>3, <2>4 DEF Inspect
<1>2. ASSUME NEW r \in Requests, Succeeds(r) PROVE RateInv'
  <2>1. request' \in [Requests -> {"new", "denied", "executing", "done", "failed"}]
        /\ UNCHANGED <<globalCalls, actionCalls, admitted, releases>>
    BY <1>2 DEF Succeeds, RateInv, RateTypes
  <2> QED BY <2>1 DEF RateInv, RateTypes
<1>3. CASE UNCHANGED rateVars
  BY <1>3 DEF rateVars, RateInv, RateTypes
<1> QED BY <1>1, <1>2, <1>3, TickKeeps, FailsKeeps DEF RateNext

LEMMA RateInvSound == RateInv => RateSound
<1> SUFFICES ASSUME RateInv PROVE RateSound
  OBVIOUS
<1>1. RateTypeOK
  <2>1. \A q \in Seq(Ages) : Range(q) \subseteq 0..Window
    BY SeqShape, RateConstants
  <2> QED BY <2>1, RateConstants DEF RateInv, RateTypes, RateTypeOK
<1>2. Window \in Ages
  BY RateConstants
<1>3. \A S : Admitted(S) = Young(S, admitted, Window)
  BY DEF Admitted, Young
<1>4. /\ Cardinality(Admitted(Requests)) <= Count(globalCalls) + releases
      /\ Count(globalCalls) \in Nat /\ Cardinality(Admitted(Requests)) \in Nat /\ releases \in Nat
      /\ Count(globalCalls) <= GlobalLimit
  <2>1. /\ globalCalls \in Seq(Ages) /\ Covers(globalCalls, Requests, admitted, releases) /\ releases \in Nat
        /\ admitted \in [Requests -> Ages] /\ Count(globalCalls) <= GlobalLimit
    BY DEF RateInv, RateTypes
  <2>2. Count(globalCalls) = Cardinality(Below(globalCalls, Window)) /\ Count(globalCalls) \in Nat
    BY <1>2, <2>1, CountIsBelow, BelowFacts
  <2>3. Cardinality(Young(Requests, admitted, Window)) \in Nat
    BY <2>1, YoungFacts
  <2> QED BY <1>2, <1>3, <2>1, <2>2, <2>3 DEF Covers
<1>5. ASSUME NEW a \in Actions
      PROVE  /\ Cardinality(Admitted({r \in Requests : ActionOf[r] = a})) <= Count(actionCalls[a]) + releases
             /\ Count(actionCalls[a]) \in Nat /\ Cardinality(Admitted({r \in Requests : ActionOf[r] = a})) \in Nat
             /\ Count(actionCalls[a]) <= ActionLimit[a] /\ ActionLimit[a] \in Nat
  <2>1. {r \in Requests : ActionOf[r] = a} = Of(a) /\ Of(a) \in SUBSET Requests
    BY DEF Of
  <2>2. actionCalls[a] \in Seq(Ages) /\ Covers(actionCalls[a], Of(a), admitted, releases) /\ Count(actionCalls[a]) <= ActionLimit[a]
    BY DEF RateInv, RateTypes
  <2>3. Count(actionCalls[a]) = Cardinality(Below(actionCalls[a], Window)) /\ Count(actionCalls[a]) \in Nat
    BY <1>2, <2>2, CountIsBelow, BelowFacts
  <2>4. Cardinality(Young(Of(a), admitted, Window)) \in Nat
    BY <2>1, YoungFacts DEF RateInv, RateTypes
  <2> QED BY <1>2, <1>3, <2>1, <2>2, <2>3, <2>4, RateConstants DEF Covers
<1>6. WindowBound
  <2>1. Cardinality(Admitted(Requests)) <= GlobalLimit + releases
    BY <1>4, RateConstants
  <2>2. ASSUME NEW a \in Actions
        PROVE  Cardinality(Admitted({r \in Requests : ActionOf[r] = a})) <= ActionLimit[a] + releases
    BY <1>4, <1>5
  <2> QED BY <2>1, <2>2 DEF WindowBound
<1>7. PlacesExact
  <2> SUFFICES ASSUME releases = 0, NEW a \in Actions
               PROVE  Count(actionCalls[a]) >= Cardinality(Admitted({r \in Requests : ActionOf[r] = a}))
    BY DEF PlacesExact
  <2> QED BY <1>5
<1> QED BY <1>1, <1>6, <1>7 DEF RateSound

\* The guard lets no more of an action through within the window than its limits and the
\* places given back by failures, and each request in the window holds a place (RateLimiter).
THEOREM RateIsSound == RateSpec => []RateSound
<1> QED BY RateInvInit, RateInvStep, RateInvSound, PTL DEF RateSpec

-----------------------------------------------------------------------------
(* The firewall's lines *)

USE FirewallAssumption

\* A non-empty set of line numbers has a last one.
LEMMA LastOf ==
    ASSUME NEW n \in Nat, NEW S \in SUBSET (1..n), S # {}
    PROVE  Max(S) \in S /\ \A x \in S : x <= Max(S)
<1> DEFINE T == {m \in Nat : \A x \in S : x <= m}
           R == OpToRel(<, Nat)
<1>1. \A x, y \in Nat : <<x, y>> \in R <=> x < y
  BY DEF OpToRel
<1>2. \E m \in T : \A y \in T : ~ (<<y, m>> \in R)
  <2>1. n \in T /\ T \subseteq Nat
    OBVIOUS
  <2>2. IsWellFoundedOn(R, Nat)
    BY NatLessThanWellFounded
  <2> HIDE DEF T, R
  <2> QED BY <2>1, <2>2, WFMin
<1>3. PICK m \in T : \A y \in T : ~ (<<y, m>> \in R)
  BY <1>2
<1> HIDE DEF R
<1>4. m \in S
  <2> SUFFICES ASSUME m \notin S PROVE FALSE
    OBVIOUS
  <2>1. \A x \in S : x \in Nat \ {0} /\ x <= m /\ x # m
    BY <1>3
  <2>2. m - 1 \in T
    <3>1. m \in Nat
      BY <1>3
    <3>2. PICK x \in S : x \in Nat \ {0} /\ x <= m /\ x # m
      BY <2>1
    <3>3. m - 1 \in Nat
      BY <3>1, <3>2
    <3>4. ASSUME NEW y \in S PROVE y <= m - 1
      <4>1. y \in Nat /\ y <= m /\ y # m
        BY <2>1
      <4> QED BY <3>1, <4>1
    <3> QED BY <3>3, <3>4
  <2>3. m - 1 < m /\ m - 1 \in Nat /\ m \in Nat
    BY <1>3, <2>2
  <2> QED BY <1>1, <1>3, <2>2, <2>3
<1>5. m \in S /\ \A x \in S : m >= x
  BY <1>3, <1>4
<1>6. Max(S) \in S /\ \A y \in S : Max(S) >= y
  BY <1>5 DEF Max
<1>7. \A x \in S : x \in Nat
  OBVIOUS
<1> QED BY <1>6, <1>7

\* A set laid out as a sequence.
LEMMA LaidOut ==
    ASSUME NEW S, IsFiniteSet(S)
    PROVE  /\ SetToSeq(S) \in Seq(S) /\ \A x \in S : \E i \in DOMAIN SetToSeq(S) : SetToSeq(S)[i] = x
           /\ IsInjective(SetToSeq(S))
<1> DEFINE n == Cardinality(S)
           s == SetToSeq(S)
<1>1. n \in Nat /\ ExistsBijection(1..n, S)
  BY FS_CardinalityType
<1>2. PICK f \in Bijection(1..n, S) : TRUE
  BY <1>1 DEF ExistsBijection
<1>3. f \in [1..n -> S] /\ IsInjective(f)
  BY <1>2 DEF Bijection, Injection, Surjection, IsInjective
<1>4. s \in [1..n -> S] /\ IsInjective(s)
  BY <1>3 DEF SetToSeq
<1> HIDE DEF s
<1>5. s \in Seq(S) /\ DOMAIN s = 1..n
  BY <1>1, <1>4
<1>6. s \in Injection(1..n, S)
  BY <1>4 DEF Injection, IsInjective
<1>7. s \in Surjection(1..n, S)
  <2>1. IsFiniteSet(1..n) /\ Cardinality(1..n) = n
    <3>1. IsFiniteSet(1..n) /\ Cardinality(1..n) = IF 1 > n THEN 0 ELSE n - 1 + 1
      BY <1>1, FS_Interval
    <3>2. n = IF 1 > n THEN 0 ELSE n - 1 + 1
      BY <1>1
    <3> QED BY <3>1, <3>2
  <2> QED BY <1>6, <2>1, FS_Injection
<1>8. \A x \in S : \E i \in 1..n : s[i] = x
  BY <1>7 DEF Surjection
<1> QED BY <1>4, <1>5, <1>8 DEF s

\* A sequence with a new first element.
LEMMA Prepended ==
    ASSUME NEW S, NEW q \in Seq(S), NEW x \in S
    PROVE  LET r == <<x>> \o q IN
           /\ r \in Seq(S) /\ Len(r) = Len(q) + 1
           /\ r[1] = x /\ \A i \in 2..Len(r) : i - 1 \in 1..Len(q) /\ r[i] = q[i - 1]
           /\ Range(r) = Range(q) \cup {x}
<1> DEFINE r == <<x>> \o q
<1>1. Len(q) \in Nat /\ <<x>> \in Seq(S) /\ Len(<<x>>) = 1 /\ <<x>>[1] = x
  BY SeqShape
<1>2. /\ r \in Seq(S) /\ Len(r) = 1 + Len(q)
      /\ \A i \in 1..1 + Len(q) : r[i] = IF i <= 1 THEN <<x>>[i] ELSE q[i - 1]
  BY <1>1, ConcatProperties
<1> HIDE DEF r
<1>3. Len(r) = Len(q) + 1 /\ r[1] = x
  BY <1>1, <1>2
<1>4. \A i \in 2..Len(r) : i - 1 \in 1..Len(q) /\ r[i] = q[i - 1]
  BY <1>1, <1>2, <1>3
<1>5. ASSUME NEW y \in Range(r) PROVE y \in Range(q) \cup {x}
  <2>1. PICK i \in 1..Len(r) : r[i] = y
    BY <1>2, SeqShape
  <2>2. i = 1 \/ i \in 2..Len(r)
    BY <1>1, <1>3
  <2> QED BY <1>3, <1>4, <2>1, <2>2, SeqShape
<1>6. ASSUME NEW y \in Range(q) PROVE y \in Range(r)
  <2>1. PICK i \in 1..Len(q) : q[i] = y
    BY SeqShape
  <2>2. i + 1 \in 2..Len(r) /\ i + 1 \in 1..Len(r) /\ (i + 1) - 1 = i
    BY <1>1, <1>3
  <2>3. r[i + 1] = y
    BY <1>4, <2>1, <2>2
  <2> QED BY <1>2, <2>2, <2>3, SeqShape
<1>7. x \in Range(r)
  <2>1. 1 \in 1..Len(r)
    BY <1>1, <1>3
  <2> QED BY <1>2, <1>3, <2>1, SeqShape
<1> QED BY <1>2, <1>3, <1>4, <1>5, <1>6, <1>7 DEF r

\* A sequence without its element at k.
LEMMA WithoutOne ==
    ASSUME NEW S, NEW q \in Seq(S), NEW k \in 1..Len(q)
    PROVE  LET r == RemoveAt(q, k) IN
           /\ r \in Seq(S) /\ Len(r) = Len(q) - 1
           /\ \A i \in 1..Len(r) : r[i] = IF i < k THEN q[i] ELSE q[i + 1]
           /\ \A i \in 1..Len(q) : i # k => \E j \in 1..Len(r) : r[j] = q[i]
<1> DEFINE f == SubSeq(q, 1, k - 1)
           b == SubSeq(q, k + 1, Len(q))
           r == RemoveAt(q, k)
<1>1. Len(q) \in Nat /\ k \in Nat \ {0} /\ k <= Len(q) /\ \A i \in 1..Len(q) : q[i] \in S
  BY SeqShape
<1>2. f \in Seq(S) /\ Len(f) = k - 1 /\ \A i \in 1..k - 1 : f[i] = q[i]
  <2>1. \A i \in 1..k - 1 : q[i] \in S
    BY <1>1
  <2>2. /\ f \in Seq(S) /\ Len(f) = (IF 1 <= k - 1 THEN k - 1 - 1 + 1 ELSE 0)
        /\ \A i \in 1..k - 1 - 1 + 1 : f[i] = q[1 + i - 1]
    BY <1>1, <2>1, SubSeqProperties
  <2> HIDE DEF f
  <2> QED BY <1>1, <2>2
<1>3. b \in Seq(S) /\ Len(b) = Len(q) - k /\ \A i \in 1..Len(b) : b[i] = q[k + i]
  <2>1. \A i \in k + 1..Len(q) : q[i] \in S
    BY <1>1
  <2>2. /\ b \in Seq(S) /\ Len(b) = (IF k + 1 <= Len(q) THEN Len(q) - (k + 1) + 1 ELSE 0)
        /\ \A i \in 1..Len(q) - (k + 1) + 1 : b[i] = q[k + 1 + i - 1]
    BY <1>1, <2>1, SubSeqProperties
  <2> HIDE DEF b
  <2> QED BY <1>1, <2>2
<1>4. r = f \o b
  BY DEF RemoveAt
<1> HIDE DEF f, b, r
<1>5. /\ r \in Seq(S) /\ Len(r) = Len(f) + Len(b)
      /\ \A i \in 1..Len(f) + Len(b) : r[i] = IF i <= Len(f) THEN f[i] ELSE b[i - Len(f)]
  <2>1. f \in Seq(S) /\ b \in Seq(S)
    BY <1>2, <1>3
  <2>2. /\ f \o b \in Seq(S) /\ Len(f \o b) = Len(f) + Len(b)
        /\ \A i \in 1..Len(f) + Len(b) : (f \o b)[i] = IF i <= Len(f) THEN f[i] ELSE b[i - Len(f)]
    BY <2>1, ConcatProperties
  <2> QED BY <1>4, <2>2
<1>6. Len(r) = Len(q) - 1
  BY <1>1, <1>2, <1>3, <1>5
<1>7. ASSUME NEW i \in 1..Len(r) PROVE r[i] = IF i < k THEN q[i] ELSE q[i + 1]
  <2>1. CASE i < k
    <3>1. i \in 1..k - 1 /\ i <= Len(f) /\ i \in 1..Len(f) + Len(b)
      BY <1>1, <1>2, <1>5, <2>1
    <3> QED BY <1>2, <1>5, <2>1, <3>1
  <2>2. CASE ~(i < k)
    <3>1. ~(i <= Len(f)) /\ i - Len(f) \in 1..Len(b) /\ k + (i - Len(f)) = i + 1 /\ i \in 1..Len(f) + Len(b)
      BY <1>1, <1>2, <1>3, <1>5, <1>6, <2>2
    <3> QED BY <1>3, <1>5, <2>2, <3>1
  <2> QED BY <2>1, <2>2
<1>8. ASSUME NEW i \in 1..Len(q), i # k PROVE \E j \in 1..Len(r) : r[j] = q[i]
  <2>1. CASE i < k
    <3>1. i \in 1..Len(r)
      BY <1>1, <1>6, <2>1
    <3> QED BY <1>7, <2>1, <3>1
  <2>2. CASE ~(i < k)
    <3>1. i - 1 \in 1..Len(r) /\ ~(i - 1 < k) /\ (i - 1) + 1 = i
      BY <1>1, <1>6, <1>8, <2>2
    <3> QED BY <1>7, <3>1
  <2> QED BY <2>1, <2>2
<1> QED BY <1>5, <1>6, <1>7, <1>8 DEF r
-----------------------------------------------------------------------------
\* The lines of a chain that belong to someone, and the order of the administrator's.
NumbersIn(q, own) == {i \in DOMAIN q : q[i] \in own}
Kept(q) ==
    /\ Foreign \subseteq Range(q)
    /\ \A i, j \in DOMAIN q : i < j /\ {q[i], q[j]} \subseteq Foreign =>
         \E m, n \in DOMAIN Original : m < n /\ Original[m] = q[i] /\ Original[n] = q[j]

\* What one operation, which works on the lines of own, knows of the chains.
Knows(w, own, ch) ==
    /\ w.pc = "delete" => w.lines = NumbersIn(ch[w.at], own)
    /\ w.pc \in {"list", "delete"} /\ w.at = "OUTPUT" => NumbersIn(ch["INPUT"], own) = {}
    /\ w.pc = "revoke" => \A c \in Chains : NumbersIn(ch[c], own) = {}

Operations(pcs, rules) == [pc : pcs, rule : rules, at : Chains, lines : SUBSET Nat, deleted : Nat]

FwTypes ==
    /\ chain \in [Chains -> Seq(Rules \cup Foreign)]
    /\ known \in [Rules -> {"none", "active", "revoked"}]
    /\ timers \subseteq Rules \ Isolations
    /\ loop \in Operations({"idle", "write", "list", "delete", "revoke"}, Rules \cup {NoRule})
    /\ loop.pc = "idle" <=> loop.rule = NoRule
    /\ sweep \in [Sweeps -> Operations({"ready", "list", "delete", "revoke", "ended"}, {NoRule})]
    /\ \A s \in Sweeps : sweep[s].pc = "ready" => sweep[s].at = "INPUT"
    /\ fwFaults \in 0..MaxFwFaults
    /\ disturbed \in BOOLEAN

\* No two operations are under way at once.
Alone ==
    /\ loop.pc # "idle" => Sweeping = {}
    /\ \A s, u \in Sweeping : s = u

\* The rule being written is a new one, and all commands so far have succeeded.
Writes ==
    loop.pc = "write" =>
        /\ known[loop.rule] = "none" /\ loop.lines = 1..loop.deleted
        /\ loop.deleted <= Lines(loop.rule)

Undisturbed ==
    /\ Alone /\ Writes
    /\ Knows(loop, {loop.rule}, chain) /\ \A s \in Sweeps : Knows(sweep[s], Rules, chain)
    /\ \A c \in Chains : Kept(chain[c])
    /\ \A r \in Rules : known[r] = "revoked" => ~Present(r)
    /\ \A r \in Rules : Present(r) => known[r] = "active" \/ loop.rule = r \/ Sweeping # {}

FwInv == FwTypes /\ (~disturbed => Undisturbed)
-----------------------------------------------------------------------------
LEMMA FwConstants ==
    /\ Rules \cap Foreign = {} /\ NoRule \notin Rules /\ Isolations \subseteq Rules
    /\ Chains = {"INPUT", "OUTPUT"} /\ "INPUT" # "OUTPUT"
    /\ \A r \in Rules : Lines(r) \in Nat \ {0}
BY DEF Chains, Lines

LEMMA NumbersFacts ==
    ASSUME NEW q \in Seq(Rules \cup Foreign), NEW own
    PROVE  /\ NumbersIn(q, own) \in SUBSET (1..Len(q)) /\ Len(q) \in Nat
           /\ NumbersIn(q, own) \subseteq Nat /\ (NumbersIn(q, own) = {} <=> own \cap Range(q) = {})
<1>1. Len(q) \in Nat /\ DOMAIN q = 1..Len(q) /\ \A x : x \in Range(q) <=> \E i \in 1..Len(q) : q[i] = x
  BY SeqShape
<1> QED BY <1>1 DEF NumbersIn

\* A line of the platform at the head of a chain leaves the administrator's as they are.
LEMMA HeadKeeps ==
    ASSUME NEW q \in Seq(Rules \cup Foreign), Kept(q), NEW r \in Rules
    PROVE  Kept(<<r>> \o q)
<1> DEFINE p == <<r>> \o q
<1>1. /\ p \in Seq(Rules \cup Foreign) /\ Len(p) = Len(q) + 1
      /\ p[1] = r /\ \A i \in 2..Len(p) : i - 1 \in 1..Len(q) /\ p[i] = q[i - 1]
      /\ Range(p) = Range(q) \cup {r}
  BY Prepended
<1> HIDE DEF p
<1>2. DOMAIN p = 1..Len(p) /\ DOMAIN q = 1..Len(q) /\ Len(q) \in Nat
  BY <1>1, SeqShape
<1>3. ASSUME NEW i \in DOMAIN p, NEW j \in DOMAIN p, i < j, {p[i], p[j]} \subseteq Foreign
      PROVE  \E m, n \in DOMAIN Original : m < n /\ Original[m] = p[i] /\ Original[n] = p[j]
  <2>1. i # 1 /\ j # 1
    BY <1>1, <1>3, FwConstants
  <2>2. i \in 2..Len(p) /\ j \in 2..Len(p)
    BY <1>1, <1>2, <2>1
  <2>3. i - 1 \in DOMAIN q /\ j - 1 \in DOMAIN q /\ p[i] = q[i - 1] /\ p[j] = q[j - 1]
    BY <1>1, <1>2, <2>2
  <2>4. i - 1 < j - 1
    BY <1>2, <1>3
  <2> QED BY <1>3, <2>3, <2>4 DEF Kept
<1>4. Foreign \subseteq Range(p)
  BY <1>1 DEF Kept
<1>5. Kept(p)
  BY <1>3, <1>4 DEF Kept
<1> QED BY <1>5 DEF p

\* Deleting the last line of a list of lines keeps the numbers of the others.
LEMMA LastDeleted ==
    ASSUME NEW q \in Seq(Rules \cup Foreign), NEW own \in SUBSET Rules, NumbersIn(q, own) # {}
    PROVE  LET k == Max(NumbersIn(q, own))
               r == RemoveAt(q, k)
           IN  /\ k \in DOMAIN q /\ r \in Seq(Rules \cup Foreign)
               /\ NumbersIn(r, own) = NumbersIn(q, own) \ {k} /\ Range(r) \subseteq Range(q)
               /\ Kept(q) => Kept(r)
<1> DEFINE k == Max(NumbersIn(q, own))
           r == RemoveAt(q, k)
           g(i) == IF i < k THEN i ELSE i + 1
<1>1. Len(q) \in Nat /\ DOMAIN q = 1..Len(q) /\ \A i \in 1..Len(q) : i \in NumbersIn(q, own) <=> q[i] \in own
  BY SeqShape DEF NumbersIn
<1>2. k \in NumbersIn(q, own) /\ \A i \in NumbersIn(q, own) : i <= k
  BY LastOf, NumbersFacts
<1> HIDE DEF k
<1>3. k \in 1..Len(q) /\ q[k] \in own /\ q[k] \notin Foreign
  BY <1>1, <1>2, NumbersFacts, FwConstants
<1>4. /\ r \in Seq(Rules \cup Foreign) /\ Len(r) = Len(q) - 1
      /\ \A i \in 1..Len(r) : r[i] = IF i < k THEN q[i] ELSE q[i + 1]
      /\ \A i \in 1..Len(q) : i # k => \E j \in 1..Len(r) : r[j] = q[i]
  BY <1>3, WithoutOne
<1> HIDE DEF r
<1>5. /\ DOMAIN r = 1..Len(r) /\ \A x : x \in Range(q) <=> \E i \in 1..Len(q) : q[i] = x
      /\ \A x : x \in Range(r) <=> \E i \in 1..Len(r) : r[i] = x
  BY <1>4, SeqShape
<1>6. \A i \in 1..Len(r) : g(i) \in 1..Len(q) /\ g(i) # k /\ r[i] = q[g(i)]
  BY <1>1, <1>3, <1>4
<1>7. \A i, j \in 1..Len(r) : i < j => g(i) < g(j)
  BY <1>1, <1>3, <1>4
<1>8. Range(r) \subseteq Range(q)
  BY <1>5, <1>6
<1>9. \A i \in 1..Len(r) : i \in NumbersIn(r, own) <=> r[i] \in own
  BY <1>5 DEF NumbersIn
<1>10. NumbersIn(r, own) = NumbersIn(q, own) \ {k}
  <2>1. \A i \in NumbersIn(q, own) : i \in 1..Len(q)
    BY NumbersFacts
  <2>2. \A i \in NumbersIn(r, own) : i \in 1..Len(r)
    BY <1>5 DEF NumbersIn
  <2>3. ASSUME NEW i \in NumbersIn(r, own) PROVE i \in NumbersIn(q, own) /\ i # k
    <3>1. i \in 1..Len(r) /\ q[g(i)] \in own
      BY <1>6, <1>9, <2>2
    <3>2. g(i) \in NumbersIn(q, own)
      BY <1>1, <1>6, <3>1
    <3>3. g(i) <= k /\ g(i) # k
      BY <1>2, <1>6, <3>1, <3>2
    <3>4. g(i) = i
      BY <1>1, <1>3, <1>4, <3>1, <3>3
    <3> QED BY <3>2, <3>3, <3>4
  <2>4. ASSUME NEW i \in NumbersIn(q, own), i # k PROVE i \in NumbersIn(r, own)
    <3>0. i \in 1..Len(q) /\ i <= k
      BY <1>2, <2>1, <2>4
    <3>1. i \in 1..Len(q) /\ i < k
      <4>1. i \in Int /\ k \in Int
        BY <1>3, <3>0
      <4> QED BY <2>4, <3>0, <4>1
    <3>2. i \in 1..Len(r)
      BY <1>1, <1>3, <1>4, <3>1
    <3>3. r[i] = q[i]
      BY <1>4, <3>1, <3>2
    <3> QED BY <1>1, <1>9, <2>4, <3>1, <3>2, <3>3
  <2> QED BY <2>3, <2>4
<1>11. ASSUME Kept(q) PROVE Kept(r)
  <2>1. Foreign \subseteq Range(r)
    <3> SUFFICES ASSUME NEW x \in Foreign PROVE x \in Range(r)
      OBVIOUS
    <3>1. PICK i \in 1..Len(q) : q[i] = x
      BY <1>5, <1>11 DEF Kept
    <3>2. i # k
      BY <1>3, <3>1
    <3> QED BY <1>4, <1>5, <3>1, <3>2
  <2>2. ASSUME NEW i \in DOMAIN r, NEW j \in DOMAIN r, i < j, {r[i], r[j]} \subseteq Foreign
        PROVE  \E m, n \in DOMAIN Original : m < n /\ Original[m] = r[i] /\ Original[n] = r[j]
    <3>1. g(i) \in DOMAIN q /\ g(j) \in DOMAIN q /\ r[i] = q[g(i)] /\ r[j] = q[g(j)] /\ g(i) < g(j)
      BY <1>1, <1>5, <1>6, <1>7, <2>2
    <3> HIDE DEF g
    <3> QED BY <1>11, <2>2, <3>1 DEF Kept
  <2> QED BY <2>1, <2>2 DEF Kept
<1> QED BY <1>1, <1>3, <1>4, <1>8, <1>10, <1>11 DEF k, r
-----------------------------------------------------------------------------
LEMMA InsertFacts ==
    ASSUME FwTypes, NEW c \in Chains, NEW r \in Rules, Insert(c, r)
    PROVE  /\ chain' \in [Chains -> Seq(Rules \cup Foreign)]
           /\ chain'[c] = <<r>> \o chain[c] /\ \A d \in Chains \ {c} : chain'[d] = chain[d]
<1>1. chain \in [Chains -> Seq(Rules \cup Foreign)] /\ chain[c] \in Seq(Rules \cup Foreign)
  BY DEF FwTypes
<1>2. <<r>> \o chain[c] \in Seq(Rules \cup Foreign)
  BY <1>1, Prepended
<1>3. chain' = [chain EXCEPT ![c] = <<r>> \o chain[c]]
  BY DEF Insert
<1> QED BY <1>1, <1>2, <1>3

LEMMA DeleteFacts ==
    ASSUME FwTypes, NEW c \in Chains, NEW k, Delete(c, k)
    PROVE  /\ chain' \in [Chains -> Seq(Rules \cup Foreign)]
           /\ k \in DOMAIN chain[c] => chain'[c] = RemoveAt(chain[c], k)
           /\ \A d \in Chains \ {c} : chain'[d] = chain[d]
<1>1. chain \in [Chains -> Seq(Rules \cup Foreign)] /\ chain[c] \in Seq(Rules \cup Foreign)
  BY DEF FwTypes
<1>2. chain' = [chain EXCEPT ![c] = IF k \in DOMAIN chain[c] THEN RemoveAt(chain[c], k) ELSE chain[c]]
  BY DEF Delete
<1>3. k \in DOMAIN chain[c] => RemoveAt(chain[c], k) \in Seq(Rules \cup Foreign)
  BY <1>1, SeqShape, WithoutOne
<1> QED BY <1>1, <1>2, <1>3

LEMMA FwTypesInit == FirewallInit => FwTypes
<1> SUFFICES ASSUME FirewallInit PROVE FwTypes
  OBVIOUS
<1>1. Original \in Seq(Rules \cup Foreign)
  <2>1. Original \in Seq(Foreign)
    BY LaidOut DEF Original
  <2> QED BY <2>1
<1>2. loop \in Operations({"idle", "write", "list", "delete", "revoke"}, Rules \cup {NoRule})
  BY DEF FirewallInit, Idle, Walk, Operations, Chains
<1>3. sweep \in [Sweeps -> Operations({"ready", "list", "delete", "revoke", "ended"}, {NoRule})]
  BY DEF FirewallInit, Walk, Operations, Chains
<1>4. loop.pc = "idle" /\ loop.rule = NoRule /\ \A s \in Sweeps : sweep[s].at = "INPUT"
  BY DEF FirewallInit, Idle, Walk
<1>5. fwFaults \in 0..MaxFwFaults /\ disturbed \in BOOLEAN
  <2>1. fwFaults = 0
    BY DEF FirewallInit
  <2>2. fwFaults \in 0..MaxFwFaults
    BY <2>1
  <2>3. disturbed = FALSE
    BY DEF FirewallInit
  <2>4. disturbed \in BOOLEAN
    BY <2>3
  <2> QED BY <2>2, <2>4
<1> QED BY <1>1, <1>2, <1>3, <1>4, <1>5 DEF FirewallInit, FwTypes

\* Types of the steps that begin an operation or end one, and of the failures.
LEMMA LoopTypes ==
    ASSUME FwTypes, NEW r \in Rules, Begin(r) \/ TimerFires(r) \/ Revert(r)
    PROVE  FwTypes'
<1>1. loop' \in {Walk("write", r, "INPUT", {}, 0), Starting(r)}
  BY DEF Begin, TimerFires, Revert
<1>2. /\ loop' \in Operations({"idle", "write", "list", "delete", "revoke"}, Rules \cup {NoRule})
      /\ loop'.pc # "idle" /\ loop'.rule = r
  BY <1>1 DEF Walk, Starting, Operations, Chains
<1>3. r # NoRule
  BY FwConstants
<1> QED BY <1>2, <1>3 DEF FwTypes, Begin, TimerFires, Revert

LEMMA FaultCounted == FwTypes /\ FwFault => fwFaults' \in 0..MaxFwFaults
BY DEF FwTypes, FwFault

LEMMA LoopStepTypes ==
    ASSUME FwTypes, LoopStep
    PROVE  FwTypes'
<1>1. /\ loop \in Operations({"idle", "write", "list", "delete", "revoke"}, Rules \cup {NoRule})
      /\ loop.pc # "idle"
  BY DEF FwTypes, LoopStep, WriteLine, WriteFails, Writing, Written, List, ListFails, DeleteLine,
         DeleteFails, ChainDone, Revoked
<1>2. loop.rule \in Rules /\ loop.at \in Chains /\ loop.deleted \in Nat /\ loop.lines \in SUBSET Nat
  BY <1>1 DEF FwTypes, Operations
<1>3. UNCHANGED sweep /\ disturbed' \in BOOLEAN
  BY DEF FwTypes, LoopStep, WriteLine, WriteFails, Writing, Written, List, ListFails, DeleteLine,
         DeleteFails, ChainDone, Revoked
<1>4. fwFaults' \in 0..MaxFwFaults
  BY FaultCounted DEF FwTypes, LoopStep, WriteLine, WriteFails, Writing, Written, List, ListFails,
                      DeleteLine, DeleteFails, ChainDone, Revoked
<1>5. chain' \in [Chains -> Seq(Rules \cup Foreign)]
  <2>1. Target \in Chains
    BY DEF Target, Chains
  <2>2. chain' = chain \/ Insert(Target, loop.rule) \/ Delete(loop.at, NextLine(loop))
    BY DEF LoopStep, WriteLine, WriteFails, Written, List, ListFails, DeleteLine,
           DeleteFails, ChainDone, Revoked
  <2> QED BY <1>2, <2>1, <2>2, InsertFacts, DeleteFacts DEF FwTypes
<1>6. known' \in [Rules -> {"none", "active", "revoked"}]
  BY DEF FwTypes, LoopStep, WriteLine, WriteFails, Written, Noted, List, ListFails, DeleteLine,
         DeleteFails, ChainDone, Revoked
<1>7. timers' \subseteq Rules \ Isolations
  BY <1>2 DEF FwTypes, LoopStep, WriteLine, WriteFails, Written, Timers, List, ListFails, DeleteLine,
         DeleteFails, ChainDone, Revoked
<1>8. /\ loop' \in Operations({"idle", "write", "list", "delete", "revoke"}, Rules \cup {NoRule})
      /\ loop'.pc = "idle" <=> loop'.rule = NoRule
  <2>0. loop.rule # NoRule
    BY <1>2, FwConstants
  <2>1. Idle \in Operations({"idle", "write", "list", "delete", "revoke"}, Rules \cup {NoRule})
        /\ Idle.pc = "idle" /\ Idle.rule = NoRule
    BY DEF Idle, Walk, Operations, Chains
  <2>2. CASE WriteLine
    <3>1. loop.deleted + 1 \in Nat
      BY <1>2
    <3> QED BY <1>1, <1>2, <2>0, <2>2, <3>1 DEF WriteLine, Operations
  <2>3. CASE WriteFails \/ Written \/ Revoked
    <3>1. loop.deleted + 1 \in Nat
      BY <1>2
    <3>2. loop' = Idle \/ loop' = [loop EXCEPT !.deleted = loop.deleted + 1]
      BY <2>3 DEF WriteFails, Written, Revoked
    <3> QED BY <1>1, <1>2, <2>0, <2>1, <3>1, <3>2 DEF Operations
  <2>4. CASE List
    <3>1. chain[loop.at] \in Seq(Rules \cup Foreign) /\ LinesOf(loop.at, {loop.rule}) \subseteq Nat
      BY <1>2, NumbersFacts DEF FwTypes, LinesOf, NumbersIn
    <3> QED BY <1>1, <1>2, <2>0, <2>4, <3>1 DEF List, Listed, Operations
  <2>5. CASE ListFails \/ ChainDone
    BY <1>1, <1>2, <2>0, <2>5 DEF ListFails, ChainDone, Further, Operations, Chains
  <2>6. CASE DeleteLine
    <3>1. Cardinality({NextLine(loop)} \cap DOMAIN chain[loop.at]) \in Nat
      <4>1. IsFiniteSet({NextLine(loop)})
        BY FS_Singleton
      <4> QED BY <4>1, FS_Subset, FS_CardinalityType
    <3>2. loop.deleted + Cardinality({NextLine(loop)} \cap DOMAIN chain[loop.at]) \in Nat
      BY <1>2, <3>1
    <3> QED BY <1>1, <1>2, <2>0, <2>6, <3>2 DEF DeleteLine, Operations
  <2>7. CASE DeleteFails
    BY <1>1, <1>2, <2>0, <2>7 DEF DeleteFails, Operations
  <2> QED BY <2>2, <2>3, <2>4, <2>5, <2>6, <2>7 DEF LoopStep
<1> QED BY <1>3, <1>4, <1>5, <1>6, <1>7, <1>8 DEF FwTypes

LEMMA SweepTypes ==
    ASSUME FwTypes, NEW s \in Sweeps, SweepStarts(s) \/ SweepStep(s) \/ SweepFails(s)
    PROVE  FwTypes'
<1> DEFINE Ops == Operations({"ready", "list", "delete", "revoke", "ended"}, {NoRule})
<1>1. sweep \in [Sweeps -> Ops] /\ sweep[s] \in Ops
  BY DEF FwTypes
<1>2. sweep[s].at \in Chains /\ sweep[s].lines \in SUBSET Nat /\ sweep[s].deleted \in Nat
  BY <1>1 DEF Operations
<1>3. UNCHANGED <<timers, loop>> /\ disturbed' \in BOOLEAN
  BY DEF FwTypes, SweepStarts, SweepStep, SweepLists, SweepDeletes, SweepTurns, SweepEnds, SweepFails
<1>4. fwFaults' \in 0..MaxFwFaults
  BY FaultCounted DEF FwTypes, SweepStarts, SweepStep, SweepLists, SweepDeletes, SweepTurns, SweepEnds, SweepFails
<1>5. chain' \in [Chains -> Seq(Rules \cup Foreign)]
  <2>1. chain' = chain \/ Delete(sweep[s].at, NextLine(sweep[s]))
    BY DEF SweepStarts, SweepStep, SweepLists, SweepDeletes, SweepTurns, SweepEnds, SweepFails
  <2> QED BY <1>2, <2>1, DeleteFacts DEF FwTypes
<1>6. known' \in [Rules -> {"none", "active", "revoked"}]
  BY DEF FwTypes, SweepStarts, SweepStep, SweepLists, SweepDeletes, SweepTurns, SweepEnds, SweepFails
<1>7. PICK w : w \in Ops /\ w.pc # "ready" /\ Swept(s, w)
  <2>1. CASE SweepStarts(s)
    <3>1. [sweep[s] EXCEPT !.pc = "list"] \in Ops /\ [sweep[s] EXCEPT !.pc = "list"].pc = "list"
      BY <1>1 DEF Operations
    <3> QED BY <2>1, <3>1 DEF SweepStarts
  <2>2. CASE SweepLists(s)
    <3>1. chain[sweep[s].at] \in Seq(Rules \cup Foreign) /\ LinesOf(sweep[s].at, Rules) \subseteq Nat
      BY <1>2, NumbersFacts DEF FwTypes, LinesOf, NumbersIn
    <3>2. Listed(sweep[s], Rules) \in Ops /\ Listed(sweep[s], Rules).pc = "delete"
      BY <1>1, <3>1 DEF Listed, Operations
    <3> QED BY <2>2, <3>2 DEF SweepLists
  <2>3. Further(sweep[s]) \in Ops /\ Further(sweep[s]).pc \in {"list", "revoke"}
    BY <1>1 DEF Further, Operations, Chains
  <2>4. sweep[s].pc = "delete" =>
          LET w == [sweep[s] EXCEPT !.lines = sweep[s].lines \ {NextLine(sweep[s])}] IN w \in Ops /\ w.pc = "delete"
    BY <1>1, <1>2 DEF Operations
  <2>5. CASE SweepDeletes(s)
    BY <2>4, <2>5 DEF SweepDeletes
  <2>6. CASE SweepTurns(s)
    BY <2>3, <2>6 DEF SweepTurns
  <2>7. CASE SweepFails(s)
    BY <2>3, <2>4, <2>7 DEF SweepFails
  <2>8. CASE SweepEnds(s)
    <3>1. [sweep[s] EXCEPT !.pc = "ended"] \in Ops /\ [sweep[s] EXCEPT !.pc = "ended"].pc = "ended"
      BY <1>1 DEF Operations
    <3> QED BY <2>8, <3>1 DEF SweepEnds
  <2> QED BY <2>1, <2>2, <2>5, <2>6, <2>7, <2>8 DEF SweepStep
<1> HIDE DEF Ops
<1>8. sweep' \in [Sweeps -> Ops] /\ \A u \in Sweeps : sweep'[u].pc = "ready" => sweep'[u].at = "INPUT"
  <2>1. sweep' = [sweep EXCEPT ![s] = w]
    BY <1>7 DEF Swept
  <2> QED BY <1>1, <1>7, <2>1 DEF FwTypes
<1> QED BY <1>3, <1>4, <1>5, <1>6, <1>8 DEF FwTypes, Ops
-----------------------------------------------------------------------------
\* Where a rule has no line.
LEMMA NoLines ==
    ASSUME FwTypes, NEW own, \A c \in Chains : NumbersIn(chain[c], own) = {}, NEW r \in own
    PROVE  ~Present(r)
<1> SUFFICES ASSUME NEW c \in Chains, r \in Range(chain[c]) PROVE FALSE
  BY DEF Present
<1>1. chain[c] \in Seq(Rules \cup Foreign)
  BY DEF FwTypes
<1> QED BY <1>1, NumbersFacts

\* An operation that knows the chains goes on from one to the next.
LEMMA FurtherKnows ==
    ASSUME NEW pcs, NEW rules, NEW w \in Operations(pcs, rules), NEW own, NEW ch,
           w.pc = "delete", w.lines = {}, Knows(w, own, ch)
    PROVE  Knows(Further(w), own, ch) /\ Further(w).pc \in {"list", "revoke"} /\ Further(w).rule = w.rule
<1>1. w.at \in Chains /\ NumbersIn(ch[w.at], own) = {}
  BY DEF Operations, Knows
<1>2. CASE w.at = "INPUT"
  <2>1. Further(w).pc = "list" /\ Further(w).at = "OUTPUT" /\ Further(w).rule = w.rule
    BY <1>2 DEF Further, Operations
  <2> QED BY <1>1, <1>2, <2>1 DEF Knows
<1>3. CASE w.at = "OUTPUT"
  <2>1. Further(w).pc = "revoke" /\ Further(w).rule = w.rule
    BY <1>3 DEF Further, Operations, Chains
  <2>2. NumbersIn(ch["INPUT"], own) = {} /\ NumbersIn(ch["OUTPUT"], own) = {}
    BY <1>1, <1>3 DEF Knows
  <2> QED BY <2>1, <2>2 DEF Knows, Chains
<1> QED BY <1>1, <1>2, <1>3 DEF Chains

\* One deletion by number, of the last of the lines noted.
LEMMA DeletesOwn ==
    ASSUME FwTypes, \A c \in Chains : Kept(chain[c]), NEW own \in SUBSET Rules,
           NEW pcs, NEW rules, NEW w \in Operations(pcs, rules),
           w.pc = "delete", w.lines # {}, Knows(w, own, chain), Delete(w.at, NextLine(w))
    PROVE  /\ Knows([w EXCEPT !.lines = w.lines \ {NextLine(w)}], own, chain')
           /\ \A c \in Chains : Kept(chain'[c]) /\ Range(chain'[c]) \subseteq Range(chain[c])
<1> DEFINE c == w.at
           q == chain[c]
           k == NextLine(w)
           v == [w EXCEPT !.lines = w.lines \ {k}]
<1>1. c \in Chains /\ q \in Seq(Rules \cup Foreign) /\ w.lines = NumbersIn(q, own)
  BY DEF Operations, FwTypes, Knows
<1>2. k = Max(NumbersIn(q, own)) /\ NumbersIn(q, own) # {}
  BY <1>1 DEF NextLine
<1>3. /\ k \in DOMAIN q
      /\ NumbersIn(RemoveAt(q, k), own) = NumbersIn(q, own) \ {k} /\ Range(RemoveAt(q, k)) \subseteq Range(q)
      /\ Kept(q) => Kept(RemoveAt(q, k))
  BY <1>1, <1>2, LastDeleted, ZenonT(60)
<1>4. chain'[c] = RemoveAt(q, k) /\ \A d \in Chains \ {c} : chain'[d] = chain[d]
  BY <1>1, <1>3, DeleteFacts
<1>5. v.pc = "delete" /\ v.at = c /\ v.lines = NumbersIn(q, own) \ {k}
  BY <1>1 DEF Operations
<1>6. v.at = "OUTPUT" => NumbersIn(chain'["INPUT"], own) = {}
  <2> SUFFICES ASSUME c = "OUTPUT" PROVE NumbersIn(chain'["INPUT"], own) = {}
    BY <1>5
  <2>1. NumbersIn(chain["INPUT"], own) = {} /\ "INPUT" \in Chains \ {c}
    BY DEF Knows, Chains
  <2> QED BY <1>4, <2>1
<1> HIDE DEF v, k, c
<1>7. Knows(v, own, chain')
  BY <1>3, <1>4, <1>5, <1>6 DEF Knows
<1>8. \A d \in Chains : Kept(chain'[d]) /\ Range(chain'[d]) \subseteq Range(chain[d])
  <2> SUFFICES ASSUME NEW d \in Chains
               PROVE  Kept(chain'[d]) /\ Range(chain'[d]) \subseteq Range(chain[d])
    OBVIOUS
  <2>1. CASE d = c
    BY <1>1, <1>3, <1>4, <2>1
  <2>2. CASE d # c
    BY <1>4, <2>2
  <2> QED BY <2>1, <2>2
<1> QED BY <1>7, <1>8 DEF v, k, c
-----------------------------------------------------------------------------
LEMMA FwInvInit == FirewallInit => FwInv
<1> SUFFICES ASSUME FirewallInit PROVE Undisturbed
  BY FwTypesInit DEF FwInv
<1>1. loop.pc = "idle" /\ \A s \in Sweeps : sweep[s].pc = "ready"
  BY DEF FirewallInit, Idle, Walk
<1>2. Alone /\ Writes
  BY <1>1 DEF Alone, Writes, Sweeping
<1>3. Knows(loop, {loop.rule}, chain) /\ \A s \in Sweeps : Knows(sweep[s], Rules, chain)
  BY <1>1 DEF Knows
<1>4. /\ Original \in Seq(Foreign) /\ IsInjective(Original)
      /\ \A x \in Foreign : \E i \in DOMAIN Original : Original[i] = x
  BY LaidOut DEF Original
<1>5. ASSUME NEW c \in Chains PROVE chain[c] = Original
  BY DEF FirewallInit
<1>6. Range(Original) = Foreign
  <2>1. Range(Original) \subseteq Foreign
    BY <1>4, SeqShape
  <2>2. Foreign \subseteq Range(Original)
    BY <1>4 DEF Range
  <2> QED BY <2>1, <2>2
<1>7. Kept(Original)
  BY <1>6 DEF Kept
<1>8. ASSUME NEW r \in Rules PROVE ~Present(r)
  BY <1>5, <1>6, FwConstants DEF Present
<1> QED BY <1>2, <1>3, <1>5, <1>7, <1>8 DEF Undisturbed

\* What may begin, begins alone.
LEMMA BeginKeeps ==
    ASSUME FwInv, ~disturbed', NEW r \in Rules, Begin(r) \/ TimerFires(r) \/ Revert(r)
    PROVE  Undisturbed'
<1>1. /\ ~disturbed /\ Sweeping = {} /\ Undisturbed /\ FwTypes /\ loop.pc = "idle"
      /\ UNCHANGED <<chain, known, sweep>>
  BY DEF FwInv, Begin, TimerFires, Revert
<1>2. loop.rule = NoRule
  BY <1>1 DEF FwTypes
<1>3. \/ loop' = Walk("write", r, "INPUT", {}, 0) /\ known[r] = "none"
      \/ loop' = Starting(r)
  BY DEF Begin, TimerFires, Revert
<1>4. loop'.rule = r /\ (loop'.pc = "write" => known[r] = "none" /\ loop'.lines = {} /\ loop'.deleted = 0)
      /\ loop'.pc \in {"write", "list"} /\ loop'.at = "INPUT"
  BY <1>3 DEF Walk, Starting
<1>5. Sweeping' = Sweeping
  BY <1>1 DEF Sweeping
<1>6. Alone' /\ Writes'
  <2>1. 1..0 = {} /\ 0 <= Lines(r)
    <3>1. 1..0 = {}
      OBVIOUS
    <3>2. Lines(r) \in Nat
      BY FwConstants
    <3> QED BY <3>1, <3>2
  <2>2. Writes'
    BY <1>1, <1>4, <2>1 DEF Writes, Lines
  <2> QED BY <1>1, <1>5, <2>2 DEF Alone
<1>7. Knows(loop', {loop'.rule}, chain') /\ \A s \in Sweeps : Knows(sweep'[s], Rules, chain')
  <2>1. Knows(loop', {loop'.rule}, chain')
    BY <1>4 DEF Knows
  <2>2. \A s \in Sweeps : Knows(sweep'[s], Rules, chain')
    BY <1>1 DEF Undisturbed
  <2> QED BY <2>1, <2>2
<1>8. ASSUME NEW q \in Rules, Present(q) PROVE known[q] = "active"
  BY <1>1, <1>2, <1>8, FwConstants DEF Undisturbed
<1>9. \A c \in Chains : Kept(chain'[c])
  BY <1>1 DEF Undisturbed
<1>10. \A q \in Rules : Present(q)' <=> Present(q)
  BY <1>1 DEF Present
<1>11. \A q \in Rules : known'[q] = "revoked" => ~Present(q)'
  BY <1>1, <1>10 DEF Undisturbed
<1>12. \A q \in Rules : Present(q)' => known'[q] = "active"
  BY <1>1, <1>8, <1>10
<1> QED BY <1>6, <1>7, <1>9, <1>11, <1>12 DEF Undisturbed
-----------------------------------------------------------------------------
\* The operation of the event loop that is under way is alone.
LEMMA LoopAlone ==
    ASSUME FwInv, ~disturbed, loop.pc # "idle", UNCHANGED sweep
    PROVE  /\ Undisturbed /\ FwTypes /\ Sweeping = {} /\ Sweeping' = {} /\ Alone'
           /\ loop.rule \in Rules /\ loop.at \in Chains /\ loop.deleted \in Nat
           /\ loop \in Operations({"idle", "write", "list", "delete", "revoke"}, Rules \cup {NoRule})
           /\ \A s \in Sweeps : Knows(sweep'[s], Rules, chain')
           /\ \A r \in Rules : Present(r) => known[r] = "active" \/ loop.rule = r
<1>1. Undisturbed /\ FwTypes /\ Sweeping = {} /\ Sweeping' = {}
  BY DEF FwInv, Undisturbed, Alone, Sweeping
<1>2. loop.rule \in Rules /\ loop.at \in Chains /\ loop.deleted \in Nat
      /\ loop \in Operations({"idle", "write", "list", "delete", "revoke"}, Rules \cup {NoRule})
  BY <1>1 DEF FwTypes, Operations
<1>3. Alone'
  BY <1>1 DEF Alone
<1>4. \A s \in Sweeps : Knows(sweep'[s], Rules, chain')
  BY <1>1 DEF Sweeping, Knows
<1>5. \A r \in Rules : Present(r) => known[r] = "active" \/ loop.rule = r
  BY <1>1 DEF Undisturbed
<1> QED BY <1>1, <1>2, <1>3, <1>4, <1>5

LEMMA WriteLineKeeps == FwInv /\ ~disturbed' /\ WriteLine => Undisturbed'
<1> SUFFICES ASSUME FwInv, ~disturbed', WriteLine PROVE Undisturbed'
  OBVIOUS
<1> DEFINE r == loop.rule
<1>1. ~disturbed /\ loop.pc = "write" /\ UNCHANGED <<known, sweep>> /\ Insert(Target, r)
  BY DEF WriteLine, Writing
<1>2. /\ Undisturbed /\ FwTypes /\ Alone' /\ r \in Rules /\ loop.deleted \in Nat
      /\ loop \in Operations({"idle", "write", "list", "delete", "revoke"}, Rules \cup {NoRule})
      /\ \A s \in Sweeps : Knows(sweep'[s], Rules, chain')
      /\ \A q \in Rules : Present(q) => known[q] = "active" \/ loop.rule = q
  BY <1>1, LoopAlone
<1>3. PICK c \in Chains : Insert(c, r)
  BY <1>1 DEF Target, Chains
<1>4. chain'[c] = <<r>> \o chain[c] /\ \A d \in Chains \ {c} : chain'[d] = chain[d]
  BY <1>2, <1>3, InsertFacts
<1>5. chain[c] \in Seq(Rules \cup Foreign)
  BY <1>2 DEF FwTypes
<1>6. loop' = [loop EXCEPT !.deleted = loop.deleted + 1, !.lines = loop.lines \cup {loop.deleted + 1}]
  BY DEF WriteLine
<1>7. loop'.pc = "write" /\ loop'.rule = r /\ loop'.deleted = loop.deleted + 1
      /\ loop'.lines = loop.lines \cup {loop.deleted + 1}
  BY <1>1, <1>2, <1>6 DEF Operations
<1>8. Writes'
  <2>1. known[r] = "none" /\ loop.lines = 1..loop.deleted /\ loop.deleted < Lines(r)
    BY <1>1, <1>2 DEF Undisturbed, Writes, WriteLine, Writing
  <2>2. Lines(r) \in Nat
    BY <1>2, FwConstants
  <2>3. loop.deleted + 1 <= Lines(r)
    BY <1>2, <2>1, <2>2
  <2>4. loop'.lines = 1..loop'.deleted
    <3>1. \A n \in Nat : (1..n) \cup {n + 1} = 1..n + 1
      OBVIOUS
    <3> QED BY <1>2, <1>7, <2>1, <3>1
  <2>5. known'[loop'.rule] = "none"
    BY <1>1, <1>7, <2>1
  <2>6. loop'.deleted <= Lines(loop'.rule)
    BY <1>7, <2>3
  <2> QED BY <2>4, <2>5, <2>6 DEF Writes, Lines
<1>9. Knows(loop', {loop'.rule}, chain')
  BY <1>7 DEF Knows
<1>10. ASSUME NEW d \in Chains PROVE Kept(chain'[d]) /\ Range(chain'[d]) \subseteq Range(chain[d]) \cup {r}
  <2>1. CASE d = c
    <3>1. Kept(chain[c])
      BY <1>2 DEF Undisturbed
    <3>2. Kept(<<r>> \o chain[c])
      BY <1>2, <1>5, <3>1, HeadKeeps
    <3>3. Range(<<r>> \o chain[c]) = Range(chain[c]) \cup {r}
      BY <1>2, <1>5, Prepended
    <3> QED BY <1>4, <2>1, <3>2, <3>3
  <2>2. CASE d # c
    BY <1>2, <1>4, <2>2 DEF Undisturbed
  <2> QED BY <2>1, <2>2
<1>11. \A q \in Rules : Present(q)' => q = r \/ Present(q)
  BY <1>10 DEF Present
<1>12. known[r] = "none"
  BY <1>1, <1>2 DEF Undisturbed, Writes
<1>13. \A q \in Rules : known'[q] = "revoked" => ~Present(q)'
  BY <1>1, <1>2, <1>11, <1>12 DEF Undisturbed
<1>14. \A q \in Rules : Present(q)' => known'[q] = "active" \/ loop'.rule = q
  BY <1>1, <1>2, <1>7, <1>11
<1> QED BY <1>2, <1>8, <1>9, <1>10, <1>13, <1>14 DEF Undisturbed

\* The entry of a rule that has been written, or of one whose lines are gone.
LEMMA LoopEnds ==
    ASSUME FwInv, ~disturbed', Written \/ Revoked
    PROVE  Undisturbed'
<1> DEFINE r == loop.rule
<1>1. ~disturbed /\ loop.pc \in {"write", "revoke"} /\ UNCHANGED <<chain, sweep>> /\ loop' = Idle
  BY DEF Written, Revoked
<1>2. /\ Undisturbed /\ FwTypes /\ Alone' /\ r \in Rules
      /\ \A s \in Sweeps : Knows(sweep'[s], Rules, chain')
      /\ \A q \in Rules : Present(q) => known[q] = "active" \/ loop.rule = q
  BY <1>1, LoopAlone
<1>3. loop'.pc = "idle"
  BY <1>1 DEF Idle, Walk
<1>4. Writes' /\ Knows(loop', {loop'.rule}, chain')
  <2>1. Writes'
    BY <1>3 DEF Writes
  <2> QED BY <1>3, <2>1 DEF Knows
<1>5. \A c \in Chains : Kept(chain'[c])
  BY <1>1, <1>2 DEF Undisturbed
<1>6. \A q \in Rules : Present(q)' <=> Present(q)
  BY <1>1 DEF Present
<1>7. known \in [Rules -> {"none", "active", "revoked"}]
  BY <1>2 DEF FwTypes
<1>8. CASE Written
  <2>1. loop.lines # {}
    <3>1. loop.lines = 1..Lines(r)
      BY <1>2, <1>8 DEF Written, Undisturbed, Writes
    <3>2. Lines(r) \in Nat \ {0}
      BY <1>2, FwConstants
    <3>3. 1 \in 1..Lines(r)
      BY <3>2
    <3> QED BY <3>1, <3>3
  <2>2. known' = [known EXCEPT ![r] = "active"]
    BY <1>8, <2>1 DEF Written, Noted
  <2>3. \A q \in Rules : known'[q] = "revoked" => ~Present(q)'
    BY <1>2, <1>6, <1>7, <2>2 DEF Undisturbed
  <2>4. \A q \in Rules : Present(q)' => known'[q] = "active"
    BY <1>2, <1>6, <1>7, <2>2
  <2> QED BY <1>2, <1>4, <1>5, <2>3, <2>4 DEF Undisturbed
<1>9. CASE Revoked
  <2>1. ~Present(r)
    <3>1. \A c \in Chains : NumbersIn(chain[c], {r}) = {}
      BY <1>2, <1>9 DEF Revoked, Undisturbed, Knows
    <3> QED BY <1>2, <3>1, NoLines
  <2>2. known' = known \/ known' = [known EXCEPT ![r] = "revoked"]
    BY <1>9 DEF Revoked
  <2>3. \A q \in Rules : known'[q] = "revoked" => ~Present(q)'
    BY <1>2, <1>6, <1>7, <2>1, <2>2 DEF Undisturbed
  <2>4. \A q \in Rules : Present(q)' => known'[q] = "active"
    BY <1>2, <1>6, <1>7, <2>1, <2>2
  <2> QED BY <1>2, <1>4, <1>5, <2>3, <2>4 DEF Undisturbed
<1> QED BY <1>8, <1>9

\* The steps of rollback() through the chains.
LEMMA WalkKeeps ==
    ASSUME FwInv, ~disturbed', List \/ DeleteLine \/ ChainDone
    PROVE  Undisturbed'
<1> DEFINE r == loop.rule
           Ops == Operations({"idle", "write", "list", "delete", "revoke"}, Rules \cup {NoRule})
<1>1. ~disturbed /\ loop.pc \in {"list", "delete"} /\ UNCHANGED <<known, sweep>>
  BY DEF List, DeleteLine, ChainDone
<1>2. /\ Undisturbed /\ FwTypes /\ Alone' /\ r \in Rules /\ loop.at \in Chains /\ loop \in Ops
      /\ \A s \in Sweeps : Knows(sweep'[s], Rules, chain')
      /\ \A q \in Rules : Present(q) => known[q] = "active" \/ loop.rule = q
  BY <1>1, LoopAlone
<1>3. Knows(loop, {r}, chain) /\ \A c \in Chains : Kept(chain[c])
  BY <1>2 DEF Undisturbed
<1>4. /\ loop'.pc \in {"list", "delete", "revoke"} /\ loop'.rule = r /\ Knows(loop', {r}, chain')
      /\ \A c \in Chains : Kept(chain'[c]) /\ Range(chain'[c]) \subseteq Range(chain[c])
  <2>1. CASE List
    <3>1. loop' = [loop EXCEPT !.pc = "delete", !.lines = NumbersIn(chain[loop.at], {r})] /\ chain' = chain
      BY <2>1 DEF List, Listed, LinesOf, NumbersIn
    <3>2. loop'.pc = "delete" /\ loop'.rule = r /\ loop'.at = loop.at /\ loop'.lines = NumbersIn(chain[loop.at], {r})
      BY <1>2, <3>1 DEF Operations
    <3>3. loop.at = "OUTPUT" => NumbersIn(chain["INPUT"], {r}) = {}
      BY <1>3, <2>1 DEF Knows, List
    <3>4. Knows(loop', {r}, chain')
      BY <3>1, <3>2, <3>3 DEF Knows
    <3> QED BY <1>3, <3>1, <3>2, <3>4
  <2>2. CASE DeleteLine
    <3>1. loop.pc = "delete" /\ loop.lines # {} /\ Delete(loop.at, NextLine(loop))
      BY <2>2 DEF DeleteLine
    <3> DEFINE v == [loop EXCEPT !.lines = loop.lines \ {NextLine(loop)}]
    <3>2. Knows(v, {r}, chain')
          /\ \A c \in Chains : Kept(chain'[c]) /\ Range(chain'[c]) \subseteq Range(chain[c])
      BY <1>2, <1>3, <3>1, DeletesOwn
    <3>3. loop'.pc = v.pc /\ loop'.at = v.at /\ loop'.lines = v.lines /\ v.pc = "delete" /\ loop'.rule = r
      BY <1>2, <2>2 DEF DeleteLine, Operations
    <3> HIDE DEF v
    <3>4. Knows(loop', {r}, chain')
      BY <3>2, <3>3 DEF Knows
    <3> QED BY <3>2, <3>3, <3>4
  <2>3. CASE ChainDone
    <3>1. loop' = Further(loop) /\ chain' = chain /\ loop.pc = "delete" /\ loop.lines = {}
      BY <2>3 DEF ChainDone
    <3>2. Knows(Further(loop), {r}, chain) /\ Further(loop).pc \in {"list", "revoke"} /\ Further(loop).rule = r
      BY <1>2, <1>3, <3>1, FurtherKnows
    <3>3. loop'.pc \in {"list", "delete", "revoke"} /\ loop'.rule = r /\ Knows(loop', {r}, chain')
      BY <3>1, <3>2
    <3> QED BY <1>3, <3>1, <3>3
  <2> QED BY <2>1, <2>2, <2>3
<1>5. Writes'
  BY <1>4 DEF Writes
<1>6. \A q \in Rules : Present(q)' => Present(q)
  BY <1>4 DEF Present
<1>7. \A q \in Rules : known'[q] = "revoked" => ~Present(q)'
  BY <1>1, <1>2, <1>6 DEF Undisturbed
<1>8. \A q \in Rules : Present(q)' => known'[q] = "active" \/ loop'.rule = q
  BY <1>1, <1>2, <1>4, <1>6
<1> QED BY <1>2, <1>4, <1>5, <1>7, <1>8 DEF Undisturbed
-----------------------------------------------------------------------------
LEMMA SweepStartsKeeps ==
    ASSUME FwInv, ~disturbed', NEW s \in Sweeps, SweepStarts(s)
    PROVE  Undisturbed'
<1>1. /\ ~disturbed /\ loop.pc = "idle" /\ Sweeping = {} /\ sweep[s].pc = "ready"
      /\ UNCHANGED <<chain, known, loop>> /\ Undisturbed /\ FwTypes
  BY DEF SweepStarts, FwInv
<1>2. sweep[s].at = "INPUT" /\ sweep[s] \in Operations({"ready", "list", "delete", "revoke", "ended"}, {NoRule})
  BY <1>1 DEF FwTypes
<1>3. sweep' = [sweep EXCEPT ![s] = [sweep[s] EXCEPT !.pc = "list"]]
  BY DEF SweepStarts, Swept
<1>4. /\ sweep'[s].pc = "list" /\ sweep'[s].at = "INPUT" /\ \A u \in Sweeps \ {s} : sweep'[u] = sweep[u]
  BY <1>1, <1>2, <1>3 DEF FwTypes, Operations
<1>5. Sweeping' = {s}
  BY <1>1, <1>4 DEF Sweeping
<1>6. Alone' /\ Writes' /\ Knows(loop', {loop'.rule}, chain')
  <2>1. Alone'
    BY <1>1, <1>5 DEF Alone
  <2>2. Writes'
    BY <1>1 DEF Writes
  <2>3. Knows(loop', {loop'.rule}, chain')
    BY <1>1 DEF Knows
  <2> QED BY <2>1, <2>2, <2>3
<1>7. \A u \in Sweeps : Knows(sweep'[u], Rules, chain')
  <2> SUFFICES ASSUME NEW u \in Sweeps PROVE Knows(sweep'[u], Rules, chain')
    OBVIOUS
  <2>1. CASE u = s
    BY <1>4, <2>1 DEF Knows
  <2>2. CASE u # s
    BY <1>1, <1>4, <2>2 DEF Undisturbed
  <2> QED BY <2>1, <2>2
<1>8. \A c \in Chains : Kept(chain'[c])
  BY <1>1 DEF Undisturbed
<1>9. \A q \in Rules : known'[q] = "revoked" => ~Present(q)'
  BY <1>1 DEF Undisturbed, Present
<1> QED BY <1>5, <1>6, <1>7, <1>8, <1>9 DEF Undisturbed

LEMMA SweepKeeps ==
    ASSUME FwInv, ~disturbed', NEW s \in Sweeps, SweepStep(s)
    PROVE  Undisturbed'
<1> DEFINE Ops == Operations({"ready", "list", "delete", "revoke", "ended"}, {NoRule})
           w == sweep[s]
<1>1. ~disturbed /\ Undisturbed /\ FwTypes /\ w.pc \in {"list", "delete", "revoke"} /\ UNCHANGED loop
  BY DEF SweepStep, SweepLists, SweepDeletes, SweepTurns, SweepEnds, FwInv
<1>2. /\ s \in Sweeping /\ loop.pc = "idle" /\ w \in Ops /\ w.at \in Chains /\ sweep \in [Sweeps -> Ops]
      /\ \A u \in Sweeps \ {s} : u \notin Sweeping
  BY <1>1 DEF Sweeping, Undisturbed, Alone, FwTypes, Operations
<1>3. Knows(w, Rules, chain) /\ \A c \in Chains : Kept(chain[c])
  BY <1>1 DEF Undisturbed
<1>4. Writes' /\ Knows(loop', {loop'.rule}, chain')
  <2>1. Writes'
    BY <1>1, <1>2 DEF Writes
  <2>2. Knows(loop', {loop'.rule}, chain')
    BY <1>1, <1>2 DEF Knows
  <2> QED BY <2>1, <2>2
<1>5. \A u \in Sweeps \ {s} : sweep'[u] = sweep[u]
  BY <1>2 DEF SweepStep, SweepLists, SweepDeletes, SweepTurns, SweepEnds, Swept
<1>6. Alone' /\ \A u \in Sweeps \ {s} : Knows(sweep'[u], Rules, chain')
  <2>1. Sweeping' \subseteq {s}
    BY <1>2, <1>5 DEF Sweeping
  <2>2. Alone'
    BY <1>1, <1>2, <2>1 DEF Alone
  <2>3. \A u \in Sweeps \ {s} : Knows(sweep'[u], Rules, chain')
    BY <2>1 DEF Sweeping, Knows
  <2> QED BY <2>2, <2>3
<1>7. CASE SweepEnds(s)
  <2>1. /\ sweep'[s].pc = "ended" /\ chain' = chain /\ w.pc = "revoke"
        /\ known' = [r \in Rules |-> IF known[r] = "none" THEN "none" ELSE "revoked"]
    BY <1>2, <1>7 DEF SweepEnds, Swept, Operations
  <2>2. Knows(sweep'[s], Rules, chain')
    BY <2>1 DEF Knows
  <2>3. \A q \in Rules : ~Present(q)
    BY <1>1, <1>3, <2>1, NoLines DEF Knows
  <2>4. \A q \in Rules : ~Present(q)'
    BY <2>1, <2>3 DEF Present
  <2>5. \A u \in Sweeps : Knows(sweep'[u], Rules, chain')
    BY <1>6, <2>2
  <2> QED BY <1>3, <1>4, <1>6, <2>1, <2>4, <2>5 DEF Undisturbed
<1>8. CASE SweepLists(s) \/ SweepDeletes(s) \/ SweepTurns(s)
  <2>0. UNCHANGED known
    BY <1>8 DEF SweepLists, SweepDeletes, SweepTurns
  <2>1. /\ sweep'[s].pc \in {"list", "delete", "revoke"} /\ Knows(sweep'[s], Rules, chain')
        /\ \A c \in Chains : Kept(chain'[c]) /\ Range(chain'[c]) \subseteq Range(chain[c])
    <3>1. CASE SweepLists(s)
      <4>1. sweep' = [sweep EXCEPT ![s] = [w EXCEPT !.pc = "delete", !.lines = NumbersIn(chain[w.at], Rules)]]
            /\ chain' = chain /\ w.pc = "list"
        BY <3>1 DEF SweepLists, Swept, Listed, LinesOf, NumbersIn
      <4>2. sweep'[s].pc = "delete" /\ sweep'[s].at = w.at /\ sweep'[s].lines = NumbersIn(chain[w.at], Rules)
        BY <1>2, <4>1 DEF Operations
      <4>3. w.at = "OUTPUT" => NumbersIn(chain["INPUT"], Rules) = {}
        BY <1>3, <4>1 DEF Knows
      <4>4. Knows(sweep'[s], Rules, chain')
        BY <4>1, <4>2, <4>3 DEF Knows
      <4> QED BY <1>3, <4>1, <4>2, <4>4
    <3>2. CASE SweepDeletes(s)
      <4> DEFINE v == [w EXCEPT !.lines = w.lines \ {NextLine(w)}]
      <4>1. w.pc = "delete" /\ w.lines # {} /\ Delete(w.at, NextLine(w)) /\ Swept(s, v)
        BY <3>2 DEF SweepDeletes
      <4>2. Knows(v, Rules, chain')
            /\ \A c \in Chains : Kept(chain'[c]) /\ Range(chain'[c]) \subseteq Range(chain[c])
        BY <1>1, <1>2, <1>3, <4>1, DeletesOwn
      <4>3. v.pc = "delete"
        BY <1>2, <4>1 DEF Operations
      <4>4. sweep'[s] = v
        BY <1>2, <4>1 DEF Swept
      <4> HIDE DEF v
      <4> QED BY <4>2, <4>3, <4>4
    <3>3. CASE SweepTurns(s)
      <4>1. sweep'[s] = Further(w) /\ chain' = chain /\ w.pc = "delete" /\ w.lines = {}
        BY <1>2, <3>3 DEF SweepTurns, Swept
      <4>2. Knows(Further(w), Rules, chain) /\ Further(w).pc \in {"list", "revoke"}
        BY <1>2, <1>3, <4>1, FurtherKnows
      <4>3. sweep'[s].pc \in {"list", "delete", "revoke"} /\ Knows(sweep'[s], Rules, chain')
        BY <4>1, <4>2
      <4> QED BY <1>3, <4>1, <4>3
    <3> QED BY <1>8, <3>1, <3>2, <3>3
  <2>2. \A u \in Sweeps : Knows(sweep'[u], Rules, chain')
    BY <1>6, <2>1
  <2>3. s \in Sweeping'
    BY <2>1 DEF Sweeping
  <2>4. \A q \in Rules : Present(q)' => Present(q)
    BY <2>1 DEF Present
  <2>5. \A q \in Rules : known'[q] = "revoked" => ~Present(q)'
    BY <1>1, <2>0, <2>4 DEF Undisturbed
  <2> QED BY <1>4, <1>6, <2>1, <2>2, <2>3, <2>5 DEF Undisturbed
<1> QED BY <1>7, <1>8 DEF SweepStep
-----------------------------------------------------------------------------
LEMMA FwInvStep == FwInv /\ [FirewallNext]_firewallVars => FwInv'
<1> SUFFICES ASSUME FwInv, [FirewallNext]_firewallVars PROVE FwInv'
  OBVIOUS
<1>0. FwTypes
  BY DEF FwInv
<1>1. ASSUME NEW r \in Rules, Begin(r) \/ TimerFires(r) \/ Revert(r) PROVE FwInv'
  BY <1>0, <1>1, LoopTypes, BeginKeeps DEF FwInv
<1>2. ASSUME LoopStep PROVE FwInv'
  <2>1. FwTypes'
    BY <1>0, <1>2, LoopStepTypes
  <2>2. ~disturbed' => ~(WriteFails \/ ListFails \/ DeleteFails)
    BY DEF WriteFails, ListFails, DeleteFails
  <2>3. ~disturbed' => Undisturbed'
    BY <1>2, <2>2, WriteLineKeeps, LoopEnds, WalkKeeps DEF LoopStep
  <2> QED BY <2>1, <2>3 DEF FwInv
<1>3. ASSUME NEW s \in Sweeps, SweepStarts(s) \/ SweepStep(s) \/ SweepFails(s) PROVE FwInv'
  <2>1. FwTypes'
    BY <1>0, <1>3, SweepTypes
  <2>2. ~disturbed' => ~SweepFails(s)
    BY DEF SweepFails
  <2>3. ~disturbed' => Undisturbed'
    BY <1>3, <2>2, SweepStartsKeeps, SweepKeeps
  <2> QED BY <2>1, <2>3 DEF FwInv
<1>4. ASSUME UNCHANGED firewallVars PROVE FwInv'
  <2>1. FwTypes'
    BY <1>0, <1>4 DEF firewallVars, FwTypes
  <2>2. Undisturbed => Undisturbed'
    BY <1>4 DEF firewallVars, Undisturbed, Alone, Writes, Sweeping, Present, Knows
  <2> QED BY <1>4, <2>1, <2>2 DEF FwInv, firewallVars
<1> QED BY <1>1, <1>2, <1>3, <1>4 DEF FirewallNext

LEMMA FwInvSound == FwInv => FirewallSound
<1> SUFFICES ASSUME FwInv PROVE FirewallSound
  OBVIOUS
<1>1. FirewallTypeOK
  <2>1. \A c \in Chains : Range(chain[c]) \subseteq Rules \cup Foreign
    BY SeqShape DEF FwInv, FwTypes
  <2>2. loop.pc \in {"idle", "write", "list", "delete", "revoke"} /\ (loop.pc # "idle" => loop.rule \in Rules)
    BY DEF FwInv, FwTypes, Operations
  <2>3. \A s \in Sweeps : sweep[s].pc \in {"ready", "list", "delete", "revoke", "ended"}
    BY DEF FwInv, FwTypes, Operations
  <2> QED BY <2>1, <2>2, <2>3 DEF FwInv, FwTypes, FirewallTypeOK
<1>2. OwnLinesOnly
  BY DEF FwInv, Undisturbed, Kept, OwnLinesOnly
<1>3. RevokedIsGone /\ LinesAreKnown
  BY DEF FwInv, Undisturbed, RevokedIsGone, LinesAreKnown
<1> QED BY <1>1, <1>2, <1>3 DEF FirewallSound

\* The rules noted by the platform and the lines of the firewall agree, and the lines of
\* its administrator stay as they are, for any rules and chains, as long as no command
\* fails and no thread comes in between (SshFirewall).
THEOREM FirewallIsSound == FirewallSpec => []FirewallSound
<1> QED BY FwInvInit, FwInvStep, FwInvSound, PTL DEF FirewallSpec
=============================================================================
