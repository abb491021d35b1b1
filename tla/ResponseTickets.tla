--------------------------- MODULE ResponseTickets ---------------------------
(* A detected threat on its way to the executor: ResponseOrchestrator with its *)
(* policy cool-downs, the approval tickets and the poll tasks that wait for     *)
(* them, and the routes that approve and reject.  (POST /response/execute goes  *)
(* to the guard and the executor directly: it touches nothing of this state.)   *)
EXTENDS Integers, FiniteSets

CONSTANTS
    Threats,         \* calls of on_threat_detected
    Ip,              \* [Threats -> src_ip]
    Policy,          \* [Threats -> the policy that matches]
    Asks, Automatic,      \* threats whose policy needs_approval; auto_execute
    Critical,        \* whose actions include one of severity critical, isolate_host
    Uncertain        \* of match status UNCERTAIN

ASSUME ResponseAssumption ==
    /\ Asks \subseteq Threats /\ Automatic \subseteq Threats
    /\ Critical \subseteq Asks /\ Uncertain \subseteq Asks

VARIABLES
    handler,    \* [Threats -> where the call is]
    ticket,     \* [Threats -> the status of its ticket]
    lapsed,     \* tickets past expires_at
    poll,       \* threats whose ticket has a poll task
    batch,      \* [Batches -> the outcome of _guarded_execute]
    released,   \* tickets whose actions the approve route handed to the guard
    cooling,    \* the cool-downs that run
    refused     \* ghost: threats whose ticket was ever rejected

ticketVars == <<ticket, lapsed, poll>>
responseVars == <<handler, ticketVars, batch, released, cooling, refused>>

\* A ticket's actions are executed by the call itself, by the poll task of the
\* ticket, or by the approve route, of whose outcome nothing depends.
Batches == {"call", "poll"} \X Threats
Call(t) == <<"call", t>>
Poll(t) == <<"poll", t>>

\* "done": something succeeded, but no block_ip; only a call tells them apart.
Outcomes(b) == IF b[1] = "call" THEN {"failed", "done", "blocked"} ELSE {"failed", "done"}
Ended(b) == batch[b] \in Outcomes(b) \cup {"denied"}
Succeeded(b) == batch[b] \in {"done", "blocked"}

IpKey(t) == <<"ip", Ip[t]>>
PolicyKey(t) == <<"policy", Policy[t], Ip[t]>>
UncertainKey(t) == <<"uncertain", Ip[t]>>
MatchKeys(t) == IF t \in Uncertain THEN {IpKey(t), UncertainKey(t)} ELSE {IpKey(t)}

ResponseInit ==
    /\ handler = [t \in Threats |-> "new"]
    /\ ticket = [t \in Threats |-> "none"]
    /\ lapsed = {} /\ poll = {}
    /\ batch = [b \in Batches |-> "none"]
    /\ released = {} /\ cooling = {} /\ refused = {}

At(t, label) == handler' = [handler EXCEPT ![t] = label]
Stands(t, status) == ticket' = [ticket EXCEPT ![t] = status]
-----------------------------------------------------------------------------
(* on_threat_detected, and the route that executes by hand *)

CoolEnds ==
    /\ \E k \in cooling : cooling' = cooling \ {k}
    /\ UNCHANGED <<handler, ticketVars, batch, released, refused>>

Hot(t) == MatchKeys(t)

\* policy_engine.match(): a match starts the cool-down of the ip; that of its policy
\* is only looked at.  An uncertain threat has no policy of its own.
Match(t) ==
    /\ handler[t] = "new"
    /\ IF \/ IpKey(t) \in cooling
          \/ IF t \in Uncertain THEN UncertainKey(t) \in cooling ELSE PolicyKey(t) \in cooling
       THEN At(t, "done") /\ cooling' = cooling
       ELSE At(t, "matched") /\ cooling' = cooling \cup Hot(t)
    /\ UNCHANGED <<ticketVars, batch, released, refused>>

RunsAtOnce(t) == t \in Automatic \ Critical

\* _guarded_execute: the guard denies every action, or the executor starts.
Starts(b) == \E how \in {"acting", "denied"} : batch' = [batch EXCEPT ![b] = how]

\* The executor returns.
Acts(b) ==
    /\ batch[b] = "acting"
    /\ \E o \in Outcomes(b) : batch' = [batch EXCEPT ![b] = o]
    /\ UNCHANGED <<handler, ticketVars, released, cooling, refused>>

Executes(t) ==
    /\ handler[t] = "matched" /\ RunsAtOnce(t)
    /\ Starts(Call(t)) /\ At(t, "executing")
    /\ UNCHANGED <<ticketVars, released, cooling, refused>>

\* The actions wait for an approval; a policy with neither flag does nothing.
Submits(t) ==
    /\ handler[t] = "matched" /\ ~RunsAtOnce(t)
    /\ IF t \in Asks
       THEN Stands(t, "pending") /\ poll' = poll \cup {t} /\ cooling' = cooling \cup {PolicyKey(t)}
       ELSE UNCHANGED <<ticket, poll, cooling>>
    /\ At(t, "done")
    /\ UNCHANGED <<lapsed, batch, released, refused>>

Polled(t) == t \in Uncertain /\ batch[Call(t)] # "blocked"

\* What on_threat_detected does with the outcome of its own execution: an uncertain
\* threat gets a ticket in any case, which is open unless the address was blocked.
Answers(t) ==
    /\ handler[t] = "executing" /\ Ended(Call(t))
    /\ cooling' = IF Succeeded(Call(t)) THEN cooling \cup {PolicyKey(t)} ELSE cooling
    /\ IF t \in Asks /\ (Succeeded(Call(t)) \/ t \in Uncertain)
       THEN Stands(t, IF t \in Uncertain /\ batch[Call(t)] # "blocked" THEN "pending" ELSE "auto")
       ELSE ticket' = ticket
    /\ At(t, IF Polled(t) THEN "polling" ELSE "done")
    /\ UNCHANGED <<lapsed, poll, batch, released, refused>>

\* The poll task of such a ticket is created after the log was written.
PollCreated(t) ==
    /\ handler[t] = "polling"
    /\ poll' = poll \cup {t} /\ At(t, "done")
    /\ UNCHANGED <<ticket, lapsed, batch, released, cooling, refused>>
-----------------------------------------------------------------------------
(* Tickets *)

Lapse(t) ==
    /\ ticket[t] # "none" /\ t \notin lapsed
    /\ lapsed' = lapsed \cup {t}
    /\ UNCHANGED <<handler, ticket, poll, batch, released, cooling, refused>>

FaultyDecidable(t) == ticket[t] \in {"pending", "rejected"}  \* a rejection can be taken back
Decidable(t) == ticket[t] = "pending"

\* approve and reject of a ticket past its time: it expires, whatever its status was.
DecidedLate(t) ==
    /\ ticket[t] # "none" /\ t \in lapsed
    /\ Stands(t, "expired")
    /\ UNCHANGED <<handler, lapsed, poll, batch, released, cooling, refused>>

\* approve_action: approves, and executes at once.
Approve(t) ==
    /\ t \notin lapsed /\ Decidable(t)
    /\ Stands(t, "approved")
    /\ released' = released \cup {t}
    /\ UNCHANGED <<handler, lapsed, poll, batch, cooling, refused>>

Reject(t) ==
    /\ t \notin lapsed /\ Decidable(t)
    /\ Stands(t, "rejected") /\ refused' = refused \cup {t}
    /\ UNCHANGED <<handler, lapsed, poll, batch, released, cooling>>

\* list_pending looks at the time of pending tickets.
Overdue == {t \in lapsed : ticket[t] = "pending"}

ListPending ==
    /\ Overdue # {}
    /\ ticket' = [t \in Threats |-> IF t \in Overdue THEN "expired" ELSE ticket[t]]
    /\ UNCHANGED <<handler, lapsed, poll, batch, released, cooling, refused>>

FaultyUnlapsed(t) == ticket[t] = "approved" /\ t \notin lapsed
Granted(t) == ticket[t] = "approved"

\* A round of _poll_approval.
PollExecutes(t) ==
    /\ t \in poll /\ Granted(t) /\ batch[Poll(t)] = "none"
    /\ Starts(Poll(t))
    /\ UNCHANGED <<handler, ticketVars, released, cooling, refused>>

PollGivesUp(t) ==
    /\ t \in poll /\ ticket[t] \in {"rejected", "expired"} /\ batch[Poll(t)] = "none"
    /\ poll' = poll \ {t}
    /\ UNCHANGED <<handler, ticket, lapsed, batch, released, cooling, refused>>

PollEnds(t) ==
    /\ t \in poll /\ Ended(Poll(t))
    /\ cooling' = IF Succeeded(Poll(t)) THEN cooling \cup {PolicyKey(t)} ELSE cooling
    /\ poll' = poll \ {t}
    /\ UNCHANGED <<handler, ticket, lapsed, batch, released, refused>>

-----------------------------------------------------------------------------
CallStep(t) == Match(t) \/ Executes(t) \/ Submits(t) \/ Answers(t) \/ PollCreated(t)
PollStep(t) == PollExecutes(t) \/ PollGivesUp(t) \/ PollEnds(t)
Decision(t) == DecidedLate(t) \/ Approve(t) \/ Reject(t)

ResponseNext ==
    \/ CoolEnds \/ ListPending
    \/ \E t \in Threats : CallStep(t) \/ PollStep(t) \/ Lapse(t) \/ Decision(t)
    \/ \E b \in Batches : Acts(b)

ResponseSpec == ResponseInit /\ [][ResponseNext]_responseVars

\* The tasks of the process run on: calls that have begun, polls and actions.
ResponseProgress ==
    \/ \E t \in Threats : (handler[t] # "new" /\ CallStep(t)) \/ PollStep(t)
    \/ \E b \in Batches : Acts(b)
-----------------------------------------------------------------------------
(* Properties *)

Begun == {b \in Batches : batch[b] # "none"}

ResponseTypeOK ==
    /\ handler \in [Threats -> {"new", "matched", "executing", "polling", "done"}]
    /\ ticket \in [Threats -> {"none", "pending", "approved", "rejected", "expired", "auto"}]
    /\ \A t \in poll : ticket[t] \notin {"none", "auto"}
    /\ lapsed \subseteq Threats /\ poll \subseteq Threats /\ refused \subseteq Threats
    /\ batch \in [Batches -> {"none", "acting", "denied", "failed", "done", "blocked"}]
    /\ released \subseteq Threats
    /\ cooling \subseteq UNION {MatchKeys(t) \cup {PolicyKey(t)} : t \in Threats}

\* An action of severity critical is executed for nobody but an approver: whatever
\* the policy says, and however the ticket was touched, listed or polled before, its
\* call executes nothing, and the poll task only what the approve route also began.
CriticalIsApproved ==
    \A t \in Critical : Call(t) \notin Begun /\ (Poll(t) \in Begun => t \in released)

\* The actions of a rejected ticket are executed neither by its poll task nor by a
\* later approval, also when the rejection has turned into an expiry.
RejectedNeverRuns == \A t \in refused : Poll(t) \notin Begun /\ t \notin released

\* The cool-down of a policy is earned by an action that succeeded or by a ticket,
\* never by a match whose actions the guard denied: the next threat of the address
\* finds it closed only if something was done about the first.
CooldownEarned == \A t \in Threats : PolicyKey(t) \in cooling =>
    \E u \in Threats : PolicyKey(u) = PolicyKey(t)
        /\ (ticket[u] # "none" \/ Succeeded(Call(u)) \/ Succeeded(Poll(u)))

\* A ticket that waits for a decision is watched: it has a poll task, or its call is
\* about to create it.
PendingIsPolled ==
    \A t \in Threats : ticket[t] = "pending" => t \in poll \/ handler[t] = "polling"

\* What handlers, poll tasks, routes and expiry do to a ticket, in any order, executes
\* nothing that nobody approved, leaves no ticket unwatched, and earns no cool-down for
\* actions that did not run.
TicketsSound ==
    ResponseTypeOK /\ CriticalIsApproved /\ RejectedNeverRuns /\ CooldownEarned /\ PendingIsPolled

\* What was approved is acted upon by the poll task as well as by the route, unless
\* the ticket turns into an expired one first.
ApprovedRuns == \A t \in Threats :
    ticket[t] = "approved" ~> Ended(Poll(t)) \/ ticket[t] # "approved"
=============================================================================
