---------------------------- MODULE AuditDelivery ----------------------------
(* What the audit worker pool promises of the jobs submitted to it, without    *)
(* the heap, the deque, the brokers, the worker loop and the registry: a job   *)
(* is taken or refused, runs at most once, at most Slots jobs run at a time,   *)
(* and only jobs outside NeverDrop are refused.                                *)
EXTENDS Naturals, FiniteSets

CONSTANTS
    Calls,      \* the submit() calls, one job each
    NeverDrop,  \* those that may not be refused
    Slots       \* how many jobs may run at a time

VARIABLE job   \* [Calls -> "new", "pending", "refused", "accepted", "running",
               \*           "over" or "dropped"]

Init == job = [c \in Calls |-> "new"]

Running == {c \in Calls : job[c] = "running"}

\* The call waits for a broker.
Suspend(c) == job[c] = "new" /\ c \in NeverDrop /\ job' = [job EXCEPT ![c] = "pending"]

Refuse(c) == job[c] = "new" /\ c \notin NeverDrop /\ job' = [job EXCEPT ![c] = "refused"]

Accept(c) == job[c] \in {"new", "pending"} /\ job' = [job EXCEPT ![c] = "accepted"]

\* A full last resort gives up an older job of the same kind for the new one.
Replace(c, d) ==
    /\ job[c] \in {"new", "pending"} /\ c \in NeverDrop
    /\ job[d] = "accepted" /\ d \in NeverDrop
    /\ job' = [job EXCEPT ![c] = "accepted", ![d] = "dropped"]

Start(c) ==
    /\ job[c] = "accepted" /\ Cardinality(Running) < Slots
    /\ job' = [job EXCEPT ![c] = "running"]

Finish(c) == job[c] = "running" /\ job' = [job EXCEPT ![c] = "over"]

Next ==
    \/ \E c \in Calls : Suspend(c) \/ Refuse(c) \/ Accept(c) \/ Start(c) \/ Finish(c)
    \/ \E c, d \in Calls : Replace(c, d)

Spec == Init /\ [][Next]_job
=============================================================================
