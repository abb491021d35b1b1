-------------------------- MODULE ResponseRollback --------------------------
(* What becomes of a batch of response actions: ResponseExecutor and its       *)
(* rollback store, the block and isolation actions with their undo actions and *)
(* timers.  The backend and the Temporal worker (which runs the activity        *)
(* trigger_response) each have a store, a table of active rules and timers;     *)
(* the routes that roll back belong to the backend.                            *)
EXTENDS Integers, FiniteSets

CONSTANTS
    Jobs,            \* batches, of one action each
    Home,            \* [Jobs -> the process that executes it]
    Host,            \* [Jobs -> the address it blocks or isolates]
    Isolating,       \* batches of isolate_host; the others are block_ip
    Addressed,       \* those whose recorded params name the address
    MaxUndoFaults,   \* BOUND: failed firewall and Redis calls
    MaxReboots       \* BOUND: restarts of a process

Processes == {"backend", "worker"}

ASSUME RollbackAssumption ==
    /\ Home \in [Jobs -> Processes] /\ Isolating \subseteq Jobs /\ Addressed \subseteq Jobs
    /\ MaxUndoFaults \in Nat /\ MaxReboots \in Nat

VARIABLES
    job,        \* [Jobs -> the progress of execute_actions]
    inForce,    \* batches whose rule is in the firewall
    active,     \* rules that the table of their process holds as active
    lifting,    \* rules whose _auto_rollback sleeps in their process
    recorded, persisted,     \* batches with a rollback record in memory, in Redis
    rolled, rolledRedis,     \* batches marked as rolled back
    undoFaults, reboots,
    cutOff,     \* ghost: rules that a fault or a restart separated from their timer
    undone      \* ghost: [Jobs -> how often its actions were undone]

ruleVars == <<inForce, active, lifting, cutOff>>
storeVars == <<recorded, persisted, rolled, rolledRedis>>
rollbackVars == <<job, ruleVars, storeVars, undoFaults, reboots, undone>>

RollbackInit ==
    /\ job = [b \in Jobs |-> "new"]
    /\ inForce = {} /\ active = {} /\ lifting = {} /\ cutOff = {}
    /\ recorded = {} /\ persisted = {} /\ rolled = {} /\ rolledRedis = {}
    /\ undoFaults = 0 /\ reboots = 0
    /\ undone = [b \in Jobs |-> 0]

UndoFault == undoFaults < MaxUndoFaults /\ undoFaults' = undoFaults + 1
Becomes(b, label) == job' = [job EXCEPT ![b] = label]
-----------------------------------------------------------------------------
(* execute_actions *)

FaultyTimed(b) == lifting                              \* no timer
\* A block gets a timer; an isolation has none, its duration is 0 by default.
Timed(b) == IF b \in Isolating THEN lifting ELSE lifting \cup {b}

ActSucceeds(b) ==
    /\ job[b] = "new" /\ Becomes(b, "acted")
    /\ inForce' = inForce \cup {b} /\ active' = active \cup {b} /\ lifting' = Timed(b)
    /\ UNCHANGED <<cutOff, storeVars, undoFaults, reboots, undone>>

\* The command raises; it may have been executed.
ActFails(b) ==
    /\ job[b] = "new" /\ Becomes(b, "acted") /\ UndoFault
    /\ \/ UNCHANGED <<inForce, cutOff>>
       \/ inForce' = inForce \cup {b} /\ cutOff' = cutOff \cup {b}
    /\ UNCHANGED <<active, lifting, storeVars, reboots, undone>>

\* rollback_store.record: the worker's store has no Redis (temporal/worker.py:38-48
\* leaves it out), and a failing Redis is passed over.
Record(b) ==
    /\ job[b] = "acted" /\ Becomes(b, "done")
    /\ recorded' = recorded \cup {b}
    /\ \/ Home[b] = "backend" /\ persisted' = persisted \cup {b} /\ UNCHANGED undoFaults
       \/ Home[b] = "worker" /\ UNCHANGED <<persisted, undoFaults>>
       \/ Home[b] = "backend" /\ UNCHANGED persisted /\ UndoFault
    /\ UNCHANGED <<ruleVars, rolled, rolledRedis, reboots, undone>>
-----------------------------------------------------------------------------
(* rollback_batch *)

\* The undo action looks for the address in the backend's table: unblock_ip among the
\* blocks, restore_host among all rules.
Meant(b) == {a \in active : /\ Home[a] = "backend" /\ Host[a] = Host[b]
                            /\ b \in Isolating \/ a \notin Isolating}

Found(b) == (Home[b] = "backend" /\ b \in recorded) \/ b \in persisted

\* A mark in the memory of the backend, and one in Redis.
MarksRedis(b) == rolledRedis \cup {b}

\* A record without the address makes the undo action raise: a TypeError for want of
\* its argument, nothing is undone or marked.  The undo actions themselves answer
\* with an error instead of raising it, and the registry makes a success of every
\* answer: the batch is marked also when the firewall could not be reached.
Undo(b) ==
    /\ Found(b) /\ b \in Addressed /\ b \notin rolled \cup rolledRedis
    /\ \E lifted \in SUBSET Meant(b) :
        /\ inForce' = inForce \ lifted /\ active' = active \ lifted
        /\ \/ /\ lifted = Meant(b) /\ rolledRedis' = MarksRedis(b)
              /\ UNCHANGED undoFaults
           \/ /\ lifted # Meant(b) /\ rolledRedis' = MarksRedis(b)
              /\ UndoFault
           \/ /\ lifted = Meant(b) /\ rolledRedis' = rolledRedis
              /\ UndoFault
    /\ rolled' = rolled \cup {b}
    /\ recorded' = recorded \cup {b}                   \* get() fills the memory again
    /\ undone' = [undone EXCEPT ![b] = @ + 1]
    /\ UNCHANGED <<job, lifting, cutOff, persisted, reboots>>

\* _auto_rollback wakes up.
Lift(b) ==
    /\ b \in lifting /\ lifting' = lifting \ {b}
    /\ \/ inForce' = inForce \ {b} /\ active' = active \ {b} /\ UNCHANGED <<cutOff, undoFaults>>
       \/ UNCHANGED <<inForce, active>> /\ cutOff' = cutOff \cup (inForce \cap {b}) /\ UndoFault
    /\ UNCHANGED <<job, storeVars, reboots, undone>>

\* A process starts again: what it had in memory is gone.
Reboot(p) ==
    LET Own == {b \in Jobs : Home[b] = p} IN
    /\ reboots < MaxReboots /\ reboots' = reboots + 1
    /\ job' = [b \in Jobs |-> IF b \in Own /\ job[b] = "acted" THEN "cut" ELSE job[b]]
    /\ active' = active \ Own /\ lifting' = lifting \ Own
    /\ cutOff' = cutOff \cup (inForce \cap Own)
    /\ recorded' = recorded \ Own
    /\ rolled' = IF p = "backend" THEN {} ELSE rolled
    /\ UNCHANGED <<inForce, persisted, rolledRedis, undoFaults, undone>>

RollbackNext ==
    \/ \E b \in Jobs : ActSucceeds(b) \/ ActFails(b) \/ Record(b) \/ Undo(b) \/ Lift(b)
    \/ \E p \in Processes : Reboot(p)

RollbackSpec == RollbackInit /\ [][RollbackNext]_rollbackVars
-----------------------------------------------------------------------------
(* Properties *)

RollbackTypeOK ==
    /\ job \in [Jobs -> {"new", "acted", "done", "cut"}]
    /\ active \subseteq inForce /\ inForce \subseteq Jobs /\ cutOff \subseteq Jobs
    /\ lifting \subseteq Jobs \ Isolating
    /\ recorded \subseteq Jobs /\ persisted \subseteq Jobs
    /\ rolled \subseteq Jobs /\ rolledRedis \subseteq Jobs
    /\ undoFaults \in 0..MaxUndoFaults /\ reboots \in 0..MaxReboots
    /\ undone \in [Jobs -> Nat]

\* A block has a timer in the process that set it, unless a lost answer, a firewall
\* that could not be reached when the timer fired, or a restart has cut it off: those
\* are the only ways in which a block outlives its duration.
BlocksAreTimed == inForce \subseteq Isolating \cup lifting \cup cutOff

\* Undoing a response removes its rule, as long as no call failed and nothing
\* restarted.
RolledIsLifted ==
    undoFaults = 0 /\ reboots = 0 => (rolled \cup rolledRedis) \cap inForce = {}

\* A batch is undone once, also across a restart of the backend: a repeated call must
\* not remove a rule that a later batch has set for the same address.
UndoneOnce == undoFaults = 0 => \A b \in Jobs : undone[b] <= 1

\* What is in force, what was undone and what is noted of it agree over failures and
\* restarts, but for the calls that each part excepts.
RollbackSound == RollbackTypeOK /\ BlocksAreTimed /\ RolledIsLifted /\ UndoneOnce
=============================================================================
