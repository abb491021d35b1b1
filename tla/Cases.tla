-------------------------------- MODULE Cases --------------------------------
(* How the events of one session become cases (case_manager.py) with their      *)
(* disposition orders (work_order_service.py).  Each call has a database session *)
(* of its own, which keeps what it read (expire_on_commit is off) and writes only *)
(* the columns that it changed; the advisory lock of the session ends with the  *)
(* first commit.  All cases are of a priority that is dispatched automatically. *)
EXTENDS Integers, Sequences, SequencesExt, FiniteSets

CONSTANTS
    Events,          \* calls of auto_create_case for events with one session_id
    Clerks,          \* calls of the routes and of the scheduler that change a status
    MaxCaseFaults    \* BOUND: database calls that fail

NoOne == "no one"

ASSUME CasesAssumption ==
    IsFiniteSet(Events) /\ NoOne \notin Events /\ MaxCaseFaults \in Nat

VARIABLES
    cases,           \* the rows: status, the events listed, unfinished disposition orders
    caseOf,          \* [Events -> the case_id of the event's row, 0 if null]
    lock,            \* the holder of pg_advisory_xact_lock
    task,            \* [Events -> where its call is, the case, its status as it was read]
    clerk,           \* [Clerks -> the same]
    caseFaults,
    woken,           \* ghost: cases that were active, then not, then active again
    crowded          \* ghost: two tasks dispatched the same case at a time

caseVars == <<cases, caseOf, lock, task, clerk, caseFaults, woken, crowded>>

Active == {"open", "investigating", "responding", "pending_approval"}
Statuses == Active \cup {"resolved", "closed", "false_positive"}

\* VALID_TRANSITIONS.
Allowed(status) ==
    CASE status = "open" -> {"investigating", "closed", "false_positive"}
      [] status = "investigating" ->
            {"pending_approval", "responding", "resolved", "closed", "false_positive"}
      [] status = "pending_approval" -> {"responding", "investigating", "closed"}
      [] status = "responding" -> {"resolved", "investigating", "closed", "pending_approval"}
      [] status \in {"resolved", "false_positive"} -> {"closed", "investigating"}
      [] status = "closed" -> {}

At(label, c, seen) == [at |-> label, case |-> c, seen |-> seen]

CasesInit ==
    /\ cases = <<>>
    /\ caseOf = [e \in Events |-> 0]
    /\ lock = NoOne
    /\ task = [e \in Events |-> At("new", 0, "open")]
    /\ clerk = [k \in Clerks |-> [at |-> "new", case |-> 0, to |-> "open", order |-> FALSE]]
    /\ caseFaults = 0 /\ woken = {} /\ crowded = FALSE

CaseFault == caseFaults < MaxCaseFaults /\ caseFaults' = caseFaults + 1
Becomes(e, t) == task' = [task EXCEPT ![e] = t]
IsActive(c) == cases[c].status \in Active
Dispatching == {"check", "advance", "order", "respond"}
Beside(e) == \E f \in Events \ {e} : task[f].at \in Dispatching /\ task[f].case = task[e].case

\* A commit of the status column, whatever is there now.
Sets(c, status) ==
    /\ cases' = [cases EXCEPT ![c].status = status]
    /\ woken' = IF ~IsActive(c) /\ status \in Active THEN woken \cup {c} ELSE woken
-----------------------------------------------------------------------------
(* auto_create_case *)

FaultyFree == TRUE                                     \* no lock
Free == lock = NoOne

\* The ingest creates the task, which asks for the lock of its session.
Asks(e) ==
    /\ task[e].at = "new"
    /\ Becomes(e, At("waiting", 0, "open"))
    /\ UNCHANGED <<cases, caseOf, lock, clerk, caseFaults, woken, crowded>>

Locks(e) ==
    /\ task[e].at = "waiting" /\ Free
    /\ lock' = e /\ Becomes(e, At("locked", 0, "open"))
    /\ UNCHANGED <<cases, caseOf, clerk, caseFaults, woken, crowded>>

\* _find_active_case_by_session, by the case_id of the session's events.
Finds(e) ==
    LET found == {c \in {caseOf[f] : f \in Events} \ {0} : IsActive(c)} IN
    /\ task[e].at = "locked"
    /\ IF found = {} THEN Becomes(e, At("create", 0, "open"))
       ELSE \E c \in found : Becomes(e, At("add", c, cases[c].status))
    /\ UNCHANGED <<cases, caseOf, lock, clerk, caseFaults, woken, crowded>>

Unlocked == NoOne

Creates(e) ==
    /\ task[e].at = "create"
    /\ cases' = Append(cases, [status |-> "open", events |-> {e}, orders |-> 0])
    /\ caseOf' = [caseOf EXCEPT ![e] = Len(cases) + 1]
    /\ lock' = Unlocked /\ Becomes(e, At("check", Len(cases) + 1, "open"))
    /\ UNCHANGED <<clerk, caseFaults, woken, crowded>>

Listed(c, e) == cases[c].events \cup {e}

Adds(e) ==
    LET c == task[e].case IN
    /\ task[e].at = "add"
    /\ cases' = [cases EXCEPT ![c].events = Listed(c, e)]
    /\ caseOf' = [caseOf EXCEPT ![e] = c]
    /\ lock' = Unlocked /\ Becomes(e, [task[e] EXCEPT !.at = "check"])
    /\ crowded' = (crowded \/ Beside(e))
    /\ UNCHANGED <<clerk, caseFaults, woken>>

\* The task ends with an exception, which is only logged: its transaction is undone.
FilingFails(e) ==
    /\ task[e].at \in {"locked", "create", "add"} /\ CaseFault
    /\ Becomes(e, [task[e] EXCEPT !.at = "failed"]) /\ lock' = NoOne
    /\ UNCHANGED <<cases, caseOf, clerk, woken, crowded>>
-----------------------------------------------------------------------------
(* _maybe_auto_dispatch, after the commit and so without the lock *)

Dispatched(c) == cases[c].orders > 0

Checks(e) ==
    /\ task[e].at = "check"
    /\ Becomes(e, [task[e] EXCEPT !.at =
            IF Dispatched(task[e].case) THEN "respond" ELSE "advance"])
    /\ UNCHANGED <<cases, caseOf, lock, clerk, caseFaults, woken, crowded>>

\* _advance: from the status that this session saw, with a commit of its own.
Advance(e, from, to, label) ==
    IF task[e].seen = from
    THEN Sets(task[e].case, to) /\ Becomes(e, At(label, task[e].case, to))
    ELSE UNCHANGED <<cases, woken>> /\ Becomes(e, [task[e] EXCEPT !.at = label])

Investigates(e) ==
    /\ task[e].at = "advance"
    /\ Advance(e, "open", "investigating", "order")
    /\ UNCHANGED <<caseOf, lock, clerk, caseFaults, crowded>>

Orders(e) ==
    /\ task[e].at = "order"
    /\ cases' = [cases EXCEPT ![task[e].case].orders = @ + 1]
    /\ Becomes(e, [task[e] EXCEPT !.at = "respond"])
    /\ UNCHANGED <<caseOf, lock, clerk, caseFaults, woken, crowded>>

\* With an order found there may be both steps left.
Responds(e) ==
    /\ task[e].at = "respond"
    /\ \/ task[e].seen = "open" /\ Advance(e, "open", "investigating", "respond")
       \/ task[e].seen # "open" /\ Advance(e, "investigating", "responding", "done")
    /\ UNCHANGED <<caseOf, lock, clerk, caseFaults, crowded>>

DispatchFails(e) ==
    /\ task[e].at \in Dispatching /\ CaseFault
    /\ Becomes(e, [task[e] EXCEPT !.at = "done"])
    /\ UNCHANGED <<cases, caseOf, lock, clerk, woken, crowded>>
-----------------------------------------------------------------------------
(* Operators and the scheduler: each reads the case, and commits later *)

ClerkReads(k, c) ==
    /\ clerk[k].at = "new" /\ c \in DOMAIN cases
    /\ \E to \in Allowed(cases[c].status), order \in {FALSE, cases[c].orders > 0} :
        /\ order => to = "resolved"                    \* the order is completed
        /\ clerk' = [clerk EXCEPT ![k] = [at |-> "read", case |-> c, to |-> to, order |-> order]]
    /\ UNCHANGED <<cases, caseOf, lock, task, caseFaults, woken, crowded>>

\* approve() of a work order makes its case "responding" without a look at its status.
ClerkApproves(k, c) ==
    /\ clerk[k].at = "new" /\ c \in DOMAIN cases
    /\ clerk' = [clerk EXCEPT ![k] = [at |-> "read", case |-> c, to |-> "responding", order |-> FALSE]]
    /\ UNCHANGED <<cases, caseOf, lock, task, caseFaults, woken, crowded>>

ClerkWrites(k) ==
    LET c == clerk[k].case  IN
    /\ clerk[k].at = "read"
    /\ cases' = [cases EXCEPT ![c].status = clerk[k].to,
                              ![c].orders = IF clerk[k].order /\ @ > 0 THEN @ - 1 ELSE @]
    /\ woken' = IF ~IsActive(c) /\ clerk[k].to \in Active THEN woken \cup {c} ELSE woken
    /\ clerk' = [clerk EXCEPT ![k].at = "done"]
    /\ UNCHANGED <<caseOf, lock, task, caseFaults, crowded>>
-----------------------------------------------------------------------------
TaskStep(e) ==
    \/ Locks(e) \/ Finds(e) \/ Creates(e) \/ Adds(e)
    \/ Checks(e) \/ Investigates(e) \/ Orders(e) \/ Responds(e)

CasesNext ==
    \/ \E e \in Events : Asks(e) \/ TaskStep(e) \/ FilingFails(e) \/ DispatchFails(e)
    \/ \E k \in Clerks : ClerkWrites(k) \/ \E c \in DOMAIN cases : ClerkReads(k, c) \/ ClerkApproves(k, c)

CasesSpec == CasesInit /\ [][CasesNext]_caseVars
-----------------------------------------------------------------------------
(* Properties *)

CasesTypeOK ==
    /\ \A c \in DOMAIN cases : cases[c].status \in Statuses /\ cases[c].events \subseteq Events
                               /\ cases[c].orders \in 0..Cardinality(Events)
    /\ caseOf \in [Events -> 0..Len(cases)]
    /\ lock \in Events \cup {NoOne}
    /\ woken \subseteq DOMAIN cases

\* A session has one active case: none is created beside an active one, however the
\* events' tasks interleave; only a case that was finished and is active again, by an
\* operator or by a stale write, can stand beside it.
OneActiveCase ==
    \A c, d \in DOMAIN cases \ woken : IsActive(c) /\ IsActive(d) => c = d

\* The event's case lists the event, and no other case does.
EventsListed ==
    \A e \in Events : \A c \in DOMAIN cases : e \in cases[c].events <=> caseOf[e] = c

\* A case has one unfinished disposition order, as long as no two tasks dispatch it at
\* the same time.
OneOrder == ~crowded => \A c \in DOMAIN cases : cases[c].orders <= 1

\* Cases, events and orders agree, however the tasks of a session's events, operators
\* and the scheduler interleave, but for what each part excepts.
CasesSound == CasesTypeOK /\ OneActiveCase /\ EventsListed /\ OneOrder

\* Every event whose task runs gets a case, unless the task fails: no task waits for
\* the lock for ever.
EventsFiled ==
    \A e \in Events : task[e].at = "waiting" ~> caseOf[e] # 0 \/ task[e].at = "failed"
=============================================================================
