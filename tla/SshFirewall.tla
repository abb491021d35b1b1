----------------------------- MODULE SshFirewall -----------------------------
(* The firewall adapter (response_engine/ssh_firewall.py) with the actions and *)
(* timers of response_registry.py that drive it.  A chain of the firewall host *)
(* is a list of rules, and a rule is removed by its line number.  What runs in *)
(* the event loop runs there from its first command to its last, one after the *)
(* other; rollback_all() runs in a thread (routers/response.py), its commands   *)
(* between any two of theirs.                                                  *)
EXTENDS Integers, Sequences, SequencesExt, FiniteSets, FiniteSetsExt

CONSTANTS
    Rules,           \* the rule ids of the calls, FW-RULE-... and EDR-ISO-...
    Isolations,      \* those of isolate_host; the others are those of block_ip
    Addresses,       \* [Rules -> addresses that the rule names]
    Foreign,         \* rules of the host's own administrator
    Sweeps,          \* calls of rollback_all
    MaxFwFaults      \* BOUND: commands that fail

NoRule == "no rule"

ASSUME FirewallAssumption ==
    /\ Isolations \subseteq Rules /\ Rules \cap Foreign = {}
    /\ NoRule \notin Rules /\ IsFiniteSet(Foreign)
    /\ Addresses \in [Rules -> Nat \ {0}]
    /\ MaxFwFaults \in Nat

VARIABLES
    chain,      \* [Chains -> the host's rules from the first line on]
    known,      \* [Rules -> the entry of _active_rules]
    timers,     \* the rules for which _auto_rollback sleeps
    loop,       \* the operation at work in the event loop
    sweep,      \* [Sweeps -> the thread of the call]
    fwFaults,
    disturbed   \* ghost: a command failed, or a thread ran beside another operation

firewallVars == <<chain, known, timers, loop, sweep, fwFaults, disturbed>>

Chains == {"INPUT", "OUTPUT"}
Original == SetToSeq(Foreign)

\* rollback() and rollback_all() walk through the chains: "list" reads one, "delete"
\* removes the lines noted from it, the last of them first.
Walk(pc, rule, at, lines, deleted) ==
    [pc |-> pc, rule |-> rule, at |-> at, lines |-> lines, deleted |-> deleted]
Idle == Walk("idle", NoRule, "INPUT", {}, 0)
Starting(rule) == Walk("list", rule, "INPUT", {}, 0)

FirewallInit ==
    /\ chain = [c \in Chains |-> Original]
    /\ known = [r \in Rules |-> "none"]
    /\ timers = {}
    /\ loop = Idle
    /\ sweep = [s \in Sweeps |-> Walk("ready", NoRule, "INPUT", {}, 0)]
    /\ fwFaults = 0 /\ disturbed = FALSE

FwFault == fwFaults < MaxFwFaults /\ fwFaults' = fwFaults + 1
Sweeping == {s \in Sweeps : sweep[s].pc \in {"list", "delete", "revoke"}}
Present(r) == \E c \in Chains : r \in Range(chain[c])
-----------------------------------------------------------------------------
(* block_ip and isolate_host: a line at the head of the chain for each address *)

Insert(c, r) == chain' = [chain EXCEPT ![c] = <<r>> \o @]

Begin(r) ==
    /\ loop.pc = "idle" /\ known[r] = "none" /\ ~Present(r)
    /\ loop' = Walk("write", r, "INPUT", {}, 0)
    /\ disturbed' = (disturbed \/ Sweeping # {})
    /\ UNCHANGED <<chain, known, timers, sweep, fwFaults>>

\* deleted counts the commands so far, lines holds those that raised nothing.
Lines(r) == IF r \in Isolations THEN 2 * Addresses[r] ELSE Addresses[r]
Target == IF loop.rule \in Isolations /\ loop.deleted % 2 = 1 THEN "OUTPUT" ELSE "INPUT"
Writing == loop.pc = "write" /\ loop.deleted < Lines(loop.rule)

WriteLine ==
    /\ Writing
    /\ Insert(Target, loop.rule)
    /\ loop' = [loop EXCEPT !.deleted = @ + 1, !.lines = @ \cup {loop.deleted + 1}]
    /\ UNCHANGED <<known, timers, sweep, fwFaults, disturbed>>

\* A command that raises leaves its line out, or its answer is lost; isolate_host
\* goes on with the next one.
WriteFails ==
    /\ Writing /\ FwFault
    /\ \/ Insert(Target, loop.rule)
       \/ chain' = chain
    /\ loop' = IF loop.rule \in Isolations THEN [loop EXCEPT !.deleted = @ + 1] ELSE Idle
    /\ disturbed' = TRUE
    /\ UNCHANGED <<known, timers, sweep>>

\* An isolation of which no command succeeded is not noted.
Noted == IF loop.lines = {} THEN known ELSE [known EXCEPT ![loop.rule] = "active"]

\* A block gets a timer, an isolation none: its duration_minutes is 0 by default.
Timers == IF loop.rule \in Isolations THEN timers ELSE timers \cup {loop.rule}

Written ==
    /\ loop.pc = "write" /\ loop.deleted = Lines(loop.rule)
    /\ known' = Noted /\ timers' = Timers /\ loop' = Idle
    /\ UNCHANGED <<chain, sweep, fwFaults, disturbed>>
-----------------------------------------------------------------------------
(* rollback(rule_id), called by the timer, by unblock_ip and by restore_host *)

TimerFires(r) ==
    /\ loop.pc = "idle" /\ r \in timers
    /\ timers' = timers \ {r}
    /\ loop' = Starting(r)
    /\ disturbed' = (disturbed \/ Sweeping # {})
    /\ UNCHANGED <<chain, known, sweep, fwFaults>>

Revert(r) ==
    /\ loop.pc = "idle" /\ known[r] = "active"
    /\ loop' = Starting(r)
    /\ disturbed' = (disturbed \/ Sweeping # {})
    /\ UNCHANGED <<chain, known, timers, sweep, fwFaults>>

LinesOf(c, own) == {i \in DOMAIN chain[c] : chain[c][i] \in own}

\* The step after the lines of one chain: the other chain, or the end.
Further(w) ==
    IF w.at = "INPUT" THEN [w EXCEPT !.pc = "list", !.at = "OUTPUT", !.lines = {}]
    ELSE [w EXCEPT !.pc = "revoke", !.lines = {}]

Listed(w, own) == [w EXCEPT !.pc = "delete", !.lines = LinesOf(w.at, own)]

\* iptables -D by number: the line that is there now.
Delete(c, i) ==
    chain' = [chain EXCEPT ![c] = IF i \in DOMAIN @ THEN RemoveAt(@, i) ELSE @]

FaultyNextLine(w) == Min(w.lines)                      \* from the front
NextLine(w) == Max(w.lines)

List ==
    /\ loop.pc = "list"
    /\ loop' = Listed(loop, {loop.rule})
    /\ UNCHANGED <<chain, known, timers, sweep, fwFaults, disturbed>>

\* A chain that cannot be listed is passed over.
ListFails ==
    /\ loop.pc = "list" /\ FwFault
    /\ loop' = Further(loop)
    /\ disturbed' = TRUE
    /\ UNCHANGED <<chain, known, timers, sweep>>

DeleteLine ==
    /\ loop.pc = "delete" /\ loop.lines # {}
    /\ Delete(loop.at, NextLine(loop))
    /\ loop' = [loop EXCEPT !.lines = @ \ {NextLine(loop)},
                            !.deleted = @ + Cardinality({NextLine(loop)} \cap DOMAIN chain[loop.at])]
    /\ UNCHANGED <<known, timers, sweep, fwFaults, disturbed>>

DeleteFails ==
    /\ loop.pc = "delete" /\ loop.lines # {} /\ FwFault
    /\ loop' = [loop EXCEPT !.lines = @ \ {NextLine(loop)}]
    /\ disturbed' = TRUE
    /\ UNCHANGED <<chain, known, timers, sweep>>

ChainDone ==
    /\ loop.pc = "delete" /\ loop.lines = {}
    /\ loop' = Further(loop)
    /\ UNCHANGED <<chain, known, timers, sweep, fwFaults, disturbed>>

\* Without a deleted line the call reports success too, and the entry stays.
Revoked ==
    /\ loop.pc = "revoke"
    /\ known' = IF loop.deleted > 0 /\ known[loop.rule] # "none"
                THEN [known EXCEPT ![loop.rule] = "revoked"] ELSE known
    /\ loop' = Idle
    /\ UNCHANGED <<chain, timers, sweep, fwFaults, disturbed>>
-----------------------------------------------------------------------------
(* rollback_all in a thread *)

Swept(s, w) == sweep' = [sweep EXCEPT ![s] = w]

SweepStarts(s) ==
    /\ sweep[s].pc = "ready"
    /\ Swept(s, [sweep[s] EXCEPT !.pc = "list"])
    /\ disturbed' = (disturbed \/ loop.pc # "idle" \/ Sweeping # {})
    /\ UNCHANGED <<chain, known, timers, loop, fwFaults>>

SweepLists(s) ==
    /\ sweep[s].pc = "list"
    /\ Swept(s, Listed(sweep[s], Rules))
    /\ UNCHANGED <<chain, known, timers, loop, fwFaults, disturbed>>

SweepDeletes(s) ==
    /\ sweep[s].pc = "delete" /\ sweep[s].lines # {}
    /\ Delete(sweep[s].at, NextLine(sweep[s]))
    /\ Swept(s, [sweep[s] EXCEPT !.lines = @ \ {NextLine(sweep[s])}])
    /\ UNCHANGED <<known, timers, loop, fwFaults, disturbed>>

SweepTurns(s) ==
    /\ sweep[s].pc = "delete" /\ sweep[s].lines = {}
    /\ Swept(s, Further(sweep[s]))
    /\ UNCHANGED <<chain, known, timers, loop, fwFaults, disturbed>>

\* A listing or a deletion that raises is passed over.
SweepFails(s) ==
    /\ FwFault
    /\ \/ sweep[s].pc = "list" /\ Swept(s, Further(sweep[s]))
       \/ /\ sweep[s].pc = "delete" /\ sweep[s].lines # {}
          /\ Swept(s, [sweep[s] EXCEPT !.lines = @ \ {NextLine(sweep[s])}])
    /\ disturbed' = TRUE
    /\ UNCHANGED <<chain, known, timers, loop>>

SweepEnds(s) ==
    /\ sweep[s].pc = "revoke"
    /\ known' = [r \in Rules |-> IF known[r] = "none" THEN "none" ELSE "revoked"]
    /\ Swept(s, [sweep[s] EXCEPT !.pc = "ended"])
    /\ UNCHANGED <<chain, timers, loop, fwFaults, disturbed>>
-----------------------------------------------------------------------------
LoopStep ==
    \/ WriteLine \/ WriteFails \/ Written
    \/ List \/ ListFails \/ DeleteLine \/ DeleteFails \/ ChainDone \/ Revoked
SweepStep(s) == SweepLists(s) \/ SweepDeletes(s) \/ SweepTurns(s) \/ SweepEnds(s)

FirewallNext ==
    \/ \E r \in Rules : Begin(r) \/ TimerFires(r) \/ Revert(r)
    \/ LoopStep
    \/ \E s \in Sweeps : SweepStarts(s) \/ SweepStep(s) \/ SweepFails(s)

FirewallSpec == FirewallInit /\ [][FirewallNext]_firewallVars

\* Commands end (they have a time-out), and timers fire when their operation can.
FirewallProgress == LoopStep \/ \E s \in Sweeps : SweepStep(s)
-----------------------------------------------------------------------------
(* Properties *)

FirewallTypeOK ==
    /\ \A c \in Chains : Range(chain[c]) \subseteq Rules \cup Foreign
    /\ known \in [Rules -> {"none", "active", "revoked"}]
    /\ timers \subseteq Rules \ Isolations
    /\ loop.pc \in {"idle", "write", "list", "delete", "revoke"}
    /\ loop.pc # "idle" => loop.rule \in Rules
    /\ \A s \in Sweeps : sweep[s].pc \in {"ready", "list", "delete", "revoke", "ended"}
    /\ fwFaults \in 0..MaxFwFaults

\* rollback() and rollback_all() remove lines by number, and yet only lines of the
\* platform's own rules, as long as no command of another operation comes in
\* between and none fails: each line of the administrator is there, once and in its order.
OwnLinesOnly ==
    ~disturbed => \A c \in Chains :
        /\ Foreign \subseteq Range(chain[c])
        /\ \A i, j \in DOMAIN chain[c] : i < j /\ {chain[c][i], chain[c][j]} \subseteq Foreign =>
             \E m, n \in DOMAIN Original :
                 m < n /\ Original[m] = chain[c][i] /\ Original[n] = chain[c][j]

\* A rule noted as revoked has no line left in either chain: an isolation is lifted
\* in both directions and for all its addresses.
RevokedIsGone ==
    ~disturbed => \A r \in Rules : known[r] = "revoked" => ~Present(r)

\* A line of the platform in the firewall is always one that it still knows of and
\* can lift: the rule is noted as active, or an operation on it is under way.
LinesAreKnown ==
    ~disturbed => \A r \in Rules : Present(r) =>
        known[r] = "active" \/ loop.rule = r \/ Sweeping # {}

\* The rules noted by the platform and the lines of the firewall agree, although lines
\* are deleted by number and one command at a time.
FirewallSound == FirewallTypeOK /\ OwnLinesOnly /\ RevokedIsGone /\ LinesAreKnown

\* A block ends: whatever else happens, its timer lifts it, unless a command failed
\* or a thread came in between.
BlockEnds ==
    \A r \in Rules \ Isolations : Present(r) ~> ~Present(r) \/ disturbed
=============================================================================
