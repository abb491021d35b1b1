------------------------- MODULE CorrelationChains -------------------------
(* The search for chains of attack in a session (correlation_engine.py): the     *)
(* events of a source, and those that reach or leave a hub, are matched in the   *)
(* order of time against patterns of steps; chains that add no event to longer   *)
(* ones are dropped.  analyze() reads and computes only: the variable is the     *)
(* session that grows between two calls.  (Event types are taken as normalised,  *)
(* and the instances are shorter than the window that analyze() looks back.      *)
(* Confidence, alerts, groups and links of addresses are left out.)              *)
EXTENDS Naturals, Sequences, SequencesExt, FiniteSets, FiniteSetsExt

CONSTANTS
    Hosts,
    Patterns,        \* names of ATTACK_CHAIN_PATTERNS
    Steps,           \* [Patterns -> a sequence of types of events]
    MaxGap,          \* [Patterns -> max_gap_minutes]
    MinMatch,        \* [Patterns -> min_match, or the number of steps]
    HubPatterns,     \* the patterns tried for a hub, in their order
    MaxSession,      \* BOUND: events of the session
    MaxMinute        \* BOUND: the clock

StepTypes == UNION {ToSet(Steps[p]) : p \in Patterns}

ASSUME CorrelationAssumption ==
    /\ IsFiniteSet(Hosts) /\ IsFiniteSet(Patterns) /\ HubPatterns \in Seq(Patterns)
    /\ \A p \in Patterns :
        Steps[p] \in Seq(StepTypes) /\ MinMatch[p] \in 1..Len(Steps[p]) /\ MaxGap[p] \in Nat
    /\ MaxSession \in Nat /\ MaxMinute \in Nat

VARIABLES
    session,         \* SecurityEvent rows by created_at: [type, src, dst, at]; an id is an index
    wholes           \* ghost: [pattern, host] whose steps were all found at an earlier analysis

correlationVars == <<session, wholes>>

\* analyze: the events of a source; _match_hub_hosts: those from or to a host that is both.
\* (A timeline is a set of indices: they are in the order of time.)
FromSource(h) == {i \in DOMAIN session : session[i].src = h}
Hubs == {h \in Hosts : (\E i \in DOMAIN session : session[i].src = h)
                       /\ (\E i \in DOMAIN session : session[i].dst = h)}
AroundHub(h) == {i \in DOMAIN session : h \in {session[i].src, session[i].dst}}

FaultyAhead(p, next) == 1..Len(Steps[p])               \* a step may come before its predecessors
\* The steps that may come next: allow_skip_missing is on for every pattern.
Ahead(p, next) == next..Len(Steps[p])

\* _match_pattern: the first event that fits a step ahead takes it.
TakesStep(p, found, n) ==
    LET fits == {s \in Ahead(p, found.next) : Steps[p][s] = session[n].type} IN
    IF fits = {} THEN found ELSE [next |-> Min(fits) + 1, events |-> Append(found.events, n)]

\* What is found when the first n events of the session are read.
Search(p, timeline) ==
    LET found[n \in 0..Len(session)] ==
            IF n = 0 THEN [next |-> 1, events |-> <<>>]
            ELSE IF n \in timeline THEN TakesStep(p, found[n - 1], n) ELSE found[n - 1]
    IN  found

Greedy(p, timeline) == Search(p, timeline)[Len(session)].events

WithinGaps(p, events) ==
    \A j \in 2..Len(events) : session[events[j]].at - session[events[j - 1]].at <= MaxGap[p]

Matches(p, h, timeline) ==
    LET events == Greedy(p, timeline) IN
    IF Len(events) >= MinMatch[p] /\ WithinGaps(p, events)
    THEN {[pattern |-> p, host |-> h, events |-> events]} ELSE {}

SourceChains == UNION {Matches(p, h, FromSource(h)) : p \in Patterns, h \in Hosts}

\* The first pattern that matches a hub is the one that is reported.
HubChains(h) ==
    LET hits == {n \in DOMAIN HubPatterns : Matches(HubPatterns[n], h, AroundHub(h)) # {}} IN
    IF hits = {} THEN {} ELSE Matches(HubPatterns[Min(hits)], h, AroundHub(h))

Found == SourceChains \cup UNION {HubChains(h) : h \in Hubs}

KeepsNew(kept, c) ==
    IF ToSet(c.events) \subseteq kept.used THEN kept
    ELSE [chains |-> kept.chains \cup {c}, used |-> kept.used \cup ToSet(c.events)]

\* _dedup_chains: from the longest to the shortest, those with an event that no kept one has.
Shortest(chains) == CHOOSE c \in chains : \A d \in chains : Len(c.events) <= Len(d.events)
Deduped(all) ==
    LET kept[chains \in SUBSET all] ==
            IF chains = {} THEN [chains |-> {}, used |-> {}]
            ELSE KeepsNew(kept[chains \ {Shortest(chains)}], Shortest(chains))
    IN  kept[all]

Reported == Deduped(Found).chains

Whole == {[pattern |-> c.pattern, host |-> c.host] :
            c \in {d \in SourceChains : Len(d.events) = Len(Steps[d.pattern])}}

CorrelationInit == session = <<>> /\ wholes = {}

Newest == IF session = <<>> THEN 0 ELSE Last(session).at

\* An event is stored, and the session may be analysed again.
EventStored ==
    /\ Len(session) < MaxSession
    /\ \E t \in StepTypes, s, d \in Hosts, at \in Newest..MaxMinute :
        /\ s # d
        /\ session' = Append(session, [type |-> t, src |-> s, dst |-> d, at |-> at])
    /\ wholes' = Whole

CorrelationNext == EventStored

CorrelationSpec == CorrelationInit /\ [][CorrelationNext]_correlationVars
-----------------------------------------------------------------------------
(* Properties *)

Event == [type : StepTypes, src : Hosts, dst : Hosts, at : 0..MaxMinute]
CorrelationTypeOK == session \in Seq(Event)

\* A reported chain is one: its events are of its host, follow each other, and take steps of
\* the pattern in the order of the pattern, at least as many as it asks for and none twice.
ChainsAreReal ==
    \A c \in Found :
        /\ \A j \in DOMAIN c.events : c.host \in {session[c.events[j]].src, session[c.events[j]].dst}
        /\ \A j \in 2..Len(c.events) :
            c.events[j - 1] < c.events[j]
            /\ session[c.events[j]].at - session[c.events[j - 1]].at <= MaxGap[c.pattern]
        /\ Len(c.events) >= MinMatch[c.pattern]
        /\ \E taken \in [DOMAIN c.events -> DOMAIN Steps[c.pattern]] :
            /\ \A j \in DOMAIN c.events : Steps[c.pattern][taken[j]] = session[c.events[j]].type
            /\ \A j \in 2..Len(c.events) : taken[j - 1] < taken[j]

FirstOf(timeline, t) ==
    LET ofType == {i \in timeline : session[i].type = t} IN IF ofType = {} THEN 0 ELSE Min(ofType)

\* A complete chain is found if each of its steps is the first event of its type: nothing
\* that comes between, repeats a step or belongs to other hosts hides it.  (An event that
\* takes a step too early does: the search never goes back.)
OrderlyChainsFound ==
    \A p \in Patterns, h \in Hosts :
        LET firsts == [s \in DOMAIN Steps[p] |-> FirstOf(FromSource(h), Steps[p][s])] IN
        /\ \A s \in DOMAIN firsts : firsts[s] # 0
        /\ \A s \in 2..Len(firsts) :
            firsts[s - 1] < firsts[s] /\ session[firsts[s]].at - session[firsts[s - 1]].at <= MaxGap[p]
        => [pattern |-> p, host |-> h, events |-> firsts] \in SourceChains

\* A chain that was found with all its steps is found again, whatever comes later.  (A part
\* of one is not: a later step that comes too late takes the whole chain away.)
WholeChainsStay == wholes \subseteq Whole

EventsOf(chains) == UNION {ToSet(c.events) : c \in chains}

\* Dropping chains hides no event of one, and keeps a longest one.
NoEventHidden ==
    /\ EventsOf(Reported) = EventsOf(Found)
    /\ Found # {} => \E c \in Reported : \A d \in Found : Len(d.events) <= Len(c.events)

\* The chains that are reported are chains, and orderly ones are reported.
ChainsFound ==
    CorrelationTypeOK /\ ChainsAreReal /\ OrderlyChainsFound /\ WholeChainsStay /\ NoEventHidden
=============================================================================
