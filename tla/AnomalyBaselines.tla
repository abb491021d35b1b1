-------------------------- MODULE AnomalyBaselines --------------------------
(* The baselines of the anomaly detector (anomaly_detector.py): counts by hour   *)
(* of what an address or a type of event did, kept in memory, written to Redis   *)
(* from time to time and after every decay by the learning loop, and read back   *)
(* at the start.  A write is put together at once and executed later, and two    *)
(* writes may overtake each other.  (The three tables of entities are alike: one *)
(* stands for them.  The scores are left out, with the names of types and the    *)
(* snapshots in PostgreSQL, which nothing reads.)                                *)
EXTENDS Naturals, Sequences, SequencesExt, FiniteSets

CONSTANTS
    Entities,
    Hours,
    MaxAnalyzed,     \* BOUND: events
    MaxWrites,       \* BOUND: writes at a time
    MaxDecays,       \* BOUND: decays
    MaxLoads         \* BOUND: restarts

ASSUME BaselineAssumption == {MaxAnalyzed, MaxWrites, MaxDecays, MaxLoads} \subseteq Nat

VARIABLES
    baselines,       \* [Entities -> [hourly, total, recent]], or NoBaseline
    globals,         \* [hourly, types]: the sums of global_hourly_counts and of global_event_types
    writes,          \* pipelines that wait for Redis, in the order in which they were put together
    images,          \* what Redis holds: [baselines, globals]
    analyzed, decays, loads,
    counted,         \* ghost: [Entities -> how often it was counted]
    kept             \* ghost: [Entities -> what its last decay left that Redis keeps]

baselineVars ==
    <<baselines, globals, writes, images, analyzed, decays, loads, counted, kept>>

NoBaseline == [hourly |-> [h \in Hours |-> 0], total |-> 0, recent |-> FALSE]
NoCounts == [hourly |-> 0, types |-> 0]

BaselinesInit ==
    /\ baselines = [e \in Entities |-> NoBaseline] /\ globals = NoCounts
    /\ writes = <<>> /\ images = [baselines |-> baselines, globals |-> globals]
    /\ analyzed = 0 /\ decays = 0 /\ loads = 0
    /\ counted = [e \in Entities |-> 0] /\ kept = [e \in Entities |-> [total |-> 0, counted |-> 0]]

\* _save_baselines_to_redis: entities that were seen within the window.
\* (Ghosts: what memory held of the entities then, and which of them it decays.)
Pipeline(all, counts, held, decayed) ==
    [baselines |-> all, globals |-> counts, held |-> held, decayed |-> decayed]

\* _prune_baselines drops the others, once an hour.
Pruned(all) == [e \in Entities |-> IF all[e].recent THEN all[e] ELSE NoBaseline]

\* _update_baseline
Seen(b, h) == [hourly |-> [b.hourly EXCEPT ![h] = @ + 1], total |-> b.total + 1, recent |-> TRUE]

Held(all, seen) == [e \in Entities |-> [total |-> all[e].total, counted |-> seen[e]]]

\* analyze: prunes if that is due, counts, and saves if the interval is over.
Analyzes(e, h) ==
    /\ analyzed < MaxAnalyzed /\ analyzed' = analyzed + 1
    /\ \E before \in {baselines, Pruned(baselines)} :
        baselines' = [before EXCEPT ![e] = Seen(@, h)]
    /\ counted' = [counted EXCEPT ![e] = @ + 1]
    /\ globals' = [hourly |-> globals.hourly + 1, types |-> globals.types + 1]
    /\ \/ writes' = writes
       \/ Len(writes) < MaxWrites
          /\ writes' = Append(writes, Pipeline(baselines', globals', Held(baselines', counted'), {}))
    /\ UNCHANGED <<images, decays, loads, kept>>

Half(n) == n \div 2
\* decay_entity, by one half; an entity that is not there is left out.
Decayed(b) == [b EXCEPT !.hourly = [h \in Hours |-> Half(b.hourly[h])], !.total = Half(b.total)]

\* _apply_decay_baseline: the save that follows does not wait for the interval.
Decays(e) ==
    /\ decays < MaxDecays /\ Len(writes) < MaxWrites /\ decays' = decays + 1
    /\ baselines' = [baselines EXCEPT ![e] = Decayed(@)]
    /\ writes' = Append(writes, Pipeline(baselines', globals, Held(baselines', counted), {e}))
    /\ UNCHANGED <<globals, images, analyzed, loads, counted, kept>>

\* A decay is kept by its own write, if no older one is to come and the entity is in the window.
Keeps(i, e) == i = 1 /\ e \in writes[i].decayed /\ writes[i].baselines[e].recent

\* MULTI and EXEC.
WriteRuns(i) ==
    /\ i \in DOMAIN writes
    /\ images' = [baselines |-> [e \in Entities |-> IF writes[i].baselines[e].recent
                                                    THEN writes[i].baselines[e]
                                                    ELSE images.baselines[e]],
                  globals |-> writes[i].globals]
    /\ kept' = [e \in Entities |-> IF Keeps(i, e) THEN writes[i].held[e] ELSE kept[e]]
    /\ writes' = RemoveAt(writes, i)
    /\ UNCHANGED <<baselines, globals, analyzed, decays, loads, counted>>

\* An exception is logged; apply_action reports success all the same.
WriteFails(i) ==
    /\ i \in DOMAIN writes
    /\ writes' = RemoveAt(writes, i)
    /\ UNCHANGED <<baselines, globals, images, analyzed, decays, loads, counted, kept>>

\* The window passes without an event of the entity; its image in Redis expires later.
Aged(all, e) == [all EXCEPT ![e].recent = FALSE]
GrowsOld(e) ==
    /\ writes = <<>> /\ baselines[e].recent
    /\ baselines' = Aged(baselines, e) /\ images' = [images EXCEPT !.baselines = Aged(@, e)]
    /\ UNCHANGED <<globals, writes, analyzed, decays, loads, counted, kept>>

ImageExpires(e) ==
    /\ ~baselines[e].recent /\ images.baselines[e] # NoBaseline
    /\ images' = [images EXCEPT !.baselines[e] = NoBaseline]
    /\ UNCHANGED <<baselines, globals, writes, analyzed, decays, loads, counted, kept>>

\* The process ends, and load_baselines_from_redis reads key by key until an exception, if any.
Reloads ==
    /\ loads < MaxLoads /\ loads' = loads + 1
    /\ writes' = <<>>
    /\ \E read \in SUBSET Entities, counts \in {NoCounts, [images.globals EXCEPT !.types = 0], images.globals} :
        /\ read # {} => counts = images.globals
        /\ globals' = counts
        /\ baselines' = [e \in Entities |-> IF e \in read THEN images.baselines[e] ELSE NoBaseline]
    /\ UNCHANGED <<images, analyzed, decays, counted, kept>>

BaselinesNext ==
    \/ \E e \in Entities :
        \/ \E h \in Hours : Analyzes(e, h)
        \/ Decays(e) \/ GrowsOld(e) \/ ImageExpires(e)
    \/ \E i \in 1..MaxWrites : WriteRuns(i) \/ WriteFails(i)
    \/ Reloads

BaselinesSpec == BaselinesInit /\ [][BaselinesNext]_baselineVars
-----------------------------------------------------------------------------
(* Properties *)

Baseline == [hourly : [Hours -> Nat], total : Nat, recent : BOOLEAN]

BaselinesTypeOK ==
    /\ baselines \in [Entities -> Baseline] /\ globals \in [hourly : Nat, types : Nat]
    /\ images.baselines \in [Entities -> Baseline] /\ Len(writes) <= MaxWrites
    /\ analyzed \in 0..MaxAnalyzed /\ decays \in 0..MaxDecays /\ loads \in 0..MaxLoads

\* The sum of the counts, as the size of a set.
SumOf(hourly) == Cardinality(UNION {{h} \X (1..hourly[h]) : h \in Hours})

\* The mean of the other hours is computed as the total less the hour at hand, and the share
\* of a type as its count over that of all hours: neither may become negative, or exceed one,
\* by decays that round each count down, writes that overtake each other, and loads that
\* break off.
CountsAgree ==
    /\ \A e \in Entities : SumOf(baselines[e].hourly) <= baselines[e].total
    /\ globals.types <= globals.hourly

\* A decay that Redis keeps holds, over restarts too: an entity never has more than the decay
\* left of it and was counted since.  (A write that fails or that an older one follows keeps
\* nothing, nor does one without the entity.)
DecaysHold ==
    \A e \in Entities : baselines[e].total + kept[e].counted <= kept[e].total + counted[e]

\* Baselines are counts of events, whatever happens to their images.
BaselinesSound == BaselinesTypeOK /\ CountsAgree /\ DecaysHold
=============================================================================
