----------------------------- MODULE MCPlatform -----------------------------
(* Instances for TLC of the parts of the platform around the audit: the      *)
(* stream of events, its bridge, the gate of LLM calls, the trail of         *)
(* actions, the log of tool calls, the cases, the window of messages, the    *)
(* registry of sources, the versions of rules, the cache of verdicts, the    *)
(* capture of packets, the chains of correlated events, and the baselines of *)
(* anomalies. The parts share no state, and each has its own run of the      *)
(* model: the first state chooses the part that moves.                       *)
EXTENDS
    EventStream, EventBridge, LlmLimiter, AuditTrail, ToolCallLog, Cases, MessageWindow,
    SourceRegistry, RuleVersions, VerdictCache, FlowAggregator, PcapFiles,
    CorrelationChains, AnomalyBaselines, TLC

VARIABLE part

CONSTANTS m1, m2, m3, m4, r1, r2, r3, r4, r5

MCMessages == {m1, m2, m3, m4}
MCOrigin == [m \in MCMessages |-> IF m = m3 THEN "backend" ELSE "worker"]
MCKey == [m \in MCMessages |-> IF m = m4 THEN "second" ELSE "first"]

MCCallers == {r1, r2, r3, r4, r5}
MCP0 == {r1, r2}

MCDrafts ==
    {[detection |-> "second", severity |-> "high", shadow |-> FALSE],
     [detection |-> "first", severity |-> "low", shadow |-> TRUE]}

MCSteps ==
    [scan |-> <<"PORT_SCAN", "BRUTE_FORCE", "C2_BEACON">>,
     post |-> <<"BRUTE_FORCE", "C2_BEACON">>,
     compromise |-> <<"PORT_SCAN", "BRUTE_FORCE", "C2_BEACON">>,
     leak |-> <<"BRUTE_FORCE", "BRUTE_FORCE", "C2_BEACON">>]
MCMaxGap == [scan |-> 1, post |-> 1, compromise |-> 1, leak |-> 2]
MCMinMatch == [scan |-> 3, post |-> 2, compromise |-> 2, leak |-> 3]
MCHubPatterns == <<"compromise", "post">>

Parts ==
    {"stream", "bridge", "limiter", "trail", "callLog", "cases", "window",
     "sources", "versions", "cache", "flows", "files", "correlation", "baselines"}

vars ==
    <<part, streamVars, bridgeVars, limiterVars, trailVars, callLogVars, caseVars, windowVars,
      sourceVars, versionVars, cacheVars, captureVars, pcapVars, correlationVars, baselineVars>>

Init ==
    /\ part \in Parts
    /\ StreamInit /\ BridgeInit /\ LimiterInit /\ TrailInit /\ CallLogInit /\ CasesInit /\ WindowInit
    /\ SourcesInit /\ (part # "sources" => \A k \in Configured : listed[k] = "enabled")
    /\ VersionsInit /\ CacheInit /\ CaptureInit /\ PcapInit /\ CorrelationInit /\ BaselinesInit

InPart(p, step) ==
    /\ part = p /\ step /\ UNCHANGED part
    /\ p # "stream" => UNCHANGED streamVars
    /\ p # "bridge" => UNCHANGED bridgeVars
    /\ p # "limiter" => UNCHANGED limiterVars
    /\ p # "trail" => UNCHANGED trailVars
    /\ p # "callLog" => UNCHANGED callLogVars
    /\ p # "cases" => UNCHANGED caseVars
    /\ p # "window" => UNCHANGED windowVars
    /\ p # "sources" => UNCHANGED sourceVars
    /\ p # "versions" => UNCHANGED versionVars
    /\ p # "cache" => UNCHANGED cacheVars
    /\ p # "flows" => UNCHANGED captureVars
    /\ p # "files" => UNCHANGED pcapVars
    /\ p # "correlation" => UNCHANGED correlationVars
    /\ p # "baselines" => UNCHANGED baselineVars

Next ==
    \/ InPart("stream", StreamNext)
    \/ InPart("bridge", BridgeNext)
    \/ InPart("limiter", LimiterNext)
    \/ InPart("trail", TrailNext)
    \/ InPart("callLog", CallLogNext)
    \/ InPart("cases", CasesNext)
    \/ InPart("window", WindowNext)
    \/ InPart("sources", SourcesNext)
    \/ InPart("versions", VersionsNext)
    \/ InPart("cache", CacheNext)
    \/ InPart("flows", CaptureNext)
    \/ InPart("files", PcapNext)
    \/ InPart("correlation", CorrelationNext)
    \/ InPart("baselines", BaselinesNext)

\* Tasks that have begun go on; the flush of the trail comes round again.
Spec ==
    /\ Init /\ [][Next]_vars
    /\ \A f \in Flushers : WF_vars(InPart("trail", FlushStep(f)))
    /\ \A e \in Events : WF_vars(InPart("cases", TaskStep(e)))

\* The event bus shows every event once and hides no hole: over reconnections, full
\* queues and restarts to the browser, and over the channel from the other process.
EventBusSound ==
    StreamTypeOK /\ NoSilentHole /\ BridgeTypeOK /\ ShownOnce /\ LoneIsNotFiltered

\* The records of what was done are kept: of operators, and of tools.
LogsSound == TrailSound /\ CallLogSound

\* What the tables keep leads back to what runs: of the keys of sources, and of the rules.
RegistriesSound == SourcesSound /\ VersionsSound

\* What is kept for a while is as fresh as it says: messages, verdicts, and baselines.
ShortTermSound == WindowSound /\ CacheSound /\ BaselinesSound

\* Captured packets reach the flows and the files, once and in order.
CaptureSound == FlowsCounted /\ FilesSound

\* What was accepted is written: the buffered actions of the trail, and the case of
\* every event whose task waits for the lock.
PlatformProgress == BufferDrains /\ EventsFiled
=============================================================================
