------------------------------- MODULE MCJobs -------------------------------
(* Instances for TLC of the Flink jobs: validation of the logs, scores and     *)
(* alerts of an address, chains of events, windows of flows, and fingerprints  *)
(* of TLS clients.  The jobs share topics and no state: the first state        *)
(* chooses the job that runs.                                                  *)
EXTENDS LogValidation, AnomalyScoring, AttackChains, FlowBaseline, TlsFingerprint, TLC

VARIABLE runs

CONSTANTS v1, v2, v3, v4

MCRecords == {v1, v2, v3, v4}
MCSrcIp == [r \in MCRecords |-> IF r = v3 THEN "b" ELSE "a"]
MCDigest == [r \in MCRecords |-> IF r = v2 THEN "p" ELSE "q"]

MCChains ==
    [lateral_movement |-> <<"login", "access", "move">>, data_exfil |-> <<"access", "exfil">>]
MCWithin == [lateral_movement |-> 4, data_exfil |-> 2]

jobsVars == <<runs, validationVars, scoringVars, chainVars, flowVars, tlsVars>>

JobsInit ==
    /\ runs \in {"validation", "scoring", "chains", "flows", "tls"}
    /\ ValidationInit /\ ScoringInit /\ ChainsInit /\ FlowInit /\ TlsInit

Of(j, step) ==
    /\ runs = j /\ step /\ UNCHANGED runs
    /\ j # "validation" => UNCHANGED validationVars
    /\ j # "scoring" => UNCHANGED scoringVars
    /\ j # "chains" => UNCHANGED chainVars
    /\ j # "flows" => UNCHANGED flowVars
    /\ j # "tls" => UNCHANGED tlsVars

JobsNext ==
    \/ Of("validation", ValidationNext)
    \/ Of("scoring", ScoringNext)
    \/ Of("chains", ChainsNext)
    \/ Of("flows", FlowNext)
    \/ Of("tls", TlsNext)

\* The validation reads on, and its checkpoints come round again.
JobsSpec == JobsInit /\ [][JobsNext]_jobsVars /\ WF_jobsVars(Of("validation", ValidationStep))

\* What the detectors keep by key - scores with their alerts, open chains, and the history of
\* the windows of flows - stays bounded, and is what the events of that key amount to.
DetectorsSound == ScoringSound /\ ChainsSound /\ FlowsSound
=============================================================================
