----------------------------- MODULE MCResponse -----------------------------
(* Instances for TLC of the four parts of the response engine, side by side:   *)
(* the guard's frequency limit, tickets, rollback of batches, firewall rules.  *)
(* The parts share no state, each has its own run of the model: the first      *)
(* state chooses the part that moves.                                          *)
EXTENDS SshFirewall, ResponseTickets, ResponseRollback, RateLimiter, TLC

VARIABLE part

CONSTANTS rule1, rule2, admin, sweep1, t1, t2, b1, b2, b3, b4, q1, q2, q3, q4

MCRules == {rule1, rule2}
MCIsolations == {rule2}
MCAddresses == (rule1 :> 1) @@ (rule2 :> 2)

MCThreats == {t1, t2}
OneIp == [t \in MCThreats |-> "10.0.0.1"]
OnePolicy == [t \in MCThreats |-> "brute force"]

MCJobs == {b1, b2, b3, b4}
MCHome == [b \in MCJobs |-> IF b = b3 THEN "worker" ELSE "backend"]
OneHost == [b \in MCJobs |-> "10.0.0.1"]

MCRequests == {q1, q2, q3, q4}
MCActionOf == [q \in MCRequests |-> IF q = q3 THEN "alert" ELSE "block"]
MCActionLimit == [block |-> 1, alert |-> 2]

vars == <<part, firewallVars, responseVars, rollbackVars, rateVars>>

Init ==
    /\ part \in {"firewall", "tickets", "rollback", "rate"}
    /\ FirewallInit /\ ResponseInit /\ RollbackInit /\ RateInit

Moves(p, step, others) == part = p /\ step /\ UNCHANGED <<part, others>>
InFirewall(step) == Moves("firewall", step, <<responseVars, rollbackVars, rateVars>>)
InTickets(step) == Moves("tickets", step, <<firewallVars, rollbackVars, rateVars>>)

Next ==
    \/ InFirewall(FirewallNext)
    \/ InTickets(ResponseNext)
    \/ Moves("rollback", RollbackNext, <<firewallVars, responseVars, rateVars>>)
    \/ Moves("rate", RateNext, <<firewallVars, responseVars, rollbackVars>>)

\* Commands and tasks that have begun go on, and a timer fires when it can.
Spec ==
    /\ Init /\ [][Next]_vars
    /\ WF_vars(InFirewall(FirewallProgress))
    /\ \A r \in Rules : SF_vars(InFirewall(TimerFires(r)))
    /\ WF_vars(InTickets(ResponseProgress))

\* Liveness of the parts: a block ends, and an approved ticket is acted upon.
ResponsesEnd == BlockEnds /\ ApprovedRuns
=============================================================================
