----------------------------- MODULE MCAgentAudit -----------------------------
(* Instances of AgentAudit for TLC. *)
EXTENDS AgentAudit

CONSTANTS e1, e2

TwoEvents == {e1, e2}
OneThreat == {e1}
=============================================================================
