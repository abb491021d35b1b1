----------------------------- MODULE MCAuditQueue -----------------------------
(* Instances of AuditQueue for TLC: a P0 job of the agent lane, and a P1 job   *)
(* that needs no agent and that workers postpone twice.                        *)
EXTENDS AuditQueue, TLC

CONSTANTS p0, p1

MCEvents == {p0, p1}
MCPriority == (p0 :> 90) @@ (p1 :> 60)
MCP0 == {p0}
MCAgent == {p0}
MCTtl == (p0 :> 2) @@ (p1 :> 1)
MCOffers == (p0 :> 1) @@ (p1 :> 2)
=============================================================================
