----------------------------- MODULE MCAgentRun -----------------------------
(* Small deployments for TLC. *)
EXTENDS AgentRun

(* enough; one call too few; one agent too few; the verification not affordable *)
Budgets == {[calls |-> 4, requests |-> 7, agent |-> 2], [calls |-> 3, requests |-> 7, agent |-> 2],
            [calls |-> 4, requests |-> 7, agent |-> 1], [calls |-> 4, requests |-> 6, agent |-> 2]}
=============================================================================
