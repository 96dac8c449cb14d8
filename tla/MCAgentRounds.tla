---------------------------- MODULE MCAgentRounds ----------------------------
(***************************************************************************)
(* Instances of AgentRounds for TLC: two agents, two seeds, and plain      *)
(* transfers between the addresses the first seed gives the two agents, so *)
(* that a plain transfer may look exactly like a payment.                  *)
(***************************************************************************)
EXTENDS AgentRounds

CONSTANTS a, b

MCRawSpec == {<<AllocatedDID(1, a), AllocatedDID(1, b)>>}
==============================================================================
