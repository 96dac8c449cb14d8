----------------------------- MODULE MCAgentLedger -----------------------------
(***************************************************************************)
(* Instances of AgentLedger, and of the Measure it extends, for TLC.       *)
(***************************************************************************)
EXTENDS AgentLedger

CONSTANTS a, b

MCLoc == [x \in Account |-> IF x = a THEN 1 ELSE 2]
MCSender    == [t \in Tx |-> IF t = 2 THEN b ELSE a]
MCRecipient == [t \in Tx |-> IF t = 2 THEN a ELSE b]
MCValue     == [t \in Tx |-> t]
================================================================================
