------------------------- MODULE MCAgentDelegation -------------------------
(***************************************************************************)
(* Values of the constants of AgentDelegation for TLC.                     *)
(***************************************************************************)
EXTENDS AgentDelegation

MCTargets == {"sdg", "eval"}
MCAskers  == {"eval"}
MCSteps   == {"gather"}
=============================================================================
