-------------------------- MODULE MCAgentRuntimeV2 --------------------------
(***************************************************************************)
(* Instance of AgentRuntimeV2: the user's text and one that a rewrite can  *)
(* go to or a proposal confuse with it, and two verdicts.  The texts are   *)
(* interchangeable, but the run checks a liveness property, so no symmetry *)
(* is declared.                                                            *)
(***************************************************************************)
EXTENDS AgentRuntimeV2, TLC

CONSTANTS q1, q2

=============================================================================
