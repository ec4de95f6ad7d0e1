-------------------------- MODULE MCSelectiveAgent --------------------------
(***************************************************************************)
(* Instance of SelectiveAgent: the user's text and one a rewrite can go to.*)
(***************************************************************************)
EXTENDS SelectiveAgent, TLC

CONSTANTS q1, q2

=============================================================================
