--------------------------- MODULE MCConversation ---------------------------
(***************************************************************************)
(* Instances of Conversation: one or two sessions, one or two request ids, *)
(* two command-line processes and one API handler.                         *)
(***************************************************************************)
EXTENDS Conversation, TLC

CONSTANTS s1, s2, r1, r2, cli1, cli2, api1, api2

\* Sessions and requests are interchangeable, and so are the processes of a kind.
Symmetry ==
  Permutations(Sessions) \cup Permutations(Requests) \cup Permutations(Cli)
    \cup Permutations(Api)

=============================================================================
