--------------------------- MODULE MCAgentSession ---------------------------
(***************************************************************************)
(* AgentSession for TLC.  The constants get model values in the .cfg files; *)
(* chats and tasks are interchangeable, so the safety runs (never the       *)
(* temporal ones) identify states that differ by a permutation of them.     *)
(***************************************************************************)
EXTENDS AgentSession, TLC

Symmetry == Permutations(Chats) \cup Permutations(Tasks)

\* Where the mixes of requests tell the chats apart.
TaskSymmetry == Permutations(Tasks)
=============================================================================
