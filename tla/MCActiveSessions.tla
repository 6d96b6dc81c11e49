--------------------------- MODULE MCActiveSessions ---------------------------
(***************************************************************************)
(* ActiveSessions on small instances.                                      *)
(***************************************************************************)
EXTENDS ActiveSessions, TLC

Symmetry == Permutations(Sessions) \cup Permutations(Requests)

===============================================================================
