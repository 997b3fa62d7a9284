---------------------------- MODULE MCUnlockSessions ----------------------------
(***************************************************************************)
(* UnlockSessions for TLC.                                                 *)
(***************************************************************************)
EXTENDS UnlockSessionsProps, TLC

Symmetry == Permutations(Request) \cup Permutations(Sid) \cup Permutations(Hash)
=============================================================================
