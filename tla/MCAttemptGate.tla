----------------------------- MODULE MCAttemptGate -----------------------------
(***************************************************************************)
(* AttemptGate for TLC.                                                    *)
(***************************************************************************)
EXTENDS AttemptGateProps, TLC

Symmetry == Permutations(Attempt) \cup Permutations(Lock) \cup Permutations(Key)
=============================================================================
