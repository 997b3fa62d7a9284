-------------------------- MODULE MCSessionRegistry --------------------------
(***************************************************************************)
(* Small instances of SessionRegistry: names, session objects and          *)
(* connections are interchangeable.                                        *)
(***************************************************************************)
EXTENDS SessionRegistryProps, TLC

Symmetry == Permutations(Name) \cup Permutations(Session) \cup Permutations(Client)
=============================================================================
