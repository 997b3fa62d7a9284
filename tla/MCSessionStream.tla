--------------------------- MODULE MCSessionStream ---------------------------
(***************************************************************************)
(* Small instances of SessionStream: connections are interchangeable.      *)
(***************************************************************************)
EXTENDS SessionStreamProps, TLC

Symmetry == Permutations(Conn)
=============================================================================
