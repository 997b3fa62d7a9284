--------------------------- MODULE MCShareCredentials ---------------------------
(***************************************************************************)
(* ShareCredentials for TLC.  The environment pins nothing, or the name and *)
(* the switch; requests and passwords are interchangeable.                  *)
(***************************************************************************)
EXTENDS ShareCredentials, TLC

CONSTANTS u1, u2

Unpinned == {[enabled |-> "unset", user |-> NoUser, pw |-> NoPassword]}
Pinned == Unpinned \cup {[enabled |-> "on", user |-> u2, pw |-> NoPassword]}

Symmetry == Permutations(Request) \cup Permutations(Password)
=============================================================================
