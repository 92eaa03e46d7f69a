------------------------------- MODULE MCSpaces -------------------------------
(* Small instances of Spaces. *)
EXTENDS Spaces, TLC

CONSTANTS owner, u1, u2, q1, q2

Alike == Permutations({u1, u2}) \cup Permutations({q1, q2})
=============================================================================
