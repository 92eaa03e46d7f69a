------------------------------- MODULE MCGrants -------------------------------
(* Small instances of Grants. *)
EXTENDS Grants, TLC

CONSTANTS b1, b2, r1, r2

Alike == Permutations({b1, b2}) \cup Permutations(Request)

\* After a fault, one request at a time.
OneAfterFault == faults > 0 => \E r \in Request : req[r] = Idle
=============================================================================
