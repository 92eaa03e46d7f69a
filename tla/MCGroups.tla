------------------------------- MODULE MCGroups -------------------------------
(* Small instances of Groups. *)
EXTENDS Groups, TLC

CONSTANTS ann, bob, bot, q1, q2

Alike == Permutations({q1, q2})
OwnedByB == [r \in {bot} |-> bob]
=============================================================================
