------------------------------ MODULE MCOutbox ------------------------------
(* Small instances of Outbox: one matter m, made by the human h, led by a bot. *)
EXTENDS Outbox, TLC

CONSTANTS m1, h, agent, r1, r2, e1, e2

MadeByHuman == m1 :> h


Interchangeable == Permutations({e1, e2})
=============================================================================
