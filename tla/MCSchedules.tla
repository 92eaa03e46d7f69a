----------------------------- MODULE MCSchedules -----------------------------
(* Small instances of Schedules. *)
EXTENDS Schedules

CONSTANTS s1, s2
=============================================================================
