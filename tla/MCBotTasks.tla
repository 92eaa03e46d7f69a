------------------------------ MODULE MCBotTasks ------------------------------
(* Small instances of BotTasks. *)
EXTENDS BotTasks

CONSTANTS t1, t2, e1, e2
=============================================================================
