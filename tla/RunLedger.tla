------------------------------- MODULE RunLedger -------------------------------
(***************************************************************************)
(* What the queue of agent runs promises, without claims in stages, tokens *)
(* or write-backs: a run is posted, taken by one executor, settled once by *)
(* whoever holds it, and told on the timeline once, as it was settled.  A  *)
(* run may be lost by its executor before it is settled; it is never       *)
(* posted or handed out again.                                             *)
(***************************************************************************)
EXTENDS Integers

CONSTANTS Task, Executor, Nobody

VARIABLES
    status,  \* how far a run is
    holder,  \* the executor that holds it
    told     \* how often a result of it is on the timeline

ledger == <<status, holder, told>>

Result == {"succeeded", "failed"}

LedgerInit ==
    /\ status = [t \in Task |-> "none"]
    /\ holder = [t \in Task |-> Nobody]
    /\ told = [k \in Task \X Result |-> 0]

Post(t) ==
    /\ status[t] = "none"
    /\ status' = [status EXCEPT ![t] = "queued"]
    /\ UNCHANGED <<holder, told>>

Take(t, e) ==
    /\ status[t] = "queued" /\ holder[t] = Nobody
    /\ status' = [status EXCEPT ![t] = "dispatched"]
    /\ holder' = [holder EXCEPT ![t] = e]
    /\ UNCHANGED told

Lose(S) ==
    /\ \A t \in S : status[t] = "dispatched" /\ holder[t] # Nobody
    /\ holder' = [t \in Task |-> IF t \in S THEN Nobody ELSE holder[t]]
    /\ UNCHANGED <<status, told>>

Settle(t, r) ==
    /\ status[t] = "dispatched" /\ holder[t] # Nobody
    /\ status' = [status EXCEPT ![t] = r]
    /\ UNCHANGED <<holder, told>>

Tell(t, r) ==
    /\ status[t] = r
    /\ \A s \in Result : told[<<t, s>>] = 0
    /\ told' = [told EXCEPT ![<<t, r>>] = 1]
    /\ UNCHANGED <<status, holder>>

LedgerNext ==
    \/ \E t \in Task : Post(t)
    \/ \E t \in Task, e \in Executor : Take(t, e)
    \/ \E S \in SUBSET Task : Lose(S)
    \/ \E t \in Task, r \in Result : Settle(t, r) \/ Tell(t, r)

LedgerSpec == LedgerInit /\ [][LedgerNext]_ledger
=============================================================================
