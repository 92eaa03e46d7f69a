------------------------------- MODULE BotTasks -------------------------------
(***************************************************************************)
(* The queue of agent runs of one matter (service/bot_task_svc.go and      *)
(* BotTaskRepo in repository/v2_repos.go): fleet creates tasks, executors  *)
(* claim them and acknowledge them with the token the claim gave them, and *)
(* the result is written back into the matter.                             *)
(*                                                                         *)
(* A claim selects queued ids and then flips them one statement at a time. *)
(* An acknowledgement finalizes the row, and then looks the matter up,     *)
(* writes the timeline entry and rings: each a statement of its own, which *)
(* may fail or never run because the process crashes.                      *)
(***************************************************************************)
EXTENDS Integers

CONSTANTS
    Task,         \* ids of tasks
    Executor,     \* callers of claim; each has one claim under way at most
    Nobody,       \* no claim token
    MaxFailures,  \* bound on statements that fail and on answers that are lost
    MaxCrashes    \* bound on crashes

ASSUME BotTasksAssumption ==
    /\ Nobody \notin Executor
    /\ MaxFailures \in Nat /\ MaxCrashes \in Nat

VARIABLES
    row,      \* the matter_bot_tasks table
    todo,     \* ids a claim has selected and not yet flipped
    got,      \* tasks it has flipped and will answer with their tokens
    known,    \* tasks whose token an executor was told
    work,     \* what the handlers still have to do after their first write
    entries,  \* timeline entries about a task with a result
    rung,     \* who was rung about a task: its bot, or whoever waits for it
    gone,     \* the matter was deleted
    failures, crashes

claims == <<todo, got, known>>
matter == <<entries, rung, gone>>
vars == <<row, todo, got, known, work, entries, rung, gone, failures, crashes>>

Result == {"succeeded", "failed"}

\* The token a claim stamps is fresh; the executor it is stamped for stands for it.
Row == [status: {"none", "queued"}, token: {Nobody}]
       \cup [status: {"dispatched"} \cup Result, token: Executor]

\* After Create the bot is rung.  After Ack the matter is looked up, the entry is
\* written, and whoever waits for the bot is rung.
Work == [task: Task, at: {"announce"}, result: {"none"}]
        \cup [task: Task, at: {"lookup", "write", "report"}, result: Result]

TypeOK ==
    /\ row \in [Task -> Row]
    /\ todo \in [Executor -> SUBSET Task]
    /\ got \in [Executor -> SUBSET Task]
    /\ known \in [Executor -> SUBSET Task]
    /\ work \subseteq Work
    /\ entries \in [Task \X Result -> 0..2]
    /\ rung \subseteq Task \X {"bot", "waiting"}
    /\ gone \in BOOLEAN
    /\ failures \in 0..MaxFailures /\ crashes \in 0..MaxCrashes

Init ==
    /\ row = [t \in Task |-> [status |-> "none", token |-> Nobody]]
    /\ todo = [e \in Executor |-> {}] /\ got = [e \in Executor |-> {}]
    /\ known = [e \in Executor |-> {}]
    /\ work = {}
    /\ entries = [k \in Task \X Result |-> 0] /\ rung = {} /\ gone = FALSE
    /\ failures = 0 /\ crashes = 0

Create(t) ==
    /\ ~gone
    /\ row[t].status = "none"
    /\ row' = [row EXCEPT ![t] = [status |-> "queued", token |-> Nobody]]
    /\ work' = work \cup {[task |-> t, at |-> "announce", result |-> "none"]}
    /\ UNCHANGED <<claims, matter, failures, crashes>>

Announce(w) ==
    /\ w \in work /\ w.at = "announce"
    /\ rung' = rung \cup {<<w.task, "bot">>}
    /\ work' = work \ {w}
    /\ UNCHANGED <<row, claims, entries, gone, failures, crashes>>

-----------------------------------------------------------------------------
(* Claiming. *)

\* The ids are those of the bots the executor names, up to a limit.
Select(e) ==
    /\ todo[e] = {} /\ got[e] = {}
    /\ \E ids \in SUBSET {t \in Task : row[t].status = "queued"} :
          ids # {} /\ todo' = [todo EXCEPT ![e] = ids]
    /\ UNCHANGED <<row, got, known, work, matter, failures, crashes>>

\* Mutant of Claimable: the update does not pin the status.
ClaimableStale(t) == row[t].status # "none"

Claimable(t) == row[t].status = "queued"

Claimed(e) == [status |-> "dispatched", token |-> e]

Flip(e, t) ==
    /\ t \in todo[e]
    /\ todo' = [todo EXCEPT ![e] = @ \ {t}]
    /\ \/ /\ Claimable(t)
          /\ row' = [row EXCEPT ![t] = Claimed(e)]
          /\ got' = [got EXCEPT ![e] = @ \cup {t}]
       \/ ~Claimable(t) /\ UNCHANGED <<row, got>>
    /\ UNCHANGED <<known, work, matter, failures, crashes>>

\* Mutant of ClaimAnswer: the answer has room for one task.
ClaimAnswerOne(e) ==
    /\ todo[e] = {} /\ got[e] # {}
    /\ \E t \in got[e] : known' = [known EXCEPT ![e] = @ \cup {t}]
    /\ got' = [got EXCEPT ![e] = {}]
    /\ UNCHANGED <<row, todo, work, matter, failures, crashes>>

ClaimAnswer(e) ==
    /\ todo[e] = {} /\ got[e] # {}
    /\ known' = [known EXCEPT ![e] = @ \cup got[e]]
    /\ got' = [got EXCEPT ![e] = {}]
    /\ UNCHANGED <<row, todo, work, matter, failures, crashes>>

\* A statement of the claim fails, or its answer does not arrive.
ClaimFails(e) ==
    /\ todo[e] # {} \/ got[e] # {}
    /\ failures < MaxFailures
    /\ failures' = failures + 1
    /\ todo' = [todo EXCEPT ![e] = {}]
    /\ got' = [got EXCEPT ![e] = {}]
    /\ UNCHANGED <<row, known, work, matter, crashes>>

-----------------------------------------------------------------------------
(* Acknowledging. *)

\* Mutant of Ackable: only the token is compared.
AckableByToken(e, t) == row[t].token = e

Ackable(e, t) == row[t].token = e /\ row[t].status = "dispatched"

\* Any other acknowledgement, a repeated one above all, is a conflict.
Ack(e, t, r) ==
    /\ t \in known[e]
    /\ Ackable(e, t)
    /\ row' = [row EXCEPT ![t].status = r]
    /\ work' = work \cup {[task |-> t, at |-> "lookup", result |-> r]}
    /\ UNCHANGED <<claims, matter, failures, crashes>>

\* Mutant of LookUp: a failed run is not written back.
LookUpSucceeded(w) ==
    /\ w \in work /\ w.at = "lookup"
    /\ work' = (work \ {w}) \cup IF gone \/ w.result = "failed" THEN {}
                                ELSE {[w EXCEPT !.at = "write"]}
    /\ UNCHANGED <<row, claims, matter, failures, crashes>>

LookUp(w) ==
    /\ w \in work /\ w.at = "lookup"
    /\ work' = (work \ {w}) \cup IF gone THEN {} ELSE {[w EXCEPT !.at = "write"]}
    /\ UNCHANGED <<row, claims, matter, failures, crashes>>

Write(w) ==
    /\ w \in work /\ w.at = "write"
    /\ entries' = [entries EXCEPT ![<<w.task, w.result>>] = IF @ < 2 THEN @ + 1 ELSE 2]
    /\ work' = (work \ {w}) \cup {[w EXCEPT !.at = "report"]}
    /\ UNCHANGED <<row, claims, rung, gone, failures, crashes>>

Report(w) ==
    /\ w \in work /\ w.at = "report"
    /\ rung' = rung \cup {<<w.task, "waiting">>}
    /\ work' = work \ {w}
    /\ UNCHANGED <<row, claims, entries, gone, failures, crashes>>

\* A failed entry is only logged, and the ring is still tried; a failed lookup counts
\* as a vanished matter; a failed ring is ignored.
WorkFails(w) ==
    /\ w \in work
    /\ failures < MaxFailures
    /\ failures' = failures + 1
    /\ work' = (work \ {w}) \cup IF w.at = "write" THEN {[w EXCEPT !.at = "report"]} ELSE {}
    /\ UNCHANGED <<row, claims, matter, crashes>>

Delete ==
    /\ ~gone
    /\ gone' = TRUE
    /\ UNCHANGED <<row, claims, work, entries, rung, failures, crashes>>

Crash ==
    /\ crashes < MaxCrashes
    /\ crashes' = crashes + 1
    /\ todo' = [e \in Executor |-> {}] /\ got' = [e \in Executor |-> {}]
    /\ work' = {}
    /\ UNCHANGED <<row, known, matter, failures>>

Next ==
    \/ \E t \in Task : Create(t)
    \/ \E e \in Executor : Select(e) \/ ClaimAnswer(e) \/ ClaimFails(e)
    \/ \E e \in Executor, t \in Task : Flip(e, t)
    \/ \E e \in Executor, t \in Task, r \in Result : Ack(e, t, r)
    \/ \E w \in work : Announce(w) \/ LookUp(w) \/ Write(w) \/ Report(w) \/ WorkFails(w)
    \/ Delete
    \/ Crash

Spec == Init /\ [][Next]_vars

-----------------------------------------------------------------------------
(* Properties. *)

Holds(e) == got[e] \cup known[e]

\* Executors that race for the same ids are never told that they both hold a task.
OneHolder ==
    \A e1, e2 \in Executor : e1 # e2 => Holds(e1) \cap Holds(e2) = {}

\* However often and however differently a run is acknowledged, its matter's timeline
\* tells one result of it, the one the queue has.
TimelineTellsResult ==
    \A t \in Task, r \in Result :
        entries[<<t, r>>] <= IF row[t].status = r THEN 1 ELSE 0

Undisturbed == failures = 0 /\ crashes = 0

\* A task that left the queue is in the hands of an executor that can acknowledge it,
\* unless a claim has failed or crashed midway.
DispatchedIsHeld ==
    Undisturbed =>
        \A t \in Task : row[t].status = "dispatched" => \E e \in Executor : t \in Holds(e)

Underway(t) == \E w \in work : w.task = t /\ w.at # "announce"

\* An acknowledged run is on the timeline of its matter, unless a statement has failed
\* or the process has crashed.
AckedIsWritten ==
    Undisturbed =>
        \A t \in Task :
            row[t].status \in Result =>
                gone \/ Underway(t) \/ entries[<<t, row[t].status>>] > 0

-----------------------------------------------------------------------------
(* The queue implements the ledger of runs. *)

\* The token of a task that somebody was or will be told of names its holder.
holder == [t \in Task |-> IF \E e \in Executor : t \in Holds(e) THEN row[t].token ELSE Nobody]

Ledger == INSTANCE RunLedger WITH status <- [t \in Task |-> row[t].status], told <- entries

\* Every step of the queue, its failures and crashes included, is one of the ledger's or
\* changes nothing of it: a run has one holder, which nobody takes it from, is settled
\* once, and its timeline tells that result once.
ImplementsLedger == Ledger!LedgerSpec

=============================================================================
