------------------------------ MODULE Schedules ------------------------------
(***************************************************************************)
(* Standing delegations: one runner loop stamps out a matter for every     *)
(* slot of every enabled schedule and rings its executor, while users edit *)
(* and delete the schedules (service/schedule_svc.go, ScheduleRepo in      *)
(* repository/v2_repos.go).                                                *)
(*                                                                         *)
(* The runner works on copies of the rows it scanned.  Looking a slot up,  *)
(* inserting its matter, ringing and the bookkeeping are four statements,  *)
(* and so are a user's read of a schedule and the write of the whole row.  *)
(* Any statement of the runner may fail, and the process may crash.        *)
(***************************************************************************)
EXTENDS Integers, FiniteSets

CONSTANTS
    Schedule,     \* ids of schedules
    Every,        \* cron expressions: e stands for the times e, 2e, 3e, ...
    Nothing,      \* no schedule, or none yet
    Deleted,      \* the row of a deleted schedule, whose id is never used again
    Limit,        \* schedules a scan reads at most (20 in the code)
    MaxTime,      \* bound on the clock
    MaxEdits,     \* bound on edits between their read and their write
    MaxFailures,  \* bound on statements that fail
    MaxCrashes    \* bound on crashes

ASSUME ScheduleAssumption ==
    /\ Nothing # Deleted
    /\ Every \subseteq Nat \ {0}
    /\ Limit \in Nat \ {0} /\ MaxTime \in Nat /\ MaxEdits \in Nat
    /\ MaxFailures \in Nat /\ MaxCrashes \in Nat

VARIABLES
    clock,
    row,       \* the matter_schedules table
    edits,     \* updates that have read their schedule
    batch,     \* copies of the scanned schedules that are still to be fired
    hand,      \* the copy the runner is at, and the statement it is about to run
    matters,   \* <<schedule, slot>> of every matter stamped out, deleted or not
    gone,      \* those whose matter was deleted
    rings,     \* how often the executor was rung about each
    failures, crashes

runner == <<batch, hand>>
outcome == <<matters, gone, rings>>
vars == <<clock, row, edits, batch, hand, matters, gone, rings, failures, crashes>>

Row == [enabled: BOOLEAN, every: Every, next: Nat]

Copy == [id: Schedule, was: Row]

Key == Schedule \X Nat

TypeOK ==
    /\ clock \in 0..MaxTime
    /\ row \in [Schedule -> Row \cup {Nothing, Deleted}]
    /\ edits \subseteq Copy
    /\ batch \subseteq Copy
    /\ \/ hand = Nothing
       \/ hand \in [copy: Copy, at: {"lookup", "create", "ring", "book"}]
    /\ matters \subseteq Key /\ gone \subseteq matters
    /\ rings \in [matters -> 0..2]
    /\ failures \in 0..MaxFailures /\ crashes \in 0..MaxCrashes

Init ==
    /\ clock = 0
    /\ row = [s \in Schedule |-> Nothing]
    /\ edits = {} /\ batch = {} /\ hand = Nothing
    /\ matters = {} /\ gone = {} /\ rings = [k \in {} |-> 0]
    /\ failures = 0 /\ crashes = 0

Tick ==
    /\ clock < MaxTime
    /\ clock' = clock + 1
    /\ UNCHANGED <<row, edits, runner, outcome, failures, crashes>>

\* sched.Next(now)
NextSlot(e, t) == (t \div e + 1) * e

Present(s) == row[s] \notin {Nothing, Deleted}

-----------------------------------------------------------------------------
(* Users. *)

Create(s, e) ==
    /\ row[s] = Nothing
    /\ row' = [row EXCEPT ![s] = [enabled |-> TRUE, every |-> e, next |-> NextSlot(e, clock)]]
    /\ UNCHANGED <<clock, edits, runner, outcome, failures, crashes>>

UpdateRead(s) ==
    /\ Present(s)
    /\ Cardinality(edits) < MaxEdits
    /\ edits' = edits \cup {[id |-> s, was |-> row[s]]}
    /\ UNCHANGED <<clock, row, runner, outcome, failures, crashes>>

\* ScheduleRepo.Update writes every column, and no row that was deleted.
Saved(s, r) == IF Present(s) THEN [row EXCEPT ![s] = r] ELSE row

\* The update keeps or changes the switch and the expression, and plans anew.
UpdateWrite(edit, on, e) ==
    /\ row' = Saved(edit.id, [enabled |-> on, every |-> e, next |-> NextSlot(e, clock)])
    /\ edits' = edits \ {edit}
    /\ UNCHANGED <<clock, runner, outcome, failures, crashes>>

Delete(s) ==
    /\ Present(s)
    /\ row' = [row EXCEPT ![s] = Deleted]
    /\ UNCHANGED <<clock, edits, runner, outcome, failures, crashes>>

DeleteMatter(k) ==
    /\ k \in matters \ gone
    /\ gone' = gone \cup {k}
    /\ UNCHANGED <<clock, row, edits, runner, matters, rings, failures, crashes>>

-----------------------------------------------------------------------------
(* The runner. *)

Due(s) == Present(s) /\ row[s].enabled /\ row[s].next <= clock

\* A tick of the runner reads the due schedules.
Scan ==
    /\ batch = {} /\ hand = Nothing
    /\ \E due \in SUBSET {s \in Schedule : Due(s)} :
          /\ due # {}
          /\ \/ due = {s \in Schedule : Due(s)} /\ Cardinality(due) <= Limit
             \/ Cardinality(due) = Limit
          /\ batch' = {[id |-> s, was |-> row[s]] : s \in due}
    /\ UNCHANGED <<clock, row, edits, hand, outcome, failures, crashes>>

Take(c) ==
    /\ hand = Nothing
    /\ c \in batch
    /\ batch' = batch \ {c}
    /\ hand' = [copy |-> c, at |-> "lookup"]
    /\ UNCHANGED <<clock, row, edits, outcome, failures, crashes>>

\* The slot a copy is fired for.
Slot(c) == <<c.id, c.was.next>>

\* Mutants of Stamped: any run of the schedule will do; a run found is rung again.
StampedEver(c) == IF \E k \in matters \ gone : k[1] = c.id THEN "book" ELSE "create"
RingsAgain(c) == IF Slot(c) \in matters \ gone THEN "ring" ELSE "create"

\* What GetByScheduleRun, which does not see deleted matters, leaves to be done.
Stamped(c) == IF Slot(c) \in matters \ gone THEN "book" ELSE "create"

Lookup ==
    /\ hand # Nothing /\ hand.at = "lookup"
    /\ hand' = [hand EXCEPT !.at = Stamped(hand.copy)]
    /\ UNCHANGED <<clock, row, edits, batch, outcome, failures, crashes>>

\* The unique key on the slot, which sees deleted matters too, turns a second
\* insert into an error: it is logged and nobody is rung.
Insert ==
    /\ hand # Nothing /\ hand.at = "create"
    /\ LET k == Slot(hand.copy) IN
       IF k \in matters
       THEN /\ hand' = [hand EXCEPT !.at = "book"]
            /\ UNCHANGED <<matters, rings>>
       ELSE /\ hand' = [hand EXCEPT !.at = "ring"]
            /\ matters' = matters \cup {k}
            /\ rings' = [x \in matters \cup {k} |-> IF x = k THEN 0 ELSE rings[x]]
    /\ UNCHANGED <<clock, row, edits, batch, gone, failures, crashes>>

\* Mutant of Ring: the ring is forgotten.
RingNobody ==
    /\ hand # Nothing /\ hand.at = "ring"
    /\ hand' = [hand EXCEPT !.at = "book"]
    /\ UNCHANGED <<clock, row, edits, batch, outcome, failures, crashes>>

Ring ==
    /\ hand # Nothing /\ hand.at = "ring"
    /\ rings' = [rings EXCEPT ![Slot(hand.copy)] = IF @ < 2 THEN @ + 1 ELSE 2]
    /\ hand' = [hand EXCEPT !.at = "book"]
    /\ UNCHANGED <<clock, row, edits, batch, matters, gone, failures, crashes>>

\* Mutant of Booked: the schedule is left at the slot it has just fired.
BookedSameSlot(c) == c.was

\* The bookkeeping plans the next slot after now, in the copy.
Booked(c) == [c.was EXCEPT !.next = NextSlot(c.was.every, clock)]

Book ==
    /\ hand # Nothing /\ hand.at = "book"
    /\ row' = Saved(hand.copy.id, Booked(hand.copy))
    /\ hand' = Nothing
    /\ UNCHANGED <<clock, edits, batch, outcome, failures, crashes>>

\* A statement fails: the fire is over, and the bookkeeping comes next all the same.
StatementFails ==
    /\ hand # Nothing
    /\ failures < MaxFailures
    /\ failures' = failures + 1
    /\ hand' = IF hand.at = "book" THEN Nothing ELSE [hand EXCEPT !.at = "book"]
    /\ UNCHANGED <<clock, row, edits, batch, outcome, crashes>>

Crash ==
    /\ crashes < MaxCrashes
    /\ crashes' = crashes + 1
    /\ edits' = {} /\ batch' = {} /\ hand' = Nothing
    /\ UNCHANGED <<clock, row, outcome, failures>>

Next ==
    \/ Tick
    \/ \E s \in Schedule, e \in Every : Create(s, e)
    \/ \E s \in Schedule : UpdateRead(s)
    \/ \E edit \in edits, on \in BOOLEAN, e \in Every : UpdateWrite(edit, on, e)
    \/ \E s \in Schedule : Delete(s)
    \/ \E k \in matters : DeleteMatter(k)
    \/ Scan
    \/ \E c \in batch : Take(c)
    \/ Lookup
    \/ Insert
    \/ Ring
    \/ Book
    \/ StatementFails
    \/ Crash

Spec == Init /\ [][Next]_vars

\* The loop ticks for ever and runs every scanned schedule to its end.
FairSpec ==
    /\ Spec
    /\ WF_vars(Scan) /\ WF_vars(\E c \in batch : Take(c))
    /\ WF_vars(Lookup) /\ WF_vars(Insert) /\ WF_vars(Ring) /\ WF_vars(Book)

-----------------------------------------------------------------------------
(* Properties. *)

\* An executor is rung at most once about a slot, however often a crash or a failed
\* bookkeeping makes the runner fire it again.
RungOncePerSlot == \A k \in matters : rings[k] <= 1

\* The runner is done with a slot only when its matter was stamped out, or a statement
\* has failed: neither a crash nor an edit makes it skip one.
EverySlotFires ==
    (hand # Nothing /\ hand.at = "book")
        => Slot(hand.copy) \in matters \/ failures > 0

\* The runner never stays at a slot: a due schedule is planned anew, or switched off
\* or deleted.
RunnerMovesOn ==
    \A s \in Schedule, t \in 1..MaxTime :
        (Due(s) /\ row[s].next = t) ~> ~(Due(s) /\ row[s].next = t)

Rung(k) == k \in matters /\ rings[k] > 0

\* The executor of every matter stamped out hears of it, unless a crash or a failed
\* statement comes in between.
FiredIsRung ==
    \A s \in Schedule, t \in 1..MaxTime :
        (<<s, t>> \in matters) ~> (Rung(<<s, t>>) \/ crashes > 0 \/ failures > 0)

=============================================================================
