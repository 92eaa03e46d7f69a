------------------------------- MODULE Outbox -------------------------------
(***************************************************************************)
(* The doorbell outbox of octo-matter: transitions and other writers       *)
(* enqueue rows (repository/v2_repos.go), one dispatcher loop sends what   *)
(* is due and marks each row afterwards (service/engine_svc.go), readers   *)
(* consume the rows addressed to them, and deleting a matter parks its     *)
(* rows.                                                                   *)
(*                                                                         *)
(* No statement of the dispatcher shares a transaction with another: it    *)
(* reads a batch, sends a row, marks that row and escalates it in four     *)
(* actions, and everybody else moves in between.  The process may crash    *)
(* anywhere, which forgets the batch and the requests under way but no row.*)
(***************************************************************************)
EXTENDS Integers, FiniteSets

CONSTANTS
    Id,          \* outbox row ids
    Spare,       \* the ids kept for escalations: a bound must not hold one up
    Matter,      \* matters that ring
    User,        \* users that are rung
    Creator,     \* Creator[m]: the user that created m
    Nothing,     \* no row, matter or user
    Limit,       \* rows a scan reads at most (50 in the code)
    MaxRetries,  \* EngineConfig.MaxRetries
    Cap,         \* counters saturate here: nothing is decided above MaxRetries
    MaxCrashes,  \* bound on crashes
    MaxLost,     \* bound on marks that the database refuses
    MaxRequests  \* bound on requests between their read and their write

ASSUME RingAssumption ==
    /\ Nothing \notin Id \cup Matter \cup User
    /\ Spare \subseteq Id
    /\ Creator \in [Matter -> User]
    /\ MaxRetries \in Nat \ {0}
    /\ Cap \in Nat /\ Cap >= MaxRetries
    /\ Limit \in Nat /\ MaxCrashes \in Nat /\ MaxLost \in Nat /\ MaxRequests \in Nat

VARIABLES
    row,       \* the matter_outbox table
    live,      \* matters that are not deleted
    reading,   \* requests that read a matter and are about to consume its rings
    ringing,   \* requests that read a matter and are about to ring about it
    parking,   \* deletes that have yet to park their matter's rows
    batch,     \* rows of the current scan that were not sent yet
    hand,      \* the row the dispatcher has just sent
    sent,      \* history: how often each row was delivered and refused
    crashes, lost

table == <<row, live>>
requests == <<reading, ringing, parking>>
dispatcher == <<batch, hand>>
faults == <<crashes, lost>>
vars == <<row, live, reading, ringing, parking, batch, hand, sent, crashes, lost>>

RowEvent == {"ring", "homecoming", "escalation"}

Row == [state: {"absent", "pending", "delivered", "consumed", "dead"},
        matter: Matter \cup {Nothing}, target: User \cup {Nothing},
        event: RowEvent,
        cause: Id \cup {Nothing},   \* the dead row an escalation is about
        retry: 0..Cap,              \* retry_count
        due: BOOLEAN]               \* next_retry_at or the re-ring window has passed

Look == [by: User, m: Matter]

Hand == [at: {"idle", "sent", "dead"}, id: Id \cup {Nothing}, retry: 0..Cap, ok: BOOLEAN]

TypeOK ==
    /\ row \in [Id -> Row]
    /\ live \subseteq Matter
    /\ reading \subseteq Look
    /\ ringing \subseteq Matter \X User
    /\ parking \subseteq Matter
    /\ batch \subseteq [id: Id, retry: 0..Cap]
    /\ hand \in Hand
    /\ sent \in [Id -> [delivered: 0..Cap, refused: 0..Cap]]
    /\ crashes \in 0..MaxCrashes
    /\ lost \in 0..MaxLost

Absent == [state |-> "absent", matter |-> Nothing, target |-> Nothing, event |-> "ring",
           cause |-> Nothing, retry |-> 0, due |-> FALSE]

Idle == [at |-> "idle", id |-> Nothing, retry |-> 0, ok |-> FALSE]

Init ==
    /\ row = [r \in Id |-> Absent]
    /\ live = Matter
    /\ reading = {} /\ ringing = {} /\ parking = {}
    /\ batch = {}
    /\ hand = Idle
    /\ sent = [r \in Id |-> [delivered |-> 0, refused |-> 0]]
    /\ crashes = 0
    /\ lost = 0

-----------------------------------------------------------------------------
(* The table. *)

\* A row that still rings: pending, or delivered and not consumed.
Ringing(r) == row[r].state \in {"pending", "delivered"}

RowsOf(m) == {r \in Id : row[r].matter = m /\ row[r].state # "absent"}

More(n) == IF n < Cap THEN n + 1 ELSE Cap

\* OutboxRepo.Enqueue: a new row is due at once.
Enqueue(m, to, event, cause) ==
    \E r \in IF event = "escalation" THEN Spare ELSE Id \ Spare :
        /\ row[r].state = "absent"
        /\ row' = [row EXCEPT ![r] = [state |-> "pending", matter |-> m, target |-> to,
                                      event |-> event, cause |-> cause, retry |-> 0,
                                      due |-> TRUE]]

\* Mutant of IsDue: the scan forgets the redeliveries.
OnlyFirstDeliveries(r) == row[r].state = "pending" /\ row[r].due

\* What the scan selects: pending rows whose retry time has come and delivered
\* rows whose window has passed.
IsDue(r) == Ringing(r) /\ row[r].due

\* MarkDelivered writes the row whatever its state is by now.  The assignments
\* of the UPDATE run from left to right, so its IF reads the state just written.
MarkedDelivered(r) ==
    [row EXCEPT ![r].state = "delivered", ![r].retry = More(@), ![r].due = FALSE]

\* Mutant of MarkedFailed: gives up one attempt early.
MarkedFailedEarly(r, retry) ==
    [row EXCEPT ![r].state = IF retry + 1 >= MaxRetries THEN "dead" ELSE "pending",
                ![r].retry = retry, ![r].due = FALSE]

\* Mutant of MarkedFailed: a row out of retries is still pending when it is escalated.
MarkedFailedLate(r, retry) ==
    [row EXCEPT ![r].state = IF retry > MaxRetries THEN "dead" ELSE "pending",
                ![r].retry = retry, ![r].due = FALSE]

\* MarkFailed, with the count the scan read.
MarkedFailed(r, retry) ==
    [row EXCEPT ![r].state = IF retry >= MaxRetries THEN "dead" ELSE "pending",
                ![r].retry = retry, ![r].due = FALSE]

\* Mutant of Consumable: the reader also parks posts made in its name.
ConsumableByName(u, m) == {r \in RowsOf(m) : row[r].target = u /\ Ringing(r)}

\* MarkConsumed: every live ring of the matter for the user, homecoming apart.
Consumable(u, m) ==
    {r \in RowsOf(m) : row[r].target = u /\ Ringing(r) /\ row[r].event # "homecoming"}

Consumed(rows) == [r \in Id |-> IF r \in rows THEN [row[r] EXCEPT !.state = "consumed"]
                                ELSE row[r]]

-----------------------------------------------------------------------------
(* Writers. *)

\* A transition enqueues in the transaction that locked the live matter.
RingInTransition(m, to, event) ==
    /\ m \in live
    /\ Enqueue(m, to, event, Nothing)
    /\ UNCHANGED <<live, requests, dispatcher, sent, faults>>

\* Assignment, schedule, watchdog and join rings: the matter is read first ...
ReadToRing(m, to) ==
    /\ m \in live
    /\ Cardinality(ringing) < MaxRequests
    /\ ringing' = ringing \cup {<<m, to>>}
    /\ UNCHANGED <<table, reading, parking, dispatcher, sent, faults>>

\* ... and EnqueueStandalone rings in a transaction of its own.
EnqueueStandalone(m, to) ==
    /\ <<m, to>> \in ringing
    /\ Enqueue(m, to, "ring", Nothing)
    /\ ringing' = ringing \ {<<m, to>>}
    /\ UNCHANGED <<live, reading, parking, dispatcher, sent, faults>>

\* SoftDelete stamps the matter, then parks its live rows.
Delete(m) ==
    /\ m \in live
    /\ live' = live \ {m}
    /\ parking' = parking \cup {m}
    /\ UNCHANGED <<row, reading, ringing, dispatcher, sent, faults>>

Park(m) ==
    /\ m \in parking
    /\ row' = Consumed({r \in RowsOf(m) : Ringing(r)})
    /\ parking' = parking \ {m}
    /\ UNCHANGED <<live, reading, ringing, dispatcher, sent, faults>>

-----------------------------------------------------------------------------
(* Readers. *)

\* A handler reads the matter for u ...
ReadMatter(u, m) ==
    /\ m \in live
    /\ Cardinality(reading) < MaxRequests
    /\ reading' = reading \cup {[by |-> u, m |-> m]}
    /\ UNCHANGED <<table, ringing, parking, dispatcher, sent, faults>>

\* ... and then consumes u's doorbells about it.
ConsumeDoorbells(look) ==
    /\ row' = Consumed(Consumable(look.by, look.m))
    /\ reading' = reading \ {look}
    /\ UNCHANGED <<live, ringing, parking, dispatcher, sent, faults>>

-----------------------------------------------------------------------------
(* The dispatcher. *)

\* Time passes until the row's retry time, or its re-ring window.
Elapse(r) ==
    /\ Ringing(r) /\ ~row[r].due
    /\ row' = [row EXCEPT ![r].due = TRUE]
    /\ UNCHANGED <<live, requests, dispatcher, sent, faults>>

\* A tick scans for due rows.
Scan ==
    /\ batch = {} /\ hand = Idle
    /\ \E rows \in SUBSET {r \in Id : IsDue(r)} :
          /\ rows # {}
          /\ \/ rows = {r \in Id : IsDue(r)} /\ Cardinality(rows) <= Limit
             \/ Cardinality(rows) = Limit
          /\ batch' = {[id |-> r, retry |-> row[r].retry] : r \in rows}
    /\ UNCHANGED <<table, requests, hand, sent, faults>>

\* The next row of the scan is sent; octo-server delivers it or refuses it.
Send(entry, ok) ==
    /\ hand = Idle
    /\ entry \in batch
    /\ batch' = batch \ {entry}
    /\ hand' = [at |-> "sent", id |-> entry.id, retry |-> entry.retry, ok |-> ok]
    /\ sent' = IF ok THEN [sent EXCEPT ![entry.id].delivered = More(@)]
               ELSE [sent EXCEPT ![entry.id].refused = More(@)]
    /\ UNCHANGED <<table, requests, faults>>

\* Mutant of Mark: a post is marked like a ring.
MarkAlike ==
    /\ hand.at = "sent"
    /\ LET r == hand.id
           retry == More(hand.retry) IN
       IF hand.ok
       THEN row' = MarkedDelivered(r) /\ hand' = Idle
       ELSE /\ row' = MarkedFailed(r, retry)
            /\ hand' = IF retry >= MaxRetries THEN [hand EXCEPT !.at = "dead"] ELSE Idle
    /\ UNCHANGED <<live, requests, batch, sent, faults>>

\* The row in hand is marked; a failure that uses up its retries leaves the
\* dispatcher to escalate it.
Mark ==
    /\ hand.at = "sent"
    /\ LET r == hand.id
           retry == More(hand.retry) IN
       IF hand.ok
       THEN /\ row' = IF row[r].event = "homecoming" THEN Consumed({r}) ELSE MarkedDelivered(r)
            /\ hand' = Idle
       ELSE /\ row' = MarkedFailed(r, retry)
            /\ hand' = IF retry >= MaxRetries THEN [hand EXCEPT !.at = "dead"] ELSE Idle
    /\ UNCHANGED <<live, requests, batch, sent, faults>>

\* The database refuses the mark: it is logged and the row is left as it was.
MarkLost ==
    /\ hand.at = "sent"
    /\ lost < MaxLost
    /\ lost' = lost + 1
    /\ hand' = IF ~hand.ok /\ More(hand.retry) >= MaxRetries
               THEN [hand EXCEPT !.at = "dead"] ELSE Idle
    /\ UNCHANGED <<table, requests, batch, sent, crashes>>

\* Mutant of Escalate: the wrong way round.
EscalateToCreatorOnly ==
    /\ hand.at = "dead"
    /\ hand' = Idle
    /\ LET m == row[hand.id].matter IN
       IF m \in live /\ Creator[m] = row[hand.id].target
       THEN Enqueue(m, Creator[m], "escalation", hand.id)
       ELSE UNCHANGED row
    /\ UNCHANGED <<live, requests, batch, sent, faults>>

\* escalateDead: the creator of a live matter hears of a ring that failed for
\* somebody else.
Escalate ==
    /\ hand.at = "dead"
    /\ hand' = Idle
    /\ LET m == row[hand.id].matter IN
       IF m \in live /\ Creator[m] # row[hand.id].target
       THEN Enqueue(m, Creator[m], "escalation", hand.id)
       ELSE UNCHANGED row
    /\ UNCHANGED <<live, requests, batch, sent, faults>>

\* The process stops and starts again: only the tables survive.
Crash ==
    /\ crashes < MaxCrashes
    /\ crashes' = crashes + 1
    /\ reading' = {} /\ ringing' = {} /\ parking' = {}
    /\ batch' = {} /\ hand' = Idle
    /\ UNCHANGED <<table, sent, lost>>

Next ==
    \/ \E m \in Matter, u \in User, event \in {"ring", "homecoming"} :
          RingInTransition(m, u, event)
    \/ \E m \in Matter, u \in User : ReadToRing(m, u)
    \/ \E m \in Matter, u \in User : EnqueueStandalone(m, u)
    \/ \E m \in Matter : Delete(m)
    \/ \E m \in Matter : Park(m)
    \/ \E u \in User, m \in Matter : ReadMatter(u, m)
    \/ \E look \in reading : ConsumeDoorbells(look)
    \/ \E r \in Id : Elapse(r)
    \/ Scan
    \/ \E entry \in batch, ok \in BOOLEAN : Send(entry, ok)
    \/ Mark
    \/ MarkLost
    \/ Escalate
    \/ Crash

Spec == Init /\ [][Next]_vars

\* The loop ticks for ever, handlers run to their end, and time passes.
FairSpec ==
    /\ Spec
    /\ WF_vars(Scan)
    /\ WF_vars(\E entry \in batch, ok \in BOOLEAN : Send(entry, ok))
    /\ WF_vars(Mark)
    /\ WF_vars(Escalate)
    /\ \A r \in Id : WF_vars(Elapse(r))

-----------------------------------------------------------------------------
(* Properties. *)

Attempts(r) == sent[r].delivered + sent[r].refused

\* A ring is given up, and its failure reported, only after MaxRetries attempts,
\* whatever crashes, lost marks and readers do to the row's counter meanwhile.
GivesUpAfterRetries ==
    \A r \in Id : row[r].state = "dead" \/ (\E e \in Id : row[e].cause = r)
                    => Attempts(r) >= MaxRetries

\* A progress post is never parked by its sender's own reads: while its matter
\* lives it is closed only by having been posted.
PostsCloseByPosting ==
    \A r \in Id :
        (row[r].event = "homecoming" /\ row[r].state = "consumed" /\ row[r].matter \in live)
            => sent[r].delivered > 0

\* A ring that nobody consumes is sent again and again until it is dead.
NagsUntilSettled ==
    \A r \in Id : []<>(hand.id = r) \/ []<>~Ringing(r)

\* A dead ring of a live matter is reported to the creator, unless the dispatcher
\* crashes in between.
DeadIsEscalated ==
    \A r \in Id :
        (row[r].state = "dead" /\ row[r].target # Creator[row[r].matter])
            ~> \/ row[r].matter \notin live
               \/ crashes > 0
               \/ \E e \in Id : row[e].cause = r

\* A progress post is posted once, unless its mark is lost to a crash or a refusal.
PostedOnce ==
    \A r \in Id : row[r].event = "homecoming"
        => sent[r].delivered <= 1 \/ crashes > 0 \/ lost > 0

\* The creator hears of a dead ring once, unless the mark that kills it is refused.
EscalatedOnce ==
    \A e, f \in Id : (e # f /\ row[e].cause # Nothing /\ row[e].cause = row[f].cause)
                        => lost > 0

=============================================================================
