-------------------------- MODULE MatterTransition --------------------------
(***************************************************************************)
(* The status machine of octo-matter: matters, their leaders, assignees    *)
(* and parents, the guarded transition (service/transition_svc.go), the    *)
(* reassignment and feedback paths (service/v2_svc.go) and the watchdog's  *)
(* blocked tier (service/engine_svc.go).                                   *)
(*                                                                         *)
(* Apply runs in one database transaction that holds the matter's row and  *)
(* then its parent's row, so it is one action.  The other handlers read    *)
(* the matter, decide, and write in a later statement: each of them is two *)
(* actions, and the request waits in `pending` in between.                 *)
(***************************************************************************)
EXTENDS Integers, FiniteSets

CONSTANTS
    Matter,      \* identities of matters (a uuid names one matter for ever)
    Human, Bot,  \* the two kinds of caller
    None,        \* the absent leader, parent, owner, step or epoch
    Parent,      \* Parent[m]: the matter m is created under, or None
    Creator,     \* Creator[m]: the user that creates m
    Owner,       \* Owner[b]: the human that owns bot b, or None
    Mode,        \* Mode[m]: the collaboration mode of m's children
    StepOrder,   \* StepOrder[m]: m's place among its siblings, or None
    Sourced,     \* matters that know their source conversation
    NewLeader,   \* leaders that requests name
    Assignable,  \* users that requests add as assignees
    Annotator,   \* humans that send feedback
    Reader,      \* users that keep what they read and send it back as a guard
    Target,      \* statuses that callers ask for
    MaxVersion,  \* bound on a matter's version
    MaxPending   \* bound on requests between their read and their write

User == Human \cup Bot

Status == {"backlog", "open", "in_progress", "review", "done", "blocked",
           "cancelled", "archived"}

Terminal == {"done", "cancelled", "archived"}

Modes == {"solo", "split", "swarm", "roundtable", "pipeline", "critic", "unset"}

ASSUME FamilyAssumption ==
    /\ None \notin Matter \cup User \cup Nat
    /\ Human \cap Bot = {}
    /\ Parent \in [Matter -> Matter \cup {None}]
    /\ \A m \in Matter : Parent[m] # m
    /\ Creator \in [Matter -> User]
    /\ Owner \in [Bot -> Human \cup {None}]
    /\ Mode \in [Matter -> Modes]
    /\ StepOrder \in [Matter -> Nat \cup {None}]

ASSUME InputAssumption ==
    /\ Sourced \subseteq Matter
    /\ NewLeader \subseteq User \cup {None}
    /\ Assignable \subseteq User
    /\ Annotator \subseteq Human
    /\ Reader \subseteq User
    /\ Target \subseteq Status
    /\ MaxVersion \in Nat
    /\ MaxPending \in Nat

VARIABLES
    row,         \* the matters table
    assignees,   \* the matter_assignees table
    annotated,   \* matters with at least one matter_feedbacks row
    pending,     \* requests that have read and not yet written
    view,        \* what each reader last read of a matter
    last         \* the last status_changed activity and the doorbells it rang

vars == <<row, assignees, annotated, pending, view, last>>

Row == [state: {"absent", "live", "deleted"},
        status: Status,
        leader: User \cup {None},
        epoch: Nat,          \* assignment_epoch
        version: Nat,
        eventsSeq: Nat,      \* events_seq
        block: {"none", "agent", "system"}]   \* block_reason_kind

View == [m: Matter \cup {None}, status: Status, leader: User \cup {None},
         epoch: Nat, version: Nat]

\* A request names a user (`who`) and remembers the leader it read (`saw`).
Request ==
    [op: {"create", "reassign", "feedback", "silence"}, by: User \cup {None},
     m: Matter, who: User \cup {None}, saw: User \cup {None}]
    \cup
    [op: {"assign", "unassign"}, by: User, m: Matter, who: User, saw: {None}]

Event == {"handed_back", "homecoming", "child_handed_back", "next_segment",
          "verify", "blocked", "cancelled", "feedback", "done", "reflect",
          "reassigned", "assigned"}

Bell == [to: User, event: Event]

Step == [op: {"none", "write", "system", "insert", "reassign", "feedback"},
         by: User \cup {None}, m: Matter \cup {None},
         from: Status, to: Status, fenced: BOOLEAN, bells: SUBSET Bell]

TypeOK ==
    /\ row \in [Matter -> Row]
    /\ assignees \in [Matter -> SUBSET User]
    /\ annotated \subseteq Matter
    /\ pending \subseteq Request
    /\ view \in [Reader -> View]
    /\ last \in Step

Init ==
    /\ row = [m \in Matter |->
                [state |-> "absent", status |-> "open", leader |-> None,
                 epoch |-> 0, version |-> 0, eventsSeq |-> 0, block |-> "none"]]
    /\ assignees = [m \in Matter |-> {}]
    /\ annotated = {}
    /\ pending = {}
    /\ view = [u \in Reader |->
                 [m |-> None, status |-> "open", leader |-> None,
                  epoch |-> 0, version |-> 0]]
    /\ last = [op |-> "none", by |-> None, m |-> None, from |-> "open",
               to |-> "open", fenced |-> FALSE, bells |-> {}]

-----------------------------------------------------------------------------
(* Identities: whose power a caller acts with. *)

OwnedBots(u) == {b \in Bot : Owner[b] = u}

\* relatedUIDs: a user acts with the bots it owns, a bot only as itself.
Related(u) == IF u \in Bot THEN {u} ELSE {u} \cup OwnedBots(u)

\* effectiveCallerUIDs: on the write path a bot also acts as its owner.
Effective(u) == IF u \in Bot THEN ({u, Owner[u]} \cap User) ELSE Related(u)

Live(m) == row[m].state = "live"

\* The parent a transition locks: a soft-deleted parent counts as none.
LiveParent(m) ==
    IF Parent[m] # None /\ row[Parent[m]].state = "live" THEN Parent[m] ELSE None

LiveChildren(m) == {c \in Matter : Parent[c] = m /\ Live(c)}

IsCreator(ids, m) == Creator[m] \in ids
IsLeader(ids, m) == row[m].leader \in ids
IsAssignee(ids, m) == assignees[m] \cap ids # {}
LeadsParent(ids, m) == LiveParent(m) # None /\ row[LiveParent(m)].leader \in ids
OwnsParent(ids, m) == LiveParent(m) # None /\ Creator[LiveParent(m)] \in ids

-----------------------------------------------------------------------------
(* The producer matrix: who may write which edge. *)

\* A bot answers for the matter when it leads it or is assigned to it.
Responsible(b, m) == row[m].leader = b \/ b \in assignees[m]

\* Mutant of Fence: the named epoch is not compared.
FenceIgnoresEpoch(u, m, epoch) ==
    u \in Bot => Responsible(u, m) \/ LeadsParent({u}, m)

\* Epoch fencing: a bot that names an epoch must name the current one, and
\* whatever it names it must still answer for the matter or lead its parent.
Fence(u, m, epoch) ==
    u \in Bot => /\ epoch # None => epoch = row[m].epoch
                 /\ Responsible(u, m) \/ LeadsParent({u}, m)

MayStart(u, m) ==
    LET ids == Effective(u) IN
    \/ /\ row[m].status \in {"open", "blocked", "backlog"}
       /\ \/ IsCreator(ids, m) \/ IsLeader(ids, m)
          \/ IsAssignee(ids, m) \/ LeadsParent(ids, m)
    \/ /\ row[m].status = "review"
       /\ u \notin Bot
       /\ IsCreator(ids, m) \/ IsLeader(ids, m) \/ LeadsParent(ids, m)
    \/ /\ row[m].status \in Terminal
       /\ u \notin Bot
       /\ IsCreator(ids, m)

MayOpen(u, m) ==
    LET ids == Effective(u) IN
    \/ /\ row[m].status = "backlog"
       /\ IsCreator(ids, m) \/ IsLeader(ids, m) \/ LeadsParent(ids, m)
    \/ u \notin Bot /\ IsCreator(ids, m)

MayShelve(u, m) ==
    LET ids == Effective(u) IN
    /\ row[m].status \in {"open", "blocked"}
    /\ u \notin Bot
    /\ IsCreator(ids, m) \/ IsLeader(ids, m) \/ LeadsParent(ids, m)

MayReport(u, m, froms) ==
    LET ids == Effective(u) IN
    /\ row[m].status \in froms
    /\ \/ IsCreator(ids, m) \/ IsLeader(ids, m)
       \/ IsAssignee(ids, m) \/ LeadsParent(ids, m)

\* Mutant of MayAccept: a bot that answers for the matter may accept it.
MayAcceptOwnWork(u, m) ==
    LET ids == Effective(u) IN
    IF LiveParent(m) # None
    THEN LeadsParent(ids, m) \/ OwnsParent(ids, m)
    ELSE IsCreator(ids, m) /\ ~(u \in Bot /\ u = Creator[m])

\* Acceptance: a child by whoever leads or created its parent, a top-level
\* matter by its creator, and never by a bot that answers for the matter.
MayAccept(u, m) ==
    LET ids == Effective(u) IN
    /\ ~(u \in Bot /\ Responsible(u, m))
    /\ IF LiveParent(m) # None
       THEN LeadsParent(ids, m) \/ OwnsParent(ids, m)
       ELSE IsCreator(ids, m) /\ ~(u \in Bot /\ u = Creator[m])

MayCancel(u, m) == IsCreator(Effective(u), m) \/ LeadsParent(Effective(u), m)

MayArchive(u, m) == u \notin Bot /\ IsCreator(Effective(u), m)

Authorized(u, m, target) ==
    \/ target = "in_progress" /\ MayStart(u, m)
    \/ target = "open" /\ MayOpen(u, m)
    \/ target = "backlog" /\ MayShelve(u, m)
    \/ target = "review" /\ MayReport(u, m, {"in_progress", "blocked"})
    \/ /\ target = "blocked"
       /\ MayReport(u, m, {"in_progress", "review", "open", "backlog"})
    \/ target = "done" /\ MayAccept(u, m)
    \/ target = "cancelled" /\ MayCancel(u, m)
    \/ target = "archived" /\ MayArchive(u, m)

\* Mutant of ChildrenTerminal: only work in progress holds the parent back.
NoChildInProgress(m) == \A c \in LiveChildren(m) : row[c].status # "in_progress"

\* The S-check: every live child must have reached a terminal status.
ChildrenTerminal(m) == \A c \in LiveChildren(m) : row[c].status \in Terminal

-----------------------------------------------------------------------------
(* The routing table: whom a transition rings. *)

Ring(to, event) == {[to |-> u, event |-> event] : u \in {to} \ {None}}

LeadOf(p) == IF row[p].leader # None THEN row[p].leader ELSE Creator[p]

\* The sibling with the next step order; ties fall to one of them.
NextSibling(m) ==
    LET later == {c \in LiveChildren(LiveParent(m)) \ {m} :
                    /\ StepOrder[m] # None /\ StepOrder[c] # None
                    /\ StepOrder[c] > StepOrder[m]
                    /\ row[c].status # "cancelled"}
        first == {c \in later : \A d \in later : StepOrder[c] <= StepOrder[d]}
    IN  IF first = {} THEN None ELSE CHOOSE c \in first : TRUE

NextLeader(m) == IF NextSibling(m) = None THEN None ELSE row[NextSibling(m)].leader

\* The progress note posted into the source conversation as the leading bot.
Homecoming(m) ==
    IF m \in Sourced /\ row[m].leader \in Bot
    THEN Ring(row[m].leader, "homecoming") ELSE {}

\* Mutant of HandBackBells: critic mode always rings the next step's leader.
CriticRingsNextOnly(m) ==
    LET p == LiveParent(m) IN
    CASE p = None -> Ring(Creator[m], "handed_back") \cup Homecoming(m)
      [] p # None /\ Mode[p] = "critic" -> Ring(NextLeader(m), "verify")
      [] OTHER -> Ring(NextLeader(m), "next_segment") \cup Ring(LeadOf(p), "child_handed_back")

HandBackBells(m) ==
    LET p == LiveParent(m) IN
    CASE p = None -> Ring(Creator[m], "handed_back") \cup Homecoming(m)
      [] p # None /\ Mode[p] = "pipeline" ->
            Ring(NextLeader(m), "next_segment") \cup Ring(LeadOf(p), "child_handed_back")
      [] p # None /\ Mode[p] = "critic" /\ NextLeader(m) # None ->
            Ring(NextLeader(m), "verify")
      [] OTHER -> Ring(LeadOf(p), "child_handed_back")

TroubleBells(m, event) ==
    LET p == LiveParent(m) IN
    IF p # None THEN Ring(LeadOf(p), event)
    ELSE Ring(Creator[m], event) \cup (IF event = "blocked" THEN Homecoming(m) ELSE {})

Bells(m, target) ==
    CASE target = "review" -> HandBackBells(m)
      [] target = "blocked" -> TroubleBells(m, "blocked")
      [] target = "cancelled" ->
            TroubleBells(m, "cancelled") \cup Ring(row[m].leader, "cancelled")
      [] target = "in_progress" /\ row[m].status = "review" ->
            IF row[m].leader # None THEN Ring(row[m].leader, "feedback")
            ELSE UNION {Ring(u, "feedback") : u \in assignees[m]}
      [] target = "done" ->
            Ring(row[m].leader,
                 IF row[m].leader \in Bot /\ m \in annotated THEN "reflect" ELSE "done")
      [] OTHER -> {}

\* Nobody is rung for what it did itself; homecoming names its sender.
Suppress(bells, by) == {b \in bells : b.to # by \/ b.event = "homecoming"}

-----------------------------------------------------------------------------
(* The transition: one transaction. *)

\* Mutants of Written: the version is not bumped, the block reason is not cleared.
WrittenSameVersion(m, target, kind) ==
    [row EXCEPT ![m].status = target, ![m].block = kind]
WrittenKeepsBlock(m, target, kind) ==
    [row EXCEPT ![m].status = target, ![m].version = @ + 1,
                ![m].block = IF kind = "none" THEN @ ELSE kind]

\* ApplyTransition and BumpParentEventsSeq.
Written(m, target, kind) ==
    [x \in Matter |->
        IF x = m THEN [row[m] EXCEPT !.status = target, !.version = @ + 1, !.block = kind]
        ELSE IF x = LiveParent(m) THEN [row[x] EXCEPT !.eventsSeq = @ + 1]
        ELSE row[x]]

\* What Apply does once the caller may write the edge.
Apply(m, target, by, op, kind, fenced) ==
    /\ Live(m)
    /\ row[m].status # target
    /\ row[m].version < MaxVersion
    /\ target = "done" => ChildrenTerminal(m)
    /\ row' = Written(m, target, IF target = "blocked" THEN kind ELSE "none")
    /\ last' = [op |-> op, by |-> by, m |-> m, from |-> row[m].status, to |-> target,
                fenced |-> fenced, bells |-> Suppress(Bells(m, target), by)]

\* What a caller may name as a guard: nothing, or what it last read of m.
Seen(u, m, value) ==
    {None} \cup (IF u \in Reader /\ view[u].m = m THEN {value} ELSE {})

\* PUT /matters/:id/status by a user or a bot.
Transition(u, m, target) ==
    \E expected \in Seen(u, m, IF u \in Reader THEN view[u].version ELSE None),
       epoch \in Seen(u, m, IF u \in Reader THEN view[u].epoch ELSE None) :
        /\ expected # None => expected = row[m].version
        /\ Fence(u, m, epoch)
        /\ Authorized(u, m, target)
        /\ Apply(m, target, u, "write", "agent", epoch # None)
        /\ UNCHANGED <<assignees, annotated, pending, view>>

-----------------------------------------------------------------------------
(* The handlers that read first and write later. *)

Await(request) ==
    /\ Cardinality(pending) < MaxPending
    /\ pending' = pending \cup {request}

\* GET /matters/:id: the reader keeps the version and the epoch it saw.
Read(u, m) ==
    /\ Live(m)
    /\ view' = [view EXCEPT ![u] = [m |-> m, status |-> row[m].status,
                                    leader |-> row[m].leader, epoch |-> row[m].epoch,
                                    version |-> row[m].version]]
    /\ UNCHANGED <<row, assignees, annotated, pending, last>>

\* PrepareCreate: the parent exists when it is read; any user may have
\* access to it through a linked channel.
PrepareCreate(m) ==
    /\ row[m].state = "absent"
    /\ LiveParent(m) # None
    /\ Await([op |-> "create", by |-> Creator[m], m |-> m, who |-> None, saw |-> None])
    /\ UNCHANGED <<row, assignees, annotated, view, last>>

\* CreateMatterWithAssignees, then AfterCreate rings the leader and assignees.
Insert(m, leader, team) ==
    /\ row[m].state = "absent"
    /\ \/ Parent[m] = None /\ UNCHANGED pending
       \/ \E r \in pending : /\ r.op = "create" /\ r.m = m
                             /\ pending' = pending \ {r}
    /\ row' = [row EXCEPT ![m].state = "live", ![m].leader = leader]
    /\ assignees' = [assignees EXCEPT ![m] = team]
    /\ last' = [op |-> "insert", by |-> Creator[m], m |-> m, from |-> "open",
                to |-> "open", fenced |-> FALSE,
                bells |-> Suppress(UNION {Ring(u, "assigned") : u \in team \cup {leader}},
                                   Creator[m])]
    /\ UNCHANGED <<annotated, view>>

\* PUT /matters/:id with a leader: UpdateMatter admits the creator and the
\* assignees, ReassignLeader the creator and the leader it reads.
ReadReassign(u, m, leader) ==
    /\ Live(m)
    /\ IsCreator(Related(u), m) \/ (IsAssignee(Related(u), m) /\ IsLeader(Related(u), m))
    /\ row[m].leader # leader
    /\ Await([op |-> "reassign", by |-> u, m |-> m, who |-> leader, saw |-> row[m].leader])
    /\ UNCHANGED <<row, assignees, annotated, view, last>>

\* Mutant of UpdateLeader: the new leader keeps the epoch.
UpdateLeaderSameEpoch(r) ==
    /\ r.op = "reassign"
    /\ Live(r.m)
    /\ row[r.m].version < MaxVersion
    /\ row' = [row EXCEPT ![r.m].leader = r.who, ![r.m].version = @ + 1]
    /\ pending' = pending \ {r}
    /\ last' = [last EXCEPT !.op = "reassign", !.by = r.by, !.m = r.m]
    /\ UNCHANGED <<assignees, annotated, view>>

\* UpdateLeader is unconditional on the live row; then both sides are rung.
UpdateLeader(r) ==
    /\ r.op = "reassign"
    /\ Live(r.m)
    /\ row[r.m].version < MaxVersion
    /\ row' = [row EXCEPT ![r.m].leader = r.who, ![r.m].epoch = @ + 1,
                          ![r.m].version = @ + 1]
    /\ pending' = pending \ {r}
    /\ last' = [op |-> "reassign", by |-> r.by, m |-> r.m, from |-> row[r.m].status,
                to |-> row[r.m].status, fenced |-> FALSE,
                bells |-> Suppress(Ring(r.saw, "reassigned") \cup Ring(r.who, "assigned"),
                                   r.by)]
    /\ UNCHANGED <<assignees, annotated, view>>

\* CreateFeedback: a human annotates; a matter read in review is to be sent back.
AddFeedback(u, m, target) ==
    /\ u \notin Bot
    /\ Live(m)
    /\ annotated' = annotated \cup {m}
    /\ IF row[m].status = "review"
       THEN /\ Await([op |-> "feedback", by |-> u, m |-> m, who |-> target,
                      saw |-> row[m].leader])
            /\ UNCHANGED last
       ELSE /\ last' = [op |-> "feedback", by |-> u, m |-> m, from |-> row[m].status,
                        to |-> row[m].status, fenced |-> FALSE,
                        bells |-> Suppress(Ring(target, "feedback"), u)]
            /\ UNCHANGED pending
    /\ UNCHANGED <<row, assignees, view>>

\* The flip the feedback derives, written by the system producer; a matter that
\* is already in progress is left alone, a deleted one only rings the target.
SendBack(r) ==
    /\ r.op = "feedback"
    /\ pending' = pending \ {r}
    /\ \/ Apply(r.m, "in_progress", r.by, "system", "system", FALSE)
       \/ /\ Live(r.m) /\ row[r.m].status = "in_progress"
          /\ UNCHANGED <<row, last>>
       \/ /\ ~Live(r.m)
          /\ last' = [op |-> "feedback", by |-> r.by, m |-> r.m, from |-> row[r.m].status,
                      to |-> row[r.m].status, fenced |-> FALSE,
                      bells |-> Suppress(Ring(r.who, "feedback"), r.by)]
          /\ UNCHANGED row
    /\ UNCHANGED <<assignees, annotated, view>>

\* RevivedStillSilent lists the matter while it is in progress.
ListSilent(m) ==
    /\ Live(m)
    /\ row[m].status = "in_progress"
    /\ Await([op |-> "silence", by |-> None, m |-> m, who |-> None, saw |-> None])
    /\ UNCHANGED <<row, assignees, annotated, view, last>>

\* The watchdog's blocked tier works through its list.
BlockSilent(r) ==
    /\ r.op = "silence"
    /\ pending' = pending \ {r}
    /\ \/ Apply(r.m, "blocked", None, "system", "system", FALSE)
       \/ /\ ~Live(r.m) \/ row[r.m].status = "blocked"
          /\ UNCHANGED <<row, last>>
    /\ UNCHANGED <<assignees, annotated, view>>

\* POST and DELETE /matters/:id/assignees: the permission is read first.
ReadAssign(u, m, who) ==
    /\ Live(m)
    /\ IsCreator(Related(u), m) \/ IsAssignee(Related(u), m)
    /\ who \notin assignees[m]
    /\ Await([op |-> "assign", by |-> u, m |-> m, who |-> who, saw |-> None])
    /\ UNCHANGED <<row, assignees, annotated, view, last>>

ReadUnassign(u, m, who) ==
    /\ Live(m)
    /\ who \in Related(u) \/ IsCreator(Related(u), m)
    /\ who \in assignees[m]
    /\ Await([op |-> "unassign", by |-> u, m |-> m, who |-> who, saw |-> None])
    /\ UNCHANGED <<row, assignees, annotated, view, last>>

WriteAssignees(r) ==
    /\ r.op \in {"assign", "unassign"}
    /\ assignees' = [assignees EXCEPT ![r.m] = IF r.op = "assign" THEN @ \cup {r.who}
                                                ELSE @ \ {r.who}]
    /\ pending' = pending \ {r}
    /\ UNCHANGED <<row, annotated, view, last>>

\* DELETE /matters/:id by the creator: children stay, and lose their parent.
SoftDelete(u, m) ==
    /\ Live(m)
    /\ IsCreator(Related(u), m)
    /\ row' = [row EXCEPT ![m].state = "deleted"]
    /\ UNCHANGED <<assignees, annotated, pending, view, last>>

Next ==
    \/ \E u \in User, m \in Matter, target \in Target : Transition(u, m, target)
    \/ \E u \in Reader, m \in Matter : Read(u, m)
    \/ \E m \in Matter : PrepareCreate(m)
    \/ \E m \in Matter, leader \in NewLeader, team \in SUBSET Assignable :
          Insert(m, leader, team)
    \/ \E u \in User, m \in Matter, leader \in NewLeader : ReadReassign(u, m, leader)
    \/ \E r \in pending : UpdateLeader(r)
    \/ \E u \in Annotator, m \in Matter : AddFeedback(u, m, row[m].leader)
    \/ \E r \in pending : SendBack(r)
    \/ \E m \in Matter : ListSilent(m)
    \/ \E r \in pending : BlockSilent(r)
    \/ \E u \in User, m \in Matter, who \in Assignable :
          ReadAssign(u, m, who) \/ ReadUnassign(u, m, who)
    \/ \E r \in pending : WriteAssignees(r)
    \/ \E u \in User, m \in Matter : SoftDelete(u, m)

Spec == Init /\ [][Next]_vars

-----------------------------------------------------------------------------
(* Properties. *)

\* The compare-and-set on `version` is sound: a caller whose expected version
\* is still current decides on the status, the leader and the epoch it read
\* (ApplyTransition and UpdateLeader both bump the version).
VersionIsCurrent ==
    \A u \in Reader :
        (view[u].m # None /\ view[u].version = row[view[u].m].version)
            => /\ view[u].status = row[view[u].m].status
               /\ view[u].leader = row[view[u].m].leader
               /\ view[u].epoch = row[view[u].m].epoch

\* The fence token is sound: while the epoch a reader holds is current, the
\* leader it read has not been replaced, not even by itself.
EpochNamesLeader ==
    \A u \in Reader :
        (view[u].m # None /\ view[u].epoch = row[view[u].m].epoch)
            => view[u].leader = row[view[u].m].leader

\* A block reason is stored exactly while the matter is blocked.
BlockReasonMatches ==
    \A m \in Matter : (row[m].block # "none") <=> (row[m].status = "blocked")

\* The step moves m to a status it did not have.
Enters(m, status) == row[m].status # status /\ row'[m].status = status

\* A bot that names its epoch and is neither assigned nor leading the parent
\* writes only while it has led the matter ever since it read it.
FencedBotStillLeads ==
    [][\A m \in Matter :
          (row'[m].status # row[m].status /\ last'.fenced)
          => LET b == last'.by IN
             (b \in Bot /\ b \notin assignees[m] /\ ~LeadsParent({b}, m))
                => view[b].m = m /\ view[b].leader = b /\ row[m].leader = b]_vars

\* No self-grading: a bot that leads the matter or is assigned to it never
\* completes it, and a matter without a live parent is completed by a human.
NoSelfAcceptance ==
    [][\A m \in Matter : Enters(m, "done")
          => /\ last'.by \in User
             /\ last'.by \in Bot => LiveParent(m) # None /\ ~Responsible(last'.by, m)]_vars

Unfinished(m) ==
    /\ Live(m) /\ row[m].status = "done"
    /\ \E c \in LiveChildren(m) : row[c].status \notin Terminal

\* A completed parent acquires unfinished work in two ways only: a child is
\* created under it, or a child leaves a terminal status.
DoneParentStaysSettled ==
    [][\A m \in Matter : (~Unfinished(m) /\ Unfinished(m)')
          => \E c \in Matter :
                /\ Parent[c] = m
                /\ \/ ~Live(c) /\ last'.op = "insert"
                   \/ row[c].status \in Terminal /\ row'[c].status \notin Terminal]_vars

\* Whoever must judge a hand-back hears of it: the creator of a top-level
\* matter, the parent's leader (its creator when it has none), or the next
\* step's leader in critic mode; unless that is the user that handed it back.
HandBackIsHeard ==
    [][\A m \in Matter : Enters(m, "review")
          => \E judge \in User :
                /\ \/ LiveParent(m) = None /\ judge = Creator[m]
                   \/ LiveParent(m) # None /\ judge = LeadOf(LiveParent(m))
                   \/ /\ LiveParent(m) # None /\ Mode[LiveParent(m)] = "critic"
                      /\ judge = NextLeader(m)
                /\ judge = last'.by \/ \E b \in last'.bells : b.to = judge]_vars

=============================================================================
