-------------------------------- MODULE Spaces --------------------------------
(***************************************************************************)
(* Membership of one space of octo-server (modules/space): joining by an   *)
(* invitation code, by an approved application or by an emailed            *)
(* invitation, being added, removed, promoted, and the space changing      *)
(* hands or being disbanded.                                               *)
(*                                                                         *)
(* A handler is a chain of statements without a transaction around them:   *)
(* every read that decides something and every write is an action, and     *)
(* any other request moves in between.  What one transaction locks and     *)
(* rechecks is one action.  A request may die after any of its statements. *)
(***************************************************************************)
EXTENDS Integers, FiniteSets

CONSTANTS
    Person,     \* users
    Founder,    \* the user that created the space
    Addressed,  \* users whose address the emailed invitation names
    Nobody,
    Request,    \* requests that may be under way at once
    Limits,     \* values max_users may have been set to, 0 for none
    MaxUses,    \* max_uses of the invitation code
    MaxBegun,   \* bound on requests begun
    MaxFaults   \* bound on refused statements and on requests that die

ASSUME SpacesAssumption ==
    /\ Founder \in Person /\ Addressed \subseteq Person /\ Nobody \notin Person
    /\ IsFiniteSet(Request)
    /\ Limits \subseteq Nat
    /\ MaxUses \in Nat \ {0} /\ MaxBegun \in Nat /\ MaxFaults \in Nat

VARIABLES
    status,    \* space.status
    member,    \* the space_member table
    used,      \* used_count of the invitation code
    apply,     \* space_join_apply.status of each user
    mail,      \* the emailed invitation
    req,       \* the requests under way
    joined,    \* history: joins the code paid for
    leaked,    \* history: charges of the code whose request never came to an end
    admitted,  \* history: users found or made members since their last approval
    invited,   \* history: users admitted by the emailed invitation
    unsettled, \* history: users whose approval was to be taken back and was not
    usurped,   \* history: an owner's row was written over by a reactivation
    purged,    \* history: the space was disbanded with its members
    begun,     \* requests begun
    faults

table == <<status, member, used, apply, mail>>
told == <<joined, leaked, admitted, invited, unsettled, usurped, purged>>
spaceVars == <<status, member, used, apply, mail, req, joined, leaked, admitted, invited,
               unsettled, usurped, purged, begun, faults>>

Role == 0..2    \* member, admin, owner

Member == [row: {"none", "removed", "active"}, role: Role]

JoinStep == {"charge", "look", "write", "refund", "reopen", "release", "promote", "raise"}
OtherStep == {"ask", "decide", "deny", "consume", "add", "upsert", "remove", "assign",
              "disband", "purge", "ban", "lift"}

Nameless == {"idle", "disband", "purge", "ban", "lift"}    \* requests about no user

Pending == [at: {"idle"} \cup JoinStep \cup OtherStep,
            of: {"code", "apply", "mail", "none"},  \* what brought the user here
            who: Person \cup {Nobody},              \* the user it is about
            seen: {"none", "removed"},              \* the member row it read
            role: Role,                             \* the role it read or assigns
            paid: BOOLEAN]                          \* it holds a charge of the code

Idle == [at |-> "idle", of |-> "none", who |-> Nobody, seen |-> "none", role |-> 0, paid |-> FALSE]

Mail == [state: {"pending", "consumed", "revoked"}, by: Person \cup {Nobody}]

SpaceTypeOK ==
    /\ status \in {"normal", "banned", "disbanded"}
    /\ member \in [Person -> Member]
    /\ used \in 0..MaxUses
    /\ apply \in [Person -> {"none", "pending", "approved", "rejected"}]
    /\ mail \in Mail
    /\ req \in [Request -> Pending]
    /\ \A r \in Request : req[r].at \notin Nameless => req[r].who \in Person
    /\ joined \in Nat /\ leaked \in Nat
    /\ admitted \subseteq Person /\ invited \subseteq Person /\ unsettled \subseteq Person
    /\ usurped \in BOOLEAN /\ purged \in BOOLEAN
    /\ begun \in 0..MaxBegun /\ faults \in 0..MaxFaults

\* createSpaceCoreTx.
SpaceInit ==
    /\ status = "normal"
    /\ member = [u \in Person |-> IF u = Founder THEN [row |-> "active", role |-> 2]
                                  ELSE [row |-> "none", role |-> 0]]
    /\ used = 0
    /\ apply = [u \in Person |-> "none"]
    /\ mail = [state |-> "pending", by |-> Nobody]
    /\ req = [r \in Request |-> Idle]
    /\ joined = 0 /\ leaked = 0
    /\ admitted = {} /\ invited = {} /\ unsettled = {}
    /\ usurped = FALSE /\ purged = FALSE
    /\ begun = 0 /\ faults = 0

-----------------------------------------------------------------------------
(* The tables. *)

IsActive(u) == member[u].row = "active"
Owns(u) == IsActive(u) /\ member[u].role = 2
Crew == {u \in Person : IsActive(u)}

\* max_users is what an update of the space set it to before the request read it.
Full == \E limit \in Limits : limit > 0 /\ Cardinality(Crew) >= limit
Room == \E limit \in Limits : limit = 0 \/ Cardinality(Crew) < limit

\* reactivateMember and atomicReactivateMemberIfNotFull, whatever the row says by now.
Reactivated(u) == [member EXCEPT ![u] = [row |-> "active", role |-> 0]]

At(r, at) == req[r].at = at
Begin(r, request) ==
    /\ At(r, "idle")
    /\ begun < MaxBegun /\ begun' = begun + 1
    /\ req' = [req EXCEPT ![r] = request]
Call(at, of, u) == [at |-> at, of |-> of, who |-> u, seen |-> "none", role |-> 0, paid |-> FALSE]
Step(r, at) == req' = [req EXCEPT ![r].at = at]
Done(r) == req' = [req EXCEPT ![r] = Idle]
Who(r) == req[r].who

-----------------------------------------------------------------------------
(* Ways in. *)

\* joinSpace of a space that is joined directly.
Join(r, u) ==
    /\ status = "normal"
    /\ Begin(r, Call("charge", "code", u))
    /\ UNCHANGED <<table, told, faults>>

\* joinSpace of a space that wants an approval: neither a member nor waiting ...
Ask(r, u) ==
    /\ status = "normal" /\ used < MaxUses
    /\ ~IsActive(u) /\ apply[u] # "pending"
    /\ Begin(r, Call("ask", "apply", u))
    /\ UNCHANGED <<table, told, faults>>

\* ... and upsertJoinApply, which opens a decided application again.
AskWrite(r) ==
    /\ At(r, "ask")
    /\ apply' = [apply EXCEPT ![Who(r)] = "pending"]
    /\ Done(r)
    /\ UNCHANGED <<status, member, used, mail, told, begun, faults>>

\* approveJoinApply, joinApproveSure and the manager's approval read a waiting
\* application of a live space; of the three only the first asks for an admin.
Approve(r, u) ==
    /\ apply[u] = "pending" /\ status = "normal"
    /\ Begin(r, Call("decide", "apply", u))
    /\ UNCHANGED <<table, told, faults>>

\* updateJoinApplyStatus.
Decide(r) ==
    /\ At(r, "decide")
    /\ IF apply[Who(r)] = "pending"
       THEN /\ apply' = [apply EXCEPT ![Who(r)] = "approved"]
            /\ admitted' = admitted \ {Who(r)}
            /\ unsettled' = unsettled \ {Who(r)}
            /\ Step(r, "charge")
       ELSE Done(r) /\ UNCHANGED <<apply, admitted, unsettled>>
    /\ UNCHANGED <<status, member, used, mail, joined, leaked, invited, usurped, purged, begun, faults>>

\* rejectJoinApply reads a waiting application ...
Reject(r, u) ==
    /\ apply[u] = "pending"
    /\ Begin(r, Call("deny", "apply", u))
    /\ UNCHANGED <<table, told, faults>>

\* ... and closes it if it still waits; the applicant is told so either way.
Deny(r) ==
    /\ At(r, "deny")
    /\ apply' = IF apply[Who(r)] = "pending" THEN [apply EXCEPT ![Who(r)] = "rejected"]
                ELSE apply
    /\ Done(r)
    /\ UNCHANGED <<status, member, used, mail, told, begun, faults>>

\* incrementInviteUsedCountAtomic.  A code may also have been closed or have run
\* out of time; an approval that finds it so is taken back.
Charge(r) ==
    /\ At(r, "charge")
    /\ \/ /\ used < MaxUses
          /\ used' = used + 1
          /\ req' = [req EXCEPT ![r].at = "look", ![r].paid = TRUE]
       \/ /\ UNCHANGED used
          /\ IF req[r].of = "apply" THEN Step(r, "reopen") ELSE Done(r)
    /\ UNCHANGED <<status, member, apply, mail, told, begun, faults>>

\* acceptMemberInvite reads the invitation and the space ...
AcceptMail(r, u) ==
    /\ status = "normal" /\ mail.state = "pending"
    /\ Begin(r, Call("consume", "mail", u))
    /\ UNCHANGED <<table, told, faults>>

\* Mutant of Consumable: a token is consumed without a look at its state.
ConsumableTwice == mail.state # "revoked"

Consumable == mail.state = "pending"

\* ... and consumes the token in a transaction of its own.
Consume(r) ==
    /\ At(r, "consume")
    /\ IF Consumable
       THEN mail' = [state |-> "consumed", by |-> Who(r)] /\ Step(r, "look")
       ELSE Done(r) /\ UNCHANGED mail
    /\ UNCHANGED <<status, member, used, apply, told, begun, faults>>

RevokeMail ==
    /\ mail.state = "pending"
    /\ mail' = [mail EXCEPT !.state = "revoked"]
    /\ UNCHANGED <<status, member, used, apply, req, told, begun, faults>>

-----------------------------------------------------------------------------
(* executeJoinSpace and what undoes a join that failed. *)

\* The user is in: the charge is spent, the approval kept, the invitation used.
Admitted(r, new) ==
    /\ joined' = IF req[r].paid /\ new THEN joined + 1 ELSE joined
    /\ admitted' = admitted \cup {Who(r)}
    /\ invited' = IF req[r].of = "mail" THEN invited \cup {Who(r)} ELSE invited

\* An existing member is not added again; a charge goes back.
Look(r) ==
    /\ At(r, "look")
    /\ IF IsActive(Who(r))
       THEN /\ Admitted(r, FALSE)
            /\ Step(r, IF req[r].of = "mail" THEN "promote" ELSE "refund")
       ELSE /\ req' = [req EXCEPT ![r].at = "write", ![r].seen = member[Who(r)].row]
            /\ UNCHANGED <<joined, admitted, invited>>
    /\ UNCHANGED <<table, leaked, unsettled, usurped, purged, begun, faults>>

\* What a request does about a join that failed.
TakeBack(r) ==
    Step(r, CASE req[r].of = "code"  -> "refund"
              [] req[r].of = "apply" -> "reopen"
              [] OTHER               -> "release")

\* Mutant of Wrote: a join that succeeded is refunded like one that failed.
WroteAndRefunds(r) == req' = [req EXCEPT ![r].at = "refund"]

\* The join is through; an emailed invitation may still promote.
Wrote(r) == IF req[r].of = "mail" THEN Step(r, "promote") ELSE Done(r)

\* atomicReactivateMemberIfNotFull writes the row it saw removed, whatever it says by
\* now; atomicAddMemberIfNotFull fails on a row that is there by now.
Write(r) ==
    /\ At(r, "write")
    /\ LET u == Who(r) IN
       \/ /\ Room
          /\ req[r].seen = "removed" \/ member[u].row = "none"
          /\ member' = Reactivated(u)
          /\ usurped' = (usurped \/ Owns(u))
          /\ Admitted(r, TRUE)
          /\ Wrote(r)
       \/ /\ Full \/ (req[r].seen = "none" /\ member[u].row # "none")
          /\ TakeBack(r)
          /\ UNCHANGED <<member, usurped, joined, admitted, invited>>
    /\ UNCHANGED <<status, used, apply, mail, leaked, unsettled, purged, begun, faults>>

\* The database refuses a statement of the join.
JoinFails(r) ==
    /\ At(r, "look") \/ At(r, "write")
    /\ faults < MaxFaults /\ faults' = faults + 1
    /\ TakeBack(r)
    /\ UNCHANGED <<table, told, begun>>

\* refundInvite.
Refund(r) ==
    /\ At(r, "refund")
    /\ used' = IF req[r].paid /\ used > 0 THEN used - 1 ELSE used
    /\ Done(r)
    /\ UNCHANGED <<status, member, apply, mail, told, begun, faults>>

\* Mutant of Reopened: the application keeps its approval.
ReopenedAsIs(u) == apply

\* updateJoinApplyStatusRaw, whatever became of the application meanwhile.
Reopened(u) == [apply EXCEPT ![u] = "pending"]

\* rollbackApplyAndInvite.
Reopen(r) ==
    /\ At(r, "reopen")
    /\ apply' = Reopened(Who(r))
    /\ IF req[r].paid THEN Step(r, "refund") ELSE Done(r)
    /\ UNCHANGED <<status, member, used, mail, told, begun, faults>>

\* rollbackConsumedEmailInvite.
Release(r) ==
    /\ At(r, "release")
    /\ mail' = IF mail = [state |-> "consumed", by |-> Who(r)]
               THEN [state |-> "pending", by |-> Nobody] ELSE mail
    /\ Done(r)
    /\ UNCHANGED <<status, member, used, apply, told, begun, faults>>

\* An invitation as admin: a plain member is promoted ...
Promote(r) ==
    /\ At(r, "promote")
    /\ IF IsActive(Who(r)) /\ member[Who(r)].role < 1 THEN Step(r, "raise") ELSE Done(r)
    /\ UNCHANGED <<table, told, begun, faults>>

\* updateMemberRole spares an owner and a removed row.
Assigned(u, role) ==
    IF IsActive(u) /\ member[u].role # 2 THEN [member EXCEPT ![u].role = role] ELSE member

\* ... by a statement of its own.
Raise(r) ==
    /\ At(r, "raise")
    /\ member' = Assigned(Who(r), 1)
    /\ Done(r)
    /\ UNCHANGED <<status, used, apply, mail, told, begun, faults>>

-----------------------------------------------------------------------------
(* Members. *)

\* addMembers: an admin adds u, whose row is read before it is written.
Add(r, a, u) ==
    /\ status = "normal"
    /\ IsActive(a) /\ member[a].role >= 1
    /\ Room /\ ~IsActive(u)
    /\ Begin(r, [Call("add", "none", u) EXCEPT !.seen = member[u].row])
    /\ UNCHANGED <<table, told, faults>>

\* reactivateMember for a row that was removed, INSERT IGNORE for one that was not there.
AddWrite(r) ==
    /\ At(r, "add")
    /\ LET u == Who(r) IN
       IF req[r].seen = "removed" \/ member[u].row = "none"
       THEN member' = Reactivated(u) /\ usurped' = (usurped \/ Owns(u))
       ELSE UNCHANGED <<member, usurped>>
    /\ Done(r)
    /\ UNCHANGED <<status, used, apply, mail, joined, leaked, admitted, invited, unsettled,
                   purged, begun, faults>>

\* The manager's addMembers reads the space ...
ManagerAdd(r, u) ==
    /\ status # "disbanded"
    /\ Begin(r, Call("upsert", "none", u))
    /\ UNCHANGED <<table, told, faults>>

\* ... and upserts: a row that is there keeps its role.
Upsert(r) ==
    /\ At(r, "upsert")
    /\ member' = [member EXCEPT ![Who(r)].row = "active"]
    /\ Done(r)
    /\ UNCHANGED <<status, used, apply, mail, told, begun, faults>>

\* removeMembers by an admin and leaveSpace read the caller's own row ...
Remove(r, a, u) ==
    /\ status = "normal" /\ IsActive(a)
    /\ IF a = u THEN member[a].role < 2 ELSE member[a].role >= 1
    /\ Begin(r, [Call("remove", "none", u) EXCEPT !.role = IF a = u THEN 2 ELSE member[a].role])
    /\ UNCHANGED <<table, told, faults>>

\* The target's row as the lock finds it.
Removable(u, role) == IsActive(u) /\ member[u].role < role

\* ... and removeMemberLocked reads the target's role again under its lock.
RemoveWrite(r) ==
    /\ At(r, "remove")
    /\ member' = IF Removable(Who(r), req[r].role)
                 THEN [member EXCEPT ![Who(r)].row = "removed"] ELSE member
    /\ Done(r)
    /\ UNCHANGED <<status, used, apply, mail, told, begun, faults>>

\* removeMembersForce: all of them, unless one is the owner.
ManagerRemove(users) ==
    /\ users # {} /\ \A u \in users : ~Owns(u)
    /\ member' = [u \in Person |->
                    IF u \in users /\ member[u].row = "active"
                    THEN [member[u] EXCEPT !.row = "removed"] ELSE member[u]]
    /\ UNCHANGED <<status, used, apply, mail, req, told, begun, faults>>

\* updateMemberRole, the manager's and the owner's (which asks besides that the caller
\* owns the space): an owner is never demoted and a role never assigned twice.
Assign(r, u, role) ==
    /\ IsActive(u)
    /\ member[u].role \notin {2, role}
    /\ Begin(r, [Call("assign", "none", u) EXCEPT !.role = role])
    /\ UNCHANGED <<table, told, faults>>

\* Mutant of Transferred: the target may have been removed.
TransferredAnyhow(u) ==
    [v \in Person |-> IF v = u THEN [member[v] EXCEPT !.role = 2]
                      ELSE IF Owns(v) THEN [member[v] EXCEPT !.role = 1] ELSE member[v]]

\* transferOwnerAdminLocked: every owner is demoted and the target, if it is still a
\* member, promoted.
Transferred(u) ==
    IF ~IsActive(u) THEN member
    ELSE [v \in Person |-> IF v = u THEN [member[v] EXCEPT !.role = 2]
                           ELSE IF Owns(v) THEN [member[v] EXCEPT !.role = 1] ELSE member[v]]

AssignWrite(r) ==
    /\ At(r, "assign")
    /\ member' = IF req[r].role = 2 THEN Transferred(Who(r)) ELSE Assigned(Who(r), req[r].role)
    /\ Done(r)
    /\ UNCHANGED <<status, used, apply, mail, told, begun, faults>>

-----------------------------------------------------------------------------
(* The space. *)

\* The owner's disbandSpace keeps the members, the manager's forceDisband does not;
\* liftBan bans a space and lifts its ban.  All three read before they write.
ReadSpace(r, at) ==
    /\ CASE at = "disband" -> \E u \in Person : Owns(u)
         [] at = "purge"   -> status # "disbanded"
         [] at = "ban"     -> status = "normal"
         [] at = "lift"    -> status = "banned"
    /\ Begin(r, Call(at, "none", Nobody))
    /\ UNCHANGED <<table, told, faults>>

WriteSpace(r) ==
    /\ req[r].at \in {"disband", "ban", "lift"}
    /\ status' = CASE At(r, "disband") -> "disbanded"
                   [] At(r, "ban")     -> "banned"
                   [] At(r, "lift")    -> "normal"
    /\ Done(r)
    /\ UNCHANGED <<member, used, apply, mail, told, begun, faults>>

\* forceDisbandSpace.
Purge(r) ==
    /\ At(r, "purge")
    /\ status' = "disbanded"
    /\ member' = [u \in Person |-> IF IsActive(u) THEN [member[u] EXCEPT !.row = "removed"]
                                   ELSE member[u]]
    /\ purged' = TRUE
    /\ Done(r)
    /\ UNCHANGED <<used, apply, mail, joined, leaked, admitted, invited, unsettled, usurped, begun,
                   faults>>

-----------------------------------------------------------------------------
(* Faults. *)

Owed(r) == IF req[r].paid THEN 1 ELSE 0

\* An undo is refused: it is logged, and the next one is tried.
UndoFails(r) ==
    /\ req[r].at \in {"refund", "reopen", "release"}
    /\ faults < MaxFaults /\ faults' = faults + 1
    /\ IF At(r, "reopen") /\ req[r].paid
       THEN Step(r, "refund") /\ UNCHANGED leaked
       ELSE Done(r) /\ leaked' = leaked + Owed(r)
    /\ unsettled' = IF At(r, "reopen") THEN unsettled \cup {Who(r)} ELSE unsettled
    /\ UNCHANGED <<table, joined, admitted, invited, usurped, purged, begun>>

\* The process dies under a request.
Die(r) ==
    /\ ~At(r, "idle")
    /\ faults < MaxFaults /\ faults' = faults + 1
    /\ leaked' = leaked + Owed(r)
    /\ unsettled' = IF req[r].of = "apply" /\ req[r].at \in JoinStep
                    THEN unsettled \cup {Who(r)} ELSE unsettled
    /\ Done(r)
    /\ UNCHANGED <<table, joined, admitted, invited, usurped, purged, begun>>

SpaceNext ==
    \E r \in Request :
       \/ \E u \in Person : Join(r, u) \/ Ask(r, u) \/ Approve(r, u) \/ Reject(r, u)
       \/ \E u \in Addressed : AcceptMail(r, u)
       \/ AskWrite(r) \/ Decide(r) \/ Deny(r) \/ Charge(r) \/ Consume(r)
       \/ Look(r) \/ Write(r) \/ JoinFails(r)
       \/ Refund(r) \/ Reopen(r) \/ Release(r) \/ Promote(r) \/ Raise(r)
       \/ \E a, u \in Person : Add(r, a, u) \/ Remove(r, a, u)
       \/ \E u \in Person : ManagerAdd(r, u)
       \/ \E u \in Person, role \in Role : Assign(r, u, role)
       \/ AddWrite(r) \/ Upsert(r) \/ RemoveWrite(r) \/ AssignWrite(r)
       \/ \E at \in {"disband", "purge", "ban", "lift"} : ReadSpace(r, at)
       \/ WriteSpace(r) \/ Purge(r)
       \/ UndoFails(r) \/ Die(r)
    \/ RevokeMail
    \/ \E users \in SUBSET Person : ManagerRemove(users)

SpaceSpec == SpaceInit /\ [][SpaceNext]_spaceVars

-----------------------------------------------------------------------------
(* Properties. *)

\* A space that was not disbanded with its members has one owner, through transfers,
\* removals, promotions and joins of any number of requests, as long as no reactivation
\* writes over the row of somebody who became the owner after it was read as removed.
OneOwner == purged \/ usurped \/ \E u \in Person : {v \in Person : Owns(v)} = {u}

Paying == {r \in Request : req[r].paid}

\* The code's count is exactly the joins it paid for, the charges of requests under way
\* and those of requests that died or whose refund was refused: none is lost or refunded
\* twice, whichever way a join ends, and it never passes the code's limit.
UsesAreCounted == used <= MaxUses /\ used = joined + Cardinality(Paying) + leaked

\* An application says approved only of somebody who was found or made a member since,
\* or whose approval is still being carried out or taken back.
ApprovedIsAdmitted ==
    \A u \in Person : apply[u] = "approved" =>
        \/ u \in admitted \cup unsettled
        \/ \E r \in Request : /\ Who(r) = u /\ req[r].of = "apply"
                              /\ req[r].at \in {"charge", "look", "write", "reopen"}

\* An emailed invitation admits at most one user, and that user holds it from then on:
\* it can be neither given back, used again nor revoked.
MailAdmitsOne == invited # {} => (mail.state = "consumed" /\ invited = {mail.by})

=============================================================================
