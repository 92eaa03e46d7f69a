-------------------------------- MODULE Groups --------------------------------
(***************************************************************************)
(* Membership of one group of octo-server (modules/group): ways in and     *)
(* out, roles, muting, blocking and disbanding, and the three lists the IM *)
(* server keeps beside the group_member table: who is subscribed to the    *)
(* group's channel, who to the channel of its thread, and who may not      *)
(* speak.                                                                  *)
(*                                                                         *)
(* The IM server is another process.  A handler reads the table, writes it *)
(* in a transaction and calls the IM server before or afterwards; each of  *)
(* these is an action, and any other request moves in between.             *)
(***************************************************************************)
EXTENDS Integers, FiniteSets

CONSTANTS
    Person,     \* users, robots among them
    Bot,        \* the robots
    OwnerOf,    \* OwnerOf[b]: robot.creator_uid of b
    External,   \* users outside the group's space
    Founder,    \* the user that created the group
    Early,      \* the members it was created with
    Nobody,
    Request,    \* requests that may be under way at once
    MaxBegun,   \* bound on requests begun
    MaxFaults   \* bound on refused statements, failed IM calls and crashes

ASSUME GroupsAssumption ==
    /\ Bot \subseteq Person /\ OwnerOf \in [Bot -> Person \ Bot]
    /\ External \subseteq Person
    /\ Founder \in Person \ External /\ Early \subseteq Person /\ Founder \in Early
    /\ Nobody \notin Person
    /\ MaxBegun \in Nat /\ MaxFaults \in Nat

VARIABLES
    live,       \* the group is not disbanded
    member,     \* the group_member table
    channel,    \* IM: subscribers of the group's channel
    topic,      \* IM: subscribers of its thread's channel
    denied,     \* IM: the deny list of the group's channel
    event,      \* status of the disband event
    cleaning,   \* its handler has deleted the channel and has yet to clean up
    req,        \* the requests under way
    unsure,     \* history: users about whom requests overlapped or one failed
    muffled,    \* history: users unblocked while muted
    contested,  \* history: a role was written on what was true no longer, or a
                \* creator left behind nobody or was taken along with its owner
    begun,      \* requests begun
    faults

im == <<channel, topic, denied>>
disbanding == <<live, event, cleaning>>
groupVars == <<live, member, channel, topic, denied, event, cleaning, req, unsure, muffled,
               contested, begun, faults>>

Member == [row: {"none", "deleted", "active"},
           role: {"common", "manager", "creator"},
           black: BOOLEAN,    \* status = GroupMemberStatusBlacklist
           muted: BOOLEAN]    \* forbidden_expir_time # 0

Absent == [row |-> "none", role |-> "common", black |-> FALSE, muted |-> FALSE]

Operation == {"none", "exit", "transfer", "promote", "demote", "add", "invite", "scan",
              "kick", "block", "unblock", "mute", "unmute", "expire", "disband"}

Stage == {"idle", "quit", "unsubscribe", "own", "heir", "leave", "untopic", "entitled", "hand",
          "check", "role", "look", "write", "hold", "commit", "subscribe", "topics",
          "target", "delete", "mark", "revive", "deny", "undeny", "rewrite", "disband"}

Pending == [op: Operation, at: Stage,
            who: Person \cup {Nobody},     \* the user it is about
            by: Person \cup {Nobody},      \* the creator that hands the group over
            seen: Member,                  \* the member row it read
            heir: Person \cup {Nobody},    \* the successor it picked
            gone: SUBSET Person,           \* whom it unsubscribes ...
            bots: SUBSET Person]           \* ... and whom after that

Idle == [op |-> "none", at |-> "idle", who |-> Nobody, by |-> Nobody, seen |-> Absent,
         heir |-> Nobody, gone |-> {}, bots |-> {}]

GroupTypeOK ==
    /\ live \in BOOLEAN
    /\ member \in [Person -> Member]
    /\ channel \subseteq Person /\ topic \subseteq Person /\ denied \subseteq Person
    /\ event \in {"none", "wait", "failed", "done"} /\ cleaning \in BOOLEAN
    /\ req \in [Request -> Pending]
    /\ \A r \in Request : req[r].at \notin {"idle", "disband"} => req[r].who \in Person
    /\ unsure \subseteq Person /\ muffled \subseteq Person /\ contested \in BOOLEAN
    /\ begun \in 0..MaxBegun /\ faults \in 0..MaxFaults

GroupInit ==
    /\ live = TRUE
    /\ member = [u \in Person |->
                   IF u = Founder THEN [Absent EXCEPT !.row = "active", !.role = "creator"]
                   ELSE IF u \in Early THEN [Absent EXCEPT !.row = "active"] ELSE Absent]
    /\ channel = Early /\ topic = Early /\ denied = {}
    /\ event = "none" /\ cleaning = FALSE
    /\ req = [r \in Request |-> Idle]
    /\ unsure = {} /\ muffled = {} /\ contested = FALSE
    /\ begun = 0 /\ faults = 0

-----------------------------------------------------------------------------
(* The table and the requests. *)

IsActive(u) == member[u].row = "active"
IsCreator(u) == IsActive(u) /\ member[u].role = "creator"

\* QueryIsGroupManagerOrCreator.
IsManager(u) ==
    IsActive(u) /\ ~member[u].black /\ u \notin External /\ member[u].role # "common"

BotsOf(u) == {b \in Bot : OwnerOf[b] = u}
Touched(u) == {u} \cup BotsOf(u)

At(r, at) == req[r].at = at
Who(r) == req[r].who
Concerns(q) == UNION {Touched(u) : u \in {q.who, q.by} \ {Nobody}}

Begin(r, request) ==
    /\ At(r, "idle")
    /\ begun < MaxBegun /\ begun' = begun + 1
    /\ req' = [req EXCEPT ![r] = request]
    /\ unsure' = unsure \cup (Concerns(request) \cap UNION {Concerns(req[q]) : q \in Request})
Call(op, at, u) == [Idle EXCEPT !.op = op, !.at = at, !.who = u]
Step(r, at) == req' = [req EXCEPT ![r].at = at]
Done(r) == req' = [req EXCEPT ![r] = Idle]

\* QueryMemberCountTx locks the group's member rows until its transaction ends.
Free == \A r \in Request : ~At(r, "commit")

\* recoverMemberTx keeps status and forbidden_expir_time; InsertMemberTx has none yet.
Joined(u) == [member EXCEPT ![u].row = "active", ![u].role = "common"]

\* DeleteMemberTx of each, whatever its row says; it keeps role and status.
Deleted(users) ==
    [u \in Person |-> IF u \in users /\ member[u].row # "none"
                      THEN [member[u] EXCEPT !.row = "deleted"] ELSE member[u]]

\* UpdateMemberRoleTx: not of a deleted row.
Appointed(table, u, role) ==
    IF u # Nobody /\ IsActive(u) THEN [table EXCEPT ![u].role = role] ELSE table

-----------------------------------------------------------------------------
(* What every way in and out ends with. *)

\* A call to the IM server fails and is only logged: the handler goes on.
Lost(users) == faults < MaxFaults /\ faults' = faults + 1 /\ unsure' = unsure \cup users

\* IMAddSubscriber.  A scan that cannot subscribe ends here, the others go on.
Subscribe(r) ==
    /\ At(r, "subscribe")
    /\ \/ /\ channel' = channel \cup {Who(r)} /\ muffled' = muffled \ {Who(r)}
          /\ Step(r, "topics")
          /\ UNCHANGED <<unsure, faults>>
       \/ /\ Lost({Who(r)})
          /\ IF req[r].op = "scan" THEN Done(r) ELSE Step(r, "topics")
          /\ UNCHANGED <<channel, muffled>>
    /\ UNCHANGED <<member, topic, denied, disbanding, contested, begun>>

\* addUsersToGroupThreads.
Topics(r) ==
    /\ At(r, "topics")
    /\ \/ topic' = topic \cup {Who(r)} /\ UNCHANGED <<unsure, faults>>
       \/ Lost({Who(r)}) /\ UNCHANGED topic
    /\ Done(r)
    /\ UNCHANGED <<member, channel, denied, disbanding, muffled, contested, begun>>

\* IMRemoveSubscriber of a kick, of a block, or of the robots that went with
\* their owner.
Unsubscribe(r) ==
    /\ At(r, "unsubscribe")
    /\ \/ channel' = channel \ req[r].gone /\ UNCHANGED <<unsure, faults>>
       \/ Lost(req[r].gone) /\ UNCHANGED channel
    /\ IF req[r].op = "block" THEN Done(r) ELSE Step(r, "untopic")
    /\ UNCHANGED <<member, topic, denied, disbanding, muffled, contested, begun>>

\* removeUserFromGroupThreads, for the user first and then for the robots.
Untopic(r) ==
    /\ At(r, "untopic")
    /\ \/ topic' = topic \ req[r].gone /\ UNCHANGED <<unsure, faults>>
       \/ Lost(req[r].gone) /\ UNCHANGED topic
    /\ \/ req[r].op = "block" /\ Step(r, "unsubscribe")
       \/ /\ req[r].op # "block" /\ req[r].bots # {}
          /\ req' = [req EXCEPT ![r].at = "unsubscribe", ![r].gone = req[r].bots,
                                ![r].bots = {}]
       \/ req[r].op # "block" /\ req[r].bots = {} /\ Done(r)
    /\ UNCHANGED <<member, channel, denied, disbanding, muffled, contested, begun>>

-----------------------------------------------------------------------------
(* Ways in. *)

\* Mutant of Admissible: anybody may add a robot.
AdmissibleByAny(u) ==
    /\ live /\ ~IsActive(u) /\ ~member[u].black
    /\ \E a \in Person : IsActive(a)

\* AddGroupMembers and addMembersTx: an active member adds, a robot only by the
\* user it belongs to, and nobody on the blacklist.
Admissible(u) ==
    /\ live /\ ~IsActive(u) /\ ~member[u].black
    /\ \E a \in Person : IsActive(a) /\ (u \in Bot => a = OwnerOf[u])

Add(r, u) ==
    /\ Admissible(u)
    /\ Begin(r, Call("add", "look", u))
    /\ UNCHANGED <<member, im, disbanding, muffled, contested, faults>>

\* groupMemberInviteSure of an invitation a member sent.
Invite(r, u) ==
    /\ Admissible(u)
    /\ Begin(r, Call("invite", "hold", u))
    /\ UNCHANGED <<member, im, disbanding, muffled, contested, faults>>

\* groupScanJoin, which does not look at the blacklist.
Scan(r, u) ==
    /\ live /\ ~IsActive(u) /\ u \notin Bot
    /\ Begin(r, Call("scan", "look", u))
    /\ UNCHANGED <<member, im, disbanding, muffled, contested, faults>>

\* ExistMemberDelete, outside the transaction.
Look(r) ==
    /\ At(r, "look")
    /\ req' = [req EXCEPT ![r].at = "write", ![r].seen = member[Who(r)]]
    /\ UNCHANGED <<member, im, disbanding, unsure, muffled, contested, begun, faults>>

\* recoverMemberTx of whatever the row is by now, or InsertMemberTx, which the
\* unique index refuses when there is a row; only who was added is subscribed.
Write(r) ==
    /\ At(r, "write") /\ Free
    /\ IF req[r].seen.row = "deleted" \/ member[Who(r)].row = "none"
       THEN /\ member' = Joined(Who(r))
            /\ contested' = (contested \/ IsCreator(Who(r)))
            /\ Step(r, "subscribe")
       ELSE Done(r) /\ UNCHANGED <<member, contested>>
    /\ UNCHANGED <<im, disbanding, unsure, muffled, begun, faults>>

\* addMembersTx locks the member rows, and subscribes the user before the
\* transaction that makes it a member is committed ...
Hold(r) ==
    /\ At(r, "hold") /\ Free
    /\ \/ IsActive(Who(r)) /\ Done(r) /\ UNCHANGED <<channel, muffled>>
       \/ /\ ~IsActive(Who(r))
          /\ channel' = channel \cup {Who(r)} /\ muffled' = muffled \ {Who(r)}
          /\ Step(r, "commit")
    /\ UNCHANGED <<member, topic, denied, disbanding, unsure, contested, begun, faults>>

\* ... and nobody subscribes it to the threads.
Commit(r) ==
    /\ At(r, "commit")
    /\ member' = Joined(Who(r))
    /\ Done(r)
    /\ UNCHANGED <<im, disbanding, unsure, muffled, contested, begun, faults>>

-----------------------------------------------------------------------------
(* Ways out. *)

\* QueryBotsInvitedByUIDTx: the user's robots among the members.
Cascaded(u) == {b \in BotsOf(u) : IsActive(b)}

\* groupExit: the user is unsubscribed before anything is asked about it.
Exit(r, u) ==
    /\ live /\ u \notin Bot
    /\ Begin(r, Call("exit", "quit", u))
    /\ UNCHANGED <<member, im, disbanding, muffled, contested, faults>>

Quit(r) ==
    /\ At(r, "quit")
    /\ channel' = channel \ {Who(r)}
    /\ Step(r, "own")
    /\ UNCHANGED <<member, topic, denied, disbanding, unsure, muffled, contested, begun, faults>>

Own(r) ==
    /\ At(r, "own")
    /\ IF IsActive(Who(r))
       THEN req' = [req EXCEPT ![r].at = IF IsCreator(Who(r)) THEN "heir" ELSE "leave",
                               ![r].seen = member[Who(r)]]
       ELSE Done(r)
    /\ UNCHANGED <<member, im, disbanding, unsure, muffled, contested, begun, faults>>

\* Mutant of Heirs: the one that leaves may succeed itself.
HeirsWithCreator == {u \in Person : IsActive(u)}

\* QuerySecondOldestMember: any of them may have joined first, a robot, a
\* blocked or an external one too.
Heirs == {u \in Person : IsActive(u) /\ member[u].role # "creator"}

Heir(r) ==
    /\ At(r, "heir")
    /\ \E u \in IF Heirs = {} THEN {Nobody} ELSE Heirs :
          req' = [req EXCEPT ![r].at = "leave", ![r].heir = u]
    /\ UNCHANGED <<member, im, disbanding, unsure, muffled, contested, begun, faults>>

\* The transaction of groupExit: it appoints the heir, deletes the user and, if
\* that was no creator, its robots.
Leave(r) ==
    LET u == Who(r)
        creates == req[r].seen.role = "creator"
        bots == IF creates THEN {} ELSE Cascaded(u)
    IN  /\ At(r, "leave") /\ Free
        /\ member' = Appointed(Deleted({u} \cup bots), req[r].heir, "creator")
        /\ contested' = (contested \/ creates # IsCreator(u)
                            \/ (creates /\ req[r].heir \notin Heirs)
                            \/ \E b \in bots : IsCreator(b))
        /\ req' = [req EXCEPT ![r].at = "untopic", ![r].gone = {u}, ![r].bots = bots]
        /\ UNCHANGED <<im, disbanding, unsure, muffled, begun, faults>>

\* RemoveGroupMembers, also for an administrator of the installation who is no
\* member: it passes over the creator and the managers.
Kick(r, u) ==
    /\ live
    /\ Begin(r, Call("kick", "target", u))
    /\ UNCHANGED <<member, im, disbanding, muffled, contested, faults>>

Target(r) ==
    /\ At(r, "target")
    /\ IF live /\ IsActive(Who(r)) /\ member[Who(r)].role = "common"
       THEN Step(r, "delete") ELSE Done(r)
    /\ UNCHANGED <<member, im, disbanding, unsure, muffled, contested, begun, faults>>

\* Mutant of Delete: the robots that went with their owner stay subscribed.
DeleteForgetsBots(r) ==
    LET out == {Who(r)} \cup Cascaded(Who(r))
    IN  /\ At(r, "delete") /\ Free
        /\ member' = Deleted(out)
        /\ contested' = (contested \/ \E u \in out : IsCreator(u))
        /\ req' = [req EXCEPT ![r].at = "unsubscribe", ![r].gone = {Who(r)}]
        /\ UNCHANGED <<im, disbanding, unsure, muffled, begun, faults>>

Delete(r) ==
    LET out == {Who(r)} \cup Cascaded(Who(r))
    IN  /\ At(r, "delete") /\ Free
        /\ member' = Deleted(out)
        /\ contested' = (contested \/ \E u \in out : IsCreator(u))
        /\ req' = [req EXCEPT ![r].at = "unsubscribe", ![r].gone = out]
        /\ UNCHANGED <<im, disbanding, unsure, muffled, begun, faults>>


-----------------------------------------------------------------------------
(* Roles. *)

\* transferGrouper reads the row of the user it hands the group to, ...
Transfer(r, a, u) ==
    /\ IsActive(u) /\ u \notin External /\ a # u
    /\ Begin(r, [Call("transfer", "entitled", u) EXCEPT !.by = a, !.seen = member[u]])
    /\ UNCHANGED <<member, im, disbanding, muffled, contested, faults>>

\* ... QueryIsGroupCreator of the one that hands it over, ...
Entitled(r) ==
    /\ At(r, "entitled")
    /\ IF live /\ IsCreator(req[r].by) THEN Step(r, "hand") ELSE Done(r)
    /\ UNCHANGED <<member, im, disbanding, unsure, muffled, contested, begun, faults>>

\* ... and writes both rows, whoever is the creator by now.
Hand(r) ==
    LET a == req[r].by  u == Who(r)
        stepped == Appointed(member, a, "common")
    IN  /\ At(r, "hand") /\ Free
        /\ member' = IF IsActive(u)
                     THEN [stepped EXCEPT ![u].role = "creator", ![u].muted = FALSE]
                     ELSE stepped
        /\ contested' = (contested \/ ~IsCreator(a) \/ ~IsActive(u))
        /\ IF req[r].seen.muted THEN Step(r, "undeny") ELSE Done(r)
        /\ UNCHANGED <<im, disbanding, unsure, muffled, begun, faults>>

\* managerAdd, which goes on to look at the user's row.
Promote(r, a, u) ==
    /\ live /\ IsCreator(a) /\ a # u
    /\ Begin(r, Call("promote", "check", u))
    /\ UNCHANGED <<member, im, disbanding, muffled, contested, faults>>

Check(r) ==
    /\ At(r, "check")
    /\ IF IsActive(Who(r)) /\ Who(r) \notin External THEN Step(r, "role") ELSE Done(r)
    /\ UNCHANGED <<member, im, disbanding, unsure, muffled, contested, begun, faults>>

\* managerRemove, which does not.
Demote(r, a, u) ==
    /\ live /\ IsCreator(a) /\ a # u
    /\ Begin(r, Call("demote", "role", u))
    /\ UNCHANGED <<member, im, disbanding, muffled, contested, faults>>

\* UpdateMembersToManager and UpdateManagersToMember, whatever the role is by now.
SetRole(r) ==
    /\ At(r, "role") /\ Free
    /\ member' = Appointed(member, Who(r),
                           IF req[r].op = "promote" THEN "manager" ELSE "common")
    /\ contested' = (contested \/ IsCreator(Who(r)))
    /\ Done(r)
    /\ UNCHANGED <<im, disbanding, unsure, muffled, begun, faults>>

-----------------------------------------------------------------------------
(* Blocking and muting. *)

\* blacklist, of anybody: the users named need not be members.
Block(r, u) ==
    /\ live /\ \E a \in Person : IsManager(a)
    /\ \E op \in {"block", "unblock"} : Begin(r, Call(op, "mark", u))
    /\ UNCHANGED <<member, im, disbanding, muffled, contested, faults>>

\* updateMembersStatus, of a deleted row too.
Mark(r) ==
    /\ At(r, "mark") /\ Free
    /\ member' = [member EXCEPT ![Who(r)].black =
                     req[r].op = "block" /\ member[Who(r)].row # "none"]
    /\ Step(r, IF req[r].op = "block" THEN "deny" ELSE "revive")
    /\ UNCHANGED <<im, disbanding, unsure, muffled, contested, begun, faults>>

\* Mutant of Revive: unblocking lets a muted member speak.
ReviveMuted(r) ==
    /\ At(r, "revive")
    /\ IF IsActive(Who(r)) THEN Step(r, "undeny") ELSE Done(r)
    /\ UNCHANGED <<member, im, disbanding, unsure, muffled, contested, begun, faults>>

\* A member that is unblocked while it is muted is left as it is: neither heard
\* nor subscribed.
Revive(r) ==
    LET u == Who(r)
    IN  /\ At(r, "revive")
        /\ muffled' = IF IsActive(u) /\ member[u].muted THEN muffled \cup {u} ELSE muffled
        /\ IF IsActive(u) /\ ~member[u].muted THEN Step(r, "undeny") ELSE Done(r)
        /\ UNCHANGED <<member, im, disbanding, unsure, contested, begun, faults>>

\* forbiddenWithGroupMember read both rows.
Mute(r, u) ==
    /\ live /\ IsActive(u) /\ member[u].role # "creator"
    /\ \E a \in Person : IsActive(a) /\ member[a].role \notin {"common", member[u].role}
    /\ \E op \in {"mute", "unmute"} :
          Begin(r, [Call(op, "rewrite", u) EXCEPT !.seen = member[u]])
    /\ UNCHANGED <<member, im, disbanding, muffled, contested, faults>>

\* CheckForbiddenLoop read a row whose time is over, a deleted one too.
Expire(r, u) ==
    /\ member[u].muted
    /\ Begin(r, [Call("expire", "rewrite", u) EXCEPT !.seen = member[u]])
    /\ UNCHANGED <<member, im, disbanding, muffled, contested, faults>>

\* UpdateMember writes the whole row it read, except for the status.
Rewritten(u, seen, muted) == [seen EXCEPT !.muted = muted, !.black = member[u].black]

Rewrite(r) ==
    LET u == Who(r)  seen == req[r].seen
    IN  /\ At(r, "rewrite") /\ Free
        /\ member' = [member EXCEPT ![u] = Rewritten(u, seen, req[r].op = "mute")]
        /\ contested' = (contested
                            \/ seen.row # member[u].row \/ seen.role # member[u].role)
        /\ \/ req[r].op = "mute" /\ Step(r, "deny")
           \/ req[r].op = "expire" /\ seen.black /\ Done(r)
           \/ /\ req[r].op = "unmute" \/ (req[r].op = "expire" /\ ~seen.black)
              /\ Step(r, "undeny")
        /\ UNCHANGED <<im, disbanding, unsure, muffled, begun, faults>>

\* setGroupBlacklist; the handler ends when the IM server fails, see Fail.
Deny(r) ==
    /\ At(r, "deny")
    /\ denied' = denied \cup {Who(r)}
    /\ IF req[r].op = "block"
       THEN req' = [req EXCEPT ![r].at = "untopic", ![r].gone = {Who(r)}]
       ELSE Done(r)
    /\ UNCHANGED <<member, channel, topic, disbanding, unsure, muffled, contested, begun, faults>>

\* Mutant of Undeny: an unblocked member is not subscribed again.
UndenyOnly(r) ==
    /\ At(r, "undeny")
    /\ denied' = denied \ {Who(r)}
    /\ Done(r)
    /\ UNCHANGED <<member, channel, topic, disbanding, unsure, muffled, contested, begun, faults>>

Undeny(r) ==
    /\ At(r, "undeny")
    /\ denied' = denied \ {Who(r)}
    /\ IF req[r].op = "unblock" THEN Step(r, "subscribe") ELSE Done(r)
    /\ UNCHANGED <<member, channel, topic, disbanding, unsure, muffled, contested, begun, faults>>

-----------------------------------------------------------------------------
(* Disbanding, and what may go wrong. *)

\* disband: the creator asks, ...
Disband(r) ==
    /\ live /\ \E a \in Person : IsCreator(a)
    /\ Begin(r, Call("disband", "disband", Nobody))
    /\ UNCHANGED <<member, im, disbanding, muffled, contested, faults>>

\* ... and the status is written together with the event.
Close(r) ==
    /\ At(r, "disband")
    /\ live' = FALSE /\ event' = "wait"
    /\ unsure' = unsure \cup UNION {Concerns(req[q]) : q \in Request}
    /\ Done(r)
    /\ UNCHANGED <<member, im, cleaning, muffled, contested, begun, faults>>

\* handleGroupDisbandEvent, run at once and by EventTimerPush as long as the
\* event waits: it deletes the channel, ...
DelChannel ==
    /\ event = "wait" /\ ~cleaning
    /\ \/ channel' = {} /\ cleaning' = TRUE /\ UNCHANGED <<event, faults>>
       \/ \* a failed event is not tried again
          /\ faults < MaxFaults /\ faults' = faults + 1
          /\ event' = "failed"
          /\ UNCHANGED <<channel, cleaning>>
    /\ UNCHANGED <<live, member, topic, denied, req, unsure, muffled, contested, begun>>

\* ... and those of the threads.
DelThreads ==
    /\ cleaning
    /\ \/ topic' = {} /\ UNCHANGED <<unsure, faults>>
       \/ Lost(Person) /\ UNCHANGED topic
    /\ cleaning' = FALSE /\ event' = "done"
    /\ UNCHANGED <<live, member, channel, denied, req, muffled, contested, begun>>

\* The process stops while it handles the event.
CrashEvent ==
    /\ cleaning
    /\ faults < MaxFaults /\ faults' = faults + 1
    /\ cleaning' = FALSE
    /\ UNCHANGED <<live, member, im, event, req, unsure, muffled, contested, begun>>

\* A statement or a call is refused, or the process stops: the handler ends
\* where it is, and its open transaction is rolled back.
Fail(r) ==
    /\ ~At(r, "idle")
    /\ faults < MaxFaults /\ faults' = faults + 1
    /\ unsure' = unsure \cup Concerns(req[r])
    /\ Done(r)
    /\ UNCHANGED <<member, im, disbanding, muffled, contested, begun>>

GroupNext ==
    \/ \E r \in Request, u \in Person :
          \/ Add(r, u) \/ Invite(r, u) \/ Scan(r, u) \/ Exit(r, u) \/ Kick(r, u)
          \/ Block(r, u) \/ Mute(r, u) \/ Expire(r, u)
          \/ \E a \in Person : Transfer(r, a, u) \/ Promote(r, a, u) \/ Demote(r, a, u)
    \/ \E r \in Request :
          \/ Look(r) \/ Write(r) \/ Hold(r) \/ Commit(r) \/ Subscribe(r) \/ Topics(r)
          \/ Quit(r) \/ Own(r) \/ Heir(r) \/ Leave(r) \/ Target(r) \/ Delete(r)
          \/ Unsubscribe(r) \/ Untopic(r)
          \/ Entitled(r) \/ Hand(r) \/ Check(r) \/ SetRole(r)
          \/ Mark(r) \/ Revive(r) \/ Rewrite(r) \/ Deny(r) \/ Undeny(r)
          \/ Disband(r) \/ Close(r) \/ Fail(r)
    \/ DelChannel \/ DelThreads \/ CrashEvent

GroupSpec == GroupInit /\ [][GroupNext]_groupVars

-----------------------------------------------------------------------------
(* What must hold. *)

\* No request that was answered, or that is under way, leaves the user in doubt.
Settled(u) == u \notin unsure /\ \A r \in Request : u \notin Concerns(req[r])

\* The group has one creator, as long as no role was written on what was true no
\* longer (transferGrouper, groupExit, UpdateMember) and the creator left somebody
\* to succeed it.
OneCreator == ~contested => Cardinality({u \in Person : IsCreator(u)}) = 1

\* Nobody hears a group or its threads that is not a member of it, nor after the
\* disband event was handled: groupExit, RemoveGroupMembers, blacklist, and
\* handleGroupDisbandEvent take every subscription with them.
SubscribersAreMembers ==
    \A u \in channel \cup topic :
        Settled(u) => IsActive(u) /\ (live \/ event \in {"wait", "failed"} \/ cleaning)

\* A member that is not blocked hears the group, unless it was unblocked while it
\* was muted (blacklist).
MembersAreSubscribed ==
    live => \A u \in Person :
        Settled(u) /\ IsActive(u) /\ ~member[u].black => u \in channel \cup muffled

\* Whoever the table says is muted cannot speak: forbiddenWithGroupMember,
\* blacklist and CheckForbiddenLoop keep the deny list in step with it.
MutedAreSilenced ==
    live => \A u \in Person :
        Settled(u) /\ IsActive(u) /\ member[u].muted => u \in denied

\* A robot is in the group while the user it belongs to is, or after that user left
\* as its creator (cascadeRemoveBotsInvitedByUIDTx), or because it was put into the new
\* group while its user never entered it: CreateGroup asks nothing about robots.
BotsFollowOwner ==
    \A b \in Bot :
        Settled(b) /\ IsActive(b) =>
            LET owner == member[OwnerOf[b]]
            IN  \/ owner.row = "active"
                \/ owner.row = "deleted" /\ owner.role = "creator"
                \/ owner.row = "none" /\ b \in Early

=============================================================================
