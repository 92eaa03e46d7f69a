----------------------------- MODULE SpacesProofs -----------------------------
(* Theorems about Spaces, for every set of users and requests and every bound. *)
EXTENDS Spaces, FiniteSetTheorems, TLAPS

-----------------------------------------------------------------------------
(* Type correctness. *)

LEMMA InitType == SpaceInit => SpaceTypeOK
<1> SUFFICES ASSUME SpaceInit PROVE SpaceTypeOK
  OBVIOUS
<1> USE SpacesAssumption DEF SpaceInit
<1>1. member \in [Person -> Member]
  BY DEF Member, Role
<1>2. Idle \in Pending
  BY DEF Idle, Pending, JoinStep, OtherStep, Role
<1>3. req \in [Request -> Pending] /\ \A r \in Request : req[r].at = "idle"
  BY <1>2 DEF Idle
<1>4. usurped \in BOOLEAN /\ purged \in BOOLEAN
  BY Zenon
<1> QED BY <1>1, <1>3, <1>4 DEF SpaceTypeOK, Mail, Nameless

RequestsTyped ==
    /\ req \in [Request -> Pending]
    /\ \A r \in Request : req[r].at \notin Nameless => req[r].who \in Person

\* What a request becomes by a new call, by a step or at its end is a request.
LEMMA CallType ==
    ASSUME SpaceTypeOK, NEW r \in Request, NEW q \in Pending,
           q.at \in Nameless \/ q.who \in Person,
           req' = [req EXCEPT ![r] = q]
    PROVE  RequestsTyped'
BY DEF SpaceTypeOK, RequestsTyped

LEMMA BegunType ==
    ASSUME SpaceTypeOK, NEW r \in Request, NEW q \in Pending, q.who \in Person, Begin(r, q)
    PROVE  RequestsTyped' /\ begun' \in 0..MaxBegun
<1>1. req' = [req EXCEPT ![r] = q] /\ begun < MaxBegun /\ begun' = begun + 1
  BY DEF Begin
<1>2. RequestsTyped'
  BY <1>1, CallType
<1>3. begun' \in 0..MaxBegun
  BY <1>1, SpacesAssumption DEF SpaceTypeOK
<1> QED BY <1>2, <1>3

LEMMA IdleType == Idle \in Pending /\ Idle.at = "idle" /\ Idle.at \in Nameless
BY DEF Idle, Pending, JoinStep, OtherStep, Role, Nameless

LEMMA DoneType ==
    ASSUME SpaceTypeOK, NEW r \in Request, Done(r)
    PROVE  RequestsTyped'
BY IdleType, CallType DEF Done

LEMMA StepType ==
    ASSUME SpaceTypeOK, NEW r \in Request, NEW at \in JoinStep,
           ~At(r, "idle"), req[r].at \notin Nameless,
           Step(r, at)
    PROVE  RequestsTyped'
<1>1. req[r] \in Pending /\ req[r].who \in Person
  BY DEF SpaceTypeOK
<1>2. [req[r] EXCEPT !.at = at] \in Pending /\ [req[r] EXCEPT !.at = at].who \in Person
  BY <1>1 DEF Pending
<1> QED BY <1>2, CallType DEF Step

LEMMA BeginType ==
    ASSUME SpaceTypeOK, NEW r \in Request, NEW at \in OtherStep \cup {"charge"},
           NEW of \in {"code", "apply", "mail", "none"}, NEW u \in Person \cup {Nobody},
           at \in Nameless \/ u \in Person,
           Begin(r, Call(at, of, u))
    PROVE  RequestsTyped' /\ begun' \in 0..MaxBegun
<1>1. Call(at, of, u) \in Pending
  BY DEF Call, Pending, JoinStep, OtherStep, Role
<1>2. Call(at, of, u).at = at /\ Call(at, of, u).who = u
  BY DEF Call
<1>3. begun' \in 0..MaxBegun
  BY SpacesAssumption DEF Begin, SpaceTypeOK
<1> QED BY <1>1, <1>2, <1>3, CallType DEF Begin

LEMMA NextType == SpaceTypeOK /\ [SpaceNext]_spaceVars => SpaceTypeOK'
<1> SUFFICES ASSUME SpaceTypeOK, [SpaceNext]_spaceVars PROVE SpaceTypeOK'
  OBVIOUS
<1> USE DEF table, told
<1>0. CASE UNCHANGED spaceVars
  BY <1>0 DEF spaceVars, SpaceTypeOK
<1>1. ASSUME NEW r \in Request, NEW u \in Person,
             Join(r, u) \/ Ask(r, u) \/ Approve(r, u) \/ Reject(r, u) \/ AcceptMail(r, u)
      PROVE  SpaceTypeOK'
  <2>1. PICK at \in {"charge", "ask", "decide", "deny", "consume"}, of \in {"code", "apply", "mail"} :
           Begin(r, Call(at, of, u)) /\ UNCHANGED <<table, told, faults>>
    BY <1>1 DEF Join, Ask, Approve, Reject, AcceptMail
  <2>2. RequestsTyped' /\ begun' \in 0..MaxBegun
    BY <2>1, BeginType DEF OtherStep
  <2> QED BY <2>1, <2>2 DEF SpaceTypeOK, RequestsTyped
<1>2. ASSUME NEW r \in Request, AskWrite(r) \/ Deny(r)
      PROVE  SpaceTypeOK'
  <2>1. RequestsTyped'
    BY <1>2, DoneType DEF AskWrite, Deny
  <2> QED BY <1>2, <2>1 DEF SpaceTypeOK, RequestsTyped, AskWrite, Deny
<1>3. ASSUME NEW r \in Request, Decide(r)
      PROVE  SpaceTypeOK'
  <2>1. RequestsTyped'
    BY <1>3, DoneType, StepType DEF Decide, At, JoinStep, Nameless
  <2> QED BY <1>3, <2>1 DEF SpaceTypeOK, RequestsTyped, Decide
<1>4. ASSUME NEW r \in Request, Charge(r)
      PROVE  SpaceTypeOK'
  <2>1. req[r] \in Pending /\ req[r].who \in Person
    BY <1>4 DEF Charge, At, Nameless, SpaceTypeOK
  <2>2. RequestsTyped' /\ used' \in 0..MaxUses
    <3>1. CASE used < MaxUses /\ used' = used + 1
               /\ req' = [req EXCEPT ![r].at = "look", ![r].paid = TRUE]
      <4>1. [req[r] EXCEPT !.at = "look", !.paid = TRUE] \in Pending
        BY <2>1 DEF Pending, JoinStep
      <4>2. [req[r] EXCEPT !.at = "look", !.paid = TRUE].who \in Person
        BY <2>1 DEF Pending
      <4>3. req' = [req EXCEPT ![r] = [req[r] EXCEPT !.at = "look", !.paid = TRUE]]
        BY <3>1
      <4>4. RequestsTyped'
        BY <4>1, <4>2, <4>3, CallType
      <4> QED BY <3>1, <4>4, SpacesAssumption DEF SpaceTypeOK
    <3>2. CASE (UNCHANGED used) /\ (IF req[r].of = "apply" THEN Step(r, "reopen") ELSE Done(r))
      BY <1>4, <3>2, DoneType, StepType DEF Charge, At, JoinStep, Nameless, SpaceTypeOK
    <3> QED BY <1>4, <3>1, <3>2 DEF Charge
  <2> QED BY <1>4, <2>2 DEF SpaceTypeOK, RequestsTyped, Charge
<1>5. ASSUME NEW r \in Request, Consume(r)
      PROVE  SpaceTypeOK'
  <2>1. RequestsTyped'
    BY <1>5, DoneType, StepType DEF Consume, At, JoinStep, Nameless
  <2>2. mail' \in Mail
    BY <1>5 DEF Consume, At, Nameless, SpaceTypeOK, Mail, Who
  <2> QED BY <1>5, <2>1, <2>2 DEF SpaceTypeOK, RequestsTyped, Consume
<1>6. CASE RevokeMail
  BY <1>6 DEF RevokeMail, SpaceTypeOK, Mail
<1>7. ASSUME NEW r \in Request, Look(r)
      PROVE  SpaceTypeOK'
  <2>1. req[r] \in Pending /\ Who(r) \in Person
    BY <1>7 DEF Look, At, Nameless, SpaceTypeOK, Who
  <2>2. RequestsTyped'
    <3>1. CASE IsActive(Who(r))
      BY <1>7, <3>1, StepType DEF Look, At, JoinStep, Nameless
    <3>2. CASE ~IsActive(Who(r))
      <4>1. member[Who(r)].row \in {"none", "removed"}
        BY <2>1, <3>2 DEF IsActive, SpaceTypeOK, Member
      <4> DEFINE q == [req[r] EXCEPT !.at = "write", !.seen = member[Who(r)].row]
      <4>2. q \in Pending /\ q.who \in Person
        BY <2>1, <4>1 DEF Pending, JoinStep, Who
      <4>3. req' = [req EXCEPT ![r] = q]
        BY <1>7, <3>2 DEF Look
      <4> QED BY <4>2, <4>3, CallType
    <3> QED BY <3>1, <3>2
  <2>3. joined' \in Nat /\ admitted' \subseteq Person /\ invited' \subseteq Person
    BY <1>7, <2>1 DEF Look, Admitted, SpaceTypeOK
  <2> QED BY <1>7, <2>2, <2>3 DEF SpaceTypeOK, RequestsTyped, Look
<1>8. ASSUME NEW r \in Request, Write(r)
      PROVE  SpaceTypeOK'
  <2>1. req[r] \in Pending /\ Who(r) \in Person
    BY <1>8 DEF Write, At, Nameless, SpaceTypeOK, Who
  <2>2. RequestsTyped'
    BY <1>8, DoneType, StepType DEF Write, Wrote, TakeBack, At, JoinStep, Nameless
  <2>3. joined' \in Nat /\ admitted' \subseteq Person /\ invited' \subseteq Person
    BY <1>8, <2>1 DEF Write, Admitted, SpaceTypeOK
  <2>4. member' \in [Person -> Member]
    <3>1. Reactivated(Who(r)) \in [Person -> Member]
      BY <2>1 DEF Reactivated, SpaceTypeOK, Member, Role
    <3> QED BY <1>8, <3>1 DEF Write, SpaceTypeOK
  <2>5. usurped' \in BOOLEAN
    BY <1>8 DEF Write, SpaceTypeOK
  <2> QED BY <1>8, <2>2, <2>3, <2>4, <2>5 DEF SpaceTypeOK, RequestsTyped, Write
<1>9. ASSUME NEW r \in Request, JoinFails(r)
      PROVE  SpaceTypeOK'
  <2>1. RequestsTyped'
    BY <1>9, StepType DEF JoinFails, TakeBack, At, JoinStep, Nameless
  <2> QED BY <1>9, <2>1, SpacesAssumption DEF SpaceTypeOK, RequestsTyped, JoinFails
<1>10. ASSUME NEW r \in Request, Refund(r) \/ Reopen(r) \/ Release(r)
       PROVE  SpaceTypeOK'
  <2>1. RequestsTyped'
    BY <1>10, DoneType, StepType DEF Refund, Reopen, Release, At, JoinStep, Nameless
  <2>2. used' \in 0..MaxUses
    BY <1>10, SpacesAssumption DEF Refund, Reopen, Release, SpaceTypeOK
  <2>3. mail' \in Mail
    BY <1>10 DEF Refund, Reopen, Release, SpaceTypeOK, Mail
  <2>4. apply' \in [Person -> {"none", "pending", "approved", "rejected"}]
    BY <1>10 DEF Refund, Reopen, Release, Reopened, SpaceTypeOK
  <2> QED BY <1>10, <2>1, <2>2, <2>3, <2>4 DEF SpaceTypeOK, RequestsTyped, Refund, Reopen, Release
<1>11. ASSUME NEW r \in Request, Promote(r) \/ Raise(r)
       PROVE  SpaceTypeOK'
  <2>1. RequestsTyped'
    BY <1>11, DoneType, StepType DEF Promote, Raise, At, JoinStep, Nameless
  <2>2. member' \in [Person -> Member]
    BY <1>11 DEF Promote, Raise, Assigned, SpaceTypeOK, Member, Role
  <2> QED BY <1>11, <2>1, <2>2 DEF SpaceTypeOK, RequestsTyped, Promote, Raise
<1>12. ASSUME NEW r \in Request, NEW a \in Person, NEW u \in Person, Add(r, a, u) \/ Remove(r, a, u)
       PROVE  SpaceTypeOK'
  <2>1. member[u] \in Member /\ member[a] \in Member
    BY DEF SpaceTypeOK
  <2>2. PICK q \in Pending : Begin(r, q) /\ q.who \in Person
    <3>1. CASE Add(r, a, u)
      <4>0. member[u].row \in {"none", "removed"}
        BY <2>1, <3>1 DEF Add, IsActive, Member
      <4>1. [Call("add", "none", u) EXCEPT !.seen = member[u].row] \in Pending
        <5>1. Call("add", "none", u) \in Pending
          BY DEF Call, Pending, JoinStep, OtherStep, Role
        <5> QED BY <4>0, <5>1 DEF Pending
      <4>2. [Call("add", "none", u) EXCEPT !.seen = member[u].row].who \in Person
        BY DEF Call
      <4> QED BY <3>1, <4>1, <4>2 DEF Add
    <3>2. CASE Remove(r, a, u)
      <4> DEFINE role == IF a = u THEN 2 ELSE member[a].role
      <4>1. role \in Role
        BY <2>1 DEF Member, Role
      <4> HIDE DEF role
      <4>2. [Call("remove", "none", u) EXCEPT !.role = role] \in Pending
        BY <4>1 DEF Call, Pending, JoinStep, OtherStep, Role
      <4>3. [Call("remove", "none", u) EXCEPT !.role = role].who \in Person
        BY DEF Call
      <4> QED BY <3>2, <4>2, <4>3 DEF Remove, role
    <3> QED BY <1>12, <3>1, <3>2
  <2>3. RequestsTyped' /\ begun' \in 0..MaxBegun
    BY <2>2, BegunType
  <2> QED BY <1>12, <2>3 DEF SpaceTypeOK, RequestsTyped, Add, Remove
<1>13. ASSUME NEW r \in Request, NEW u \in Person, ManagerAdd(r, u)
       PROVE  SpaceTypeOK'
  <2>1. RequestsTyped' /\ begun' \in 0..MaxBegun
    BY <1>13, BeginType DEF ManagerAdd, OtherStep
  <2> QED BY <1>13, <2>1 DEF SpaceTypeOK, RequestsTyped, ManagerAdd
<1>14. ASSUME NEW r \in Request, NEW u \in Person, NEW role \in Role, Assign(r, u, role)
       PROVE  SpaceTypeOK'
  <2> DEFINE q == [Call("assign", "none", u) EXCEPT !.role = role]
  <2>1. q \in Pending /\ q.who \in Person
    BY DEF Call, Pending, JoinStep, OtherStep
  <2>2. RequestsTyped' /\ begun' \in 0..MaxBegun
    <3>1. Begin(r, q)
      BY <1>14 DEF Assign
    <3> HIDE DEF q
    <3> QED BY <2>1, <3>1, BegunType
  <2> QED BY <1>14, <2>2 DEF SpaceTypeOK, RequestsTyped, Assign
<1>15. ASSUME NEW r \in Request, AddWrite(r) \/ Upsert(r)
       PROVE  SpaceTypeOK'
  <2>1. Who(r) \in Person
    BY <1>15 DEF AddWrite, Upsert, At, Nameless, SpaceTypeOK, Who
  <2>2. RequestsTyped'
    BY <1>15, DoneType DEF AddWrite, Upsert
  <2>3. member' \in [Person -> Member]
    BY <1>15, <2>1 DEF AddWrite, Upsert, Reactivated, SpaceTypeOK, Member, Role
  <2>4. usurped' \in BOOLEAN
    BY <1>15 DEF AddWrite, Upsert, SpaceTypeOK
  <2> QED BY <1>15, <2>2, <2>3, <2>4 DEF SpaceTypeOK, RequestsTyped, AddWrite, Upsert
<1>16. ASSUME NEW r \in Request, RemoveWrite(r) \/ AssignWrite(r)
       PROVE  SpaceTypeOK'
  <2>1. RequestsTyped'
    BY <1>16, DoneType DEF RemoveWrite, AssignWrite
  <2>2. req[r].role \in Role
    BY DEF SpaceTypeOK, Pending
  <2>3. member' \in [Person -> Member]
    <3>1. CASE RemoveWrite(r)
      BY <3>1 DEF RemoveWrite, SpaceTypeOK, Member
    <3>2. CASE AssignWrite(r)
      <4>1. Transferred(Who(r)) \in [Person -> Member]
        BY DEF Transferred, SpaceTypeOK, Member, Role
      <4>2. Assigned(Who(r), req[r].role) \in [Person -> Member]
        BY <2>2 DEF Assigned, SpaceTypeOK, Member
      <4> QED BY <3>2, <4>1, <4>2 DEF AssignWrite
    <3> QED BY <1>16, <3>1, <3>2
  <2> QED BY <1>16, <2>1, <2>3 DEF SpaceTypeOK, RequestsTyped, RemoveWrite, AssignWrite
<1>17. ASSUME NEW r \in Request, NEW at \in {"disband", "purge", "ban", "lift"}, ReadSpace(r, at)
       PROVE  SpaceTypeOK'
  <2>1. RequestsTyped' /\ begun' \in 0..MaxBegun
    BY <1>17, BeginType DEF ReadSpace, OtherStep, Nameless
  <2> QED BY <1>17, <2>1 DEF SpaceTypeOK, RequestsTyped, ReadSpace
<1>18. ASSUME NEW r \in Request, WriteSpace(r) \/ Purge(r)
       PROVE  SpaceTypeOK'
  <2>1. RequestsTyped'
    BY <1>18, DoneType DEF WriteSpace, Purge
  <2>2. status' \in {"normal", "banned", "disbanded"}
    BY <1>18 DEF WriteSpace, Purge, At
  <2>3. member' \in [Person -> Member]
    BY <1>18 DEF WriteSpace, Purge, SpaceTypeOK, Member
  <2> QED BY <1>18, <2>1, <2>2, <2>3 DEF SpaceTypeOK, RequestsTyped, WriteSpace, Purge
<1>19. ASSUME NEW r \in Request, UndoFails(r) \/ Die(r)
       PROVE  SpaceTypeOK'
  <2>1. RequestsTyped'
    BY <1>19, DoneType, StepType DEF UndoFails, Die, At, JoinStep, Nameless
  <2>2. leaked' \in Nat /\ faults' \in 0..MaxFaults
    BY <1>19, SpacesAssumption DEF UndoFails, Die, Owed, SpaceTypeOK
  <2>3. unsettled' \subseteq Person
    BY <1>19 DEF UndoFails, Die, Who, At, Nameless, JoinStep, SpaceTypeOK
  <2> QED BY <1>19, <2>1, <2>2, <2>3 DEF SpaceTypeOK, RequestsTyped, UndoFails, Die
<1>20. ASSUME NEW users \in SUBSET Person, ManagerRemove(users)
       PROVE  SpaceTypeOK'
  BY <1>20 DEF ManagerRemove, SpaceTypeOK, Member
<1> QED
  BY <1>0, <1>1, <1>2, <1>3, <1>4, <1>5, <1>6, <1>7, <1>8, <1>9, <1>10, <1>11, <1>12, <1>13,
     <1>14, <1>15, <1>16, <1>17, <1>18, <1>19, <1>20, SpacesAssumption, Zenon DEF SpaceNext

\* Every reachable state is well typed: no count is negative or past its bound, whatever
\* undoes a join, and a request that writes a member knows whose row it is.
THEOREM TypeCorrect == SpaceSpec => []SpaceTypeOK
BY InitType, NextType, PTL DEF SpaceSpec

-----------------------------------------------------------------------------
(* Ownership. *)

\* Somebody who left or was removed was not the owner, so that the manager's upsert,
\* which keeps the role of the row it finds, makes no second one.
Deposed == purged \/ usurped \/ \A u \in Person : ~IsActive(u) => member[u].role # 2

OwnerInv == OneOwner /\ Deposed

\* Some user owns the space, and nobody else does.
LEMMA Sole ==
    OneOwner <=> \/ purged
                 \/ usurped
                 \/ \E u \in Person : Owns(u) /\ \A v \in Person : Owns(v) => v = u
BY DEF OneOwner

\* A write that changes neither who owns the space nor the role of a row it removes.
LEMMA OwnersKept ==
    ASSUME OwnerInv,
           usurped' = usurped, purged' = purged,
           \A v \in Person : Owns(v) <=> Owns(v)',
           \A v \in Person : ~IsActive(v)' /\ (member[v].role = 2)' => ~IsActive(v) /\ member[v].role = 2
    PROVE  OwnerInv'
<1>1. OneOwner'
  BY DEF OwnerInv, OneOwner
<1>2. Deposed'
  BY DEF OwnerInv, Deposed
<1> QED BY <1>1, <1>2 DEF OwnerInv

LEMMA InitOwner == SpaceInit => OwnerInv
BY SpacesAssumption DEF SpaceInit, OwnerInv, OneOwner, Deposed, Owns, IsActive

LEMMA NextOwner == SpaceTypeOK /\ OwnerInv /\ [SpaceNext]_spaceVars => OwnerInv'
<1> SUFFICES ASSUME SpaceTypeOK, OwnerInv, [SpaceNext]_spaceVars PROVE OwnerInv'
  OBVIOUS
<1> USE DEF table, told
<1>1. CASE UNCHANGED <<member, usurped, purged>>
  BY <1>1, OwnersKept DEF Owns, IsActive
<1>2. ASSUME NEW r \in Request, Write(r) \/ AddWrite(r)
      PROVE  OwnerInv'
  <2>1. Who(r) \in Person
    BY <1>2 DEF Write, AddWrite, At, JoinStep, Nameless, SpaceTypeOK, Who
  <2>2. CASE UNCHANGED <<member, usurped>>
    BY <1>2, <2>2, <1>1 DEF Write, AddWrite
  <2>3. CASE member' = Reactivated(Who(r)) /\ usurped' = (usurped \/ Owns(Who(r)))
    <3>1. purged' = purged
      BY <1>2 DEF Write, AddWrite
    <3>2. CASE usurped \/ Owns(Who(r))
      BY <2>3, <3>2 DEF OwnerInv, OneOwner, Deposed
    <3>3. CASE ~usurped /\ ~Owns(Who(r))
      <4>1. ~usurped'
        BY <2>3, <3>3
      <4>2. \A v \in Person : /\ v # Who(r) => member'[v] = member[v]
                              /\ v = Who(r) => member'[v] = [row |-> "active", role |-> 0]
        BY <2>1, <2>3 DEF Reactivated, SpaceTypeOK
      <4>3. \A v \in Person : Owns(v) <=> Owns(v)'
        BY <3>3, <4>2 DEF Owns, IsActive
      <4>4. \A v \in Person : ~IsActive(v)' /\ (member[v].role = 2)' => ~IsActive(v) /\ member[v].role = 2
        BY <4>2 DEF IsActive
      <4>5. OneOwner'
        BY <3>1, <3>3, <4>1, <4>3 DEF OwnerInv, OneOwner
      <4>6. Deposed'
        BY <3>1, <3>3, <4>4 DEF OwnerInv, Deposed
      <4> QED BY <4>5, <4>6 DEF OwnerInv
    <3> QED BY <3>2, <3>3
  <2> QED BY <1>2, <2>2, <2>3 DEF Write, AddWrite
<1>3. ASSUME NEW r \in Request, Upsert(r)
      PROVE  OwnerInv'
  <2>1. Who(r) \in Person
    BY <1>3 DEF Upsert, At, Nameless, SpaceTypeOK, Who
  <2>2. UNCHANGED <<usurped, purged>>
    BY <1>3 DEF Upsert
  <2>3. \A v \in Person : /\ v # Who(r) => member'[v] = member[v]
                          /\ v = Who(r) => member'[v].row = "active" /\ member'[v].role = member[v].role
    BY <1>3, <2>1 DEF Upsert, SpaceTypeOK, Member
  <2>4. CASE purged \/ usurped
    BY <2>2, <2>4 DEF OwnerInv, OneOwner, Deposed
  <2>5. CASE ~purged /\ ~usurped
    <3>1. \A v \in Person : Owns(v) <=> Owns(v)'
      BY <2>3, <2>5 DEF Owns, IsActive, OwnerInv, Deposed
    <3>2. \A v \in Person : ~IsActive(v)' /\ (member[v].role = 2)' => ~IsActive(v) /\ member[v].role = 2
      BY <2>3 DEF IsActive
    <3> QED BY <2>2, <3>1, <3>2, OwnersKept
  <2> QED BY <2>4, <2>5
<1>4. ASSUME NEW u \in Person, NEW role \in Role, role # 2, member' = Assigned(u, role),
             UNCHANGED <<usurped, purged>>
      PROVE  OwnerInv'
  <2>1. \A v \in Person : \/ member'[v] = member[v]
                          \/ /\ IsActive(v) /\ member[v].role # 2
                             /\ member'[v].row = "active" /\ member'[v].role # 2
    BY <1>4 DEF Assigned, SpaceTypeOK, Member, IsActive
  <2>2. \A v \in Person : Owns(v) <=> Owns(v)'
    BY <2>1 DEF Owns, IsActive
  <2>3. \A v \in Person : ~IsActive(v)' /\ (member[v].role = 2)' => ~IsActive(v) /\ member[v].role = 2
    BY <2>1 DEF IsActive
  <2> QED BY <1>4, <2>2, <2>3, OwnersKept
<1>5. ASSUME NEW u \in Person, member' = Transferred(u), UNCHANGED <<usurped, purged>>
      PROVE  OwnerInv'
  <2>1. CASE ~IsActive(u)
    BY <1>1, <1>5, <2>1 DEF Transferred
  <2>2. CASE IsActive(u)
    <3>1. \A v \in Person : /\ member'[v].row = member[v].row
                            /\ v = u => member'[v].role = 2
                            /\ v # u => member'[v].role = IF Owns(v) THEN 1 ELSE member[v].role
      BY <1>5, <2>2 DEF Transferred, SpaceTypeOK, Member
    <3>2. \A v \in Person : Owns(v)' <=> v = u
      BY <2>2, <3>1 DEF Owns, IsActive
    <3>3. OneOwner'
      BY <3>2 DEF OneOwner
    <3>4. Deposed'
      BY <1>5, <2>2, <3>1 DEF OwnerInv, Deposed, IsActive
    <3> QED BY <3>3, <3>4 DEF OwnerInv
  <2> QED BY <2>1, <2>2
<1>6. ASSUME NEW gone \in SUBSET Person, \A v \in gone : ~Owns(v), UNCHANGED <<usurped, purged>>,
             \A v \in Person : member'[v] = IF v \in gone THEN [member[v] EXCEPT !.row = "removed"] ELSE member[v],
             \A v \in gone : IsActive(v)
      PROVE  OwnerInv'
  <2>1. \A v \in Person : \/ member'[v] = member[v]
                          \/ /\ IsActive(v) /\ ~Owns(v)
                             /\ member'[v].row = "removed" /\ member'[v].role = member[v].role
    BY <1>6 DEF SpaceTypeOK, Member
  <2>2. \A v \in Person : Owns(v) <=> Owns(v)'
    BY <2>1 DEF Owns, IsActive
  <2>3. \A v \in Person : ~IsActive(v)' /\ (member[v].role = 2)' => ~IsActive(v) /\ member[v].role = 2
    BY <2>1 DEF Owns, IsActive
  <2> QED BY <1>6, <2>2, <2>3, OwnersKept
<1>7. ASSUME NEW r \in Request, Raise(r) \/ AssignWrite(r)
      PROVE  OwnerInv'
  <2>1. Who(r) \in Person /\ req[r].role \in Role
    BY <1>7 DEF Raise, AssignWrite, At, JoinStep, Nameless, SpaceTypeOK, Who, Pending
  <2>2. UNCHANGED <<usurped, purged>>
    BY <1>7 DEF Raise, AssignWrite
  <2>3. CASE Raise(r)
    BY <2>1, <2>2, <2>3, <1>4 DEF Raise, Role
  <2>4. CASE AssignWrite(r)
    BY <2>1, <2>2, <2>4, <1>4, <1>5 DEF AssignWrite
  <2> QED BY <1>7, <2>3, <2>4
<1>8. ASSUME NEW r \in Request, RemoveWrite(r)
      PROVE  OwnerInv'
  <2>1. Who(r) \in Person
    BY <1>8 DEF RemoveWrite, At, JoinStep, Nameless, SpaceTypeOK, Who
  <2>2. CASE Removable(Who(r), req[r].role)
    <3>1. ~Owns(Who(r)) /\ IsActive(Who(r))
      BY <2>1, <2>2 DEF Removable, Owns, SpaceTypeOK, Pending, Role, Member
    <3>2. \A v \in Person : member'[v] = IF v \in {Who(r)} THEN [member[v] EXCEPT !.row = "removed"] ELSE member[v]
      BY <1>8, <2>1, <2>2 DEF RemoveWrite, SpaceTypeOK
    <3>3. UNCHANGED <<usurped, purged>>
      BY <1>8 DEF RemoveWrite
    <3> QED BY <2>1, <3>1, <3>2, <3>3, <1>6
  <2>3. CASE ~Removable(Who(r), req[r].role)
    BY <1>1, <1>8, <2>3 DEF RemoveWrite
  <2> QED BY <2>2, <2>3
<1>9. ASSUME NEW users \in SUBSET Person, ManagerRemove(users)
      PROVE  OwnerInv'
  <2> DEFINE gone == {u \in users : IsActive(u)}
  <2>1. \A v \in Person : member'[v] = IF v \in gone THEN [member[v] EXCEPT !.row = "removed"] ELSE member[v]
    BY <1>9 DEF ManagerRemove, IsActive
  <2>2. gone \in SUBSET Person /\ (\A v \in gone : ~Owns(v) /\ IsActive(v)) /\ UNCHANGED <<usurped, purged>>
    BY <1>9 DEF ManagerRemove
  <2> HIDE DEF gone
  <2> QED BY <2>1, <2>2, <1>6
<1>10. ASSUME NEW r \in Request, Purge(r)
       PROVE  OwnerInv'
  BY <1>10 DEF Purge, OwnerInv, OneOwner, Deposed
<1>11. ASSUME NEW r \in Request, NEW u \in Person,
              Join(r, u) \/ Ask(r, u) \/ Approve(r, u) \/ Reject(r, u) \/ AcceptMail(r, u) \/ ManagerAdd(r, u)
       PROVE  OwnerInv'
  BY <1>1, <1>11 DEF Join, Ask, Approve, Reject, AcceptMail, ManagerAdd
<1>12. ASSUME NEW r \in Request,
              \/ AskWrite(r) \/ Decide(r) \/ Deny(r) \/ Charge(r) \/ Consume(r) \/ Look(r) \/ JoinFails(r)
              \/ Refund(r) \/ Reopen(r) \/ Release(r) \/ Promote(r) \/ WriteSpace(r) \/ UndoFails(r) \/ Die(r)
       PROVE  OwnerInv'
  BY <1>1, <1>12 DEF AskWrite, Decide, Deny, Charge, Consume, Look, JoinFails, Refund, Reopen, Release,
                     Promote, WriteSpace, UndoFails, Die
<1>13. ASSUME NEW r \in Request, NEW a \in Person, NEW u \in Person, Add(r, a, u) \/ Remove(r, a, u)
       PROVE  OwnerInv'
  BY <1>1, <1>13 DEF Add, Remove
<1>14. ASSUME NEW r \in Request, NEW u \in Person, NEW role \in Role, Assign(r, u, role)
       PROVE  OwnerInv'
  BY <1>1, <1>14 DEF Assign
<1>15. ASSUME NEW r \in Request, NEW at \in {"disband", "purge", "ban", "lift"}, ReadSpace(r, at)
       PROVE  OwnerInv'
  BY <1>1, <1>15 DEF ReadSpace
<1>16. CASE RevokeMail \/ UNCHANGED spaceVars
  BY <1>1, <1>16 DEF RevokeMail, spaceVars
<1> QED
  BY <1>2, <1>3, <1>7, <1>8, <1>9, <1>10, <1>11, <1>12, <1>13, <1>14, <1>15, <1>16, SpacesAssumption,
     Zenon DEF SpaceNext

\* A space has one owner, whoever joins, is removed, promoted or made owner meanwhile: the
\* exemptions are the space's forced disbanding and a reactivation over a new owner's row.
THEOREM OneOwnerAlways == SpaceSpec => []OneOwner
<1>1. SpaceTypeOK /\ OwnerInv /\ [SpaceNext]_spaceVars => SpaceTypeOK' /\ OwnerInv'
  BY NextType, NextOwner
<1>2. OwnerInv => OneOwner
  BY DEF OwnerInv
<1> QED BY InitType, InitOwner, <1>1, <1>2, PTL DEF SpaceSpec

-----------------------------------------------------------------------------
(* Which way a request came. *)

\* Only a join by code or by application is charged, only an application is decided and
\* only an invitation consumed or given back; a charge is held until the join ends or is given back.
Paths ==
    \A r \in Request :
        /\ req[r].paid => req[r].of \in {"code", "apply"} /\ req[r].at \in {"look", "write", "refund", "reopen"}
        /\ req[r].at = "charge" => req[r].of \in {"code", "apply"}
        /\ req[r].at = "decide" => req[r].of = "apply"
        /\ req[r].at \in {"consume", "release"} => req[r].of = "mail"
        /\ req[r].at \in {"look", "write"} => req[r].of # "none"

LEMMA InitPaths == SpaceInit => Paths
BY DEF SpaceInit, Paths, Idle

\* A request that is replaced by one that keeps to its path.
LEMMA PathKept ==
    ASSUME SpaceTypeOK, Paths, NEW r \in Request, NEW q, req' = [req EXCEPT ![r] = q],
           q.paid => q.of \in {"code", "apply"} /\ q.at \in {"look", "write", "refund", "reopen"},
           q.at = "charge" => q.of \in {"code", "apply"},
           q.at = "decide" => q.of = "apply",
           q.at \in {"consume", "release"} => q.of = "mail",
           q.at \in {"look", "write"} => q.of # "none"
    PROVE  Paths'
BY DEF SpaceTypeOK, Paths

LEMMA PathEnds == ASSUME SpaceTypeOK, Paths, NEW r \in Request, Done(r) PROVE Paths'
BY PathKept DEF Done, Idle

LEMMA PathSteps ==
    ASSUME SpaceTypeOK, Paths, NEW r \in Request,
           NEW at \in {"charge", "look", "write", "refund", "reopen", "release", "promote", "raise"},
           Step(r, at),
           req[r].paid => at \in {"look", "write", "refund", "reopen"},
           at = "charge" => req[r].of \in {"code", "apply"},
           at = "release" => req[r].of = "mail",
           at \in {"look", "write"} => req[r].of # "none"
    PROVE  Paths'
<1>1. req[r] \in Pending
  BY DEF SpaceTypeOK
<1>2. [req[r] EXCEPT !.at = at].at = at /\ [req[r] EXCEPT !.at = at].of = req[r].of
  BY <1>1 DEF Pending
<1>3. [req[r] EXCEPT !.at = at].paid <=> req[r].paid
  BY <1>1 DEF Pending
<1> QED BY <1>2, <1>3, PathKept DEF Step, Paths

LEMMA NextPaths == SpaceTypeOK /\ Paths /\ [SpaceNext]_spaceVars => Paths'
<1> SUFFICES ASSUME SpaceTypeOK, Paths, [SpaceNext]_spaceVars PROVE Paths'
  OBVIOUS
<1>0. CASE UNCHANGED req
  BY <1>0 DEF Paths
<1>1. ASSUME NEW r \in Request, NEW u \in Person,
             Join(r, u) \/ Ask(r, u) \/ Approve(r, u) \/ Reject(r, u) \/ AcceptMail(r, u) \/ ManagerAdd(r, u)
      PROVE  Paths'
  BY <1>1, PathKept DEF Join, Ask, Approve, Reject, AcceptMail, ManagerAdd, Begin, Call
<1>2. ASSUME NEW r \in Request,
             \/ AskWrite(r) \/ Deny(r) \/ Refund(r) \/ Release(r) \/ Raise(r) \/ AddWrite(r) \/ Upsert(r)
             \/ RemoveWrite(r) \/ AssignWrite(r) \/ WriteSpace(r) \/ Purge(r) \/ Die(r)
      PROVE  Paths'
  BY <1>2, PathEnds DEF AskWrite, Deny, Refund, Release, Raise, AddWrite, Upsert, RemoveWrite, AssignWrite,
                        WriteSpace, Purge, Die
<1>3. ASSUME NEW r \in Request, Decide(r) \/ Consume(r) \/ Promote(r)
      PROVE  Paths'
  BY <1>3, PathEnds, PathSteps DEF Decide, Consume, Promote, At, Paths
<1>4. ASSUME NEW r \in Request, Charge(r)
      PROVE  Paths'
  <2>1. CASE req' = [req EXCEPT ![r].at = "look", ![r].paid = TRUE]
    <3> DEFINE q == [req[r] EXCEPT !.at = "look", !.paid = TRUE]
    <3>1. req' = [req EXCEPT ![r] = q]
      BY <2>1
    <3>2. q.at = "look" /\ q.of = req[r].of
      BY DEF SpaceTypeOK, Pending
    <3>3. req[r].of \in {"code", "apply"}
      BY <1>4 DEF Charge, At, Paths
    <3> HIDE DEF q
    <3> QED BY <3>1, <3>2, <3>3, PathKept
  <2>2. CASE IF req[r].of = "apply" THEN Step(r, "reopen") ELSE Done(r)
    BY <1>4, <2>2, PathEnds, PathSteps DEF Charge, At, Paths
  <2> QED BY <1>4, <2>1, <2>2 DEF Charge
<1>5. ASSUME NEW r \in Request, Look(r)
      PROVE  Paths'
  <2>1. CASE IsActive(Who(r))
    BY <1>5, <2>1, PathSteps DEF Look, At, Paths
  <2>2. CASE ~IsActive(Who(r))
    <3> DEFINE q == [req[r] EXCEPT !.at = "write", !.seen = member[Who(r)].row]
    <3>1. req' = [req EXCEPT ![r] = q]
      BY <1>5, <2>2 DEF Look
    <3>2. q.at = "write" /\ q.of = req[r].of /\ (q.paid <=> req[r].paid)
      BY DEF SpaceTypeOK, Pending
    <3> HIDE DEF q
    <3>3. q.of # "none"
      BY <1>5, <3>2 DEF Look, At, Paths
    <3> QED BY <3>1, <3>2, <3>3, PathKept DEF Paths
  <2> QED BY <2>1, <2>2
<1>6. ASSUME NEW r \in Request, Write(r) \/ JoinFails(r)
      PROVE  Paths'
  <2>1. req[r].of \in {"code", "apply", "mail"}
    BY <1>6 DEF Write, JoinFails, At, Paths, SpaceTypeOK, Pending
  <2> QED BY <1>6, <2>1, PathEnds, PathSteps DEF Write, Wrote, JoinFails, TakeBack, Paths
<1>7. ASSUME NEW r \in Request, Reopen(r) \/ UndoFails(r)
      PROVE  Paths'
  BY <1>7, PathEnds, PathSteps DEF Reopen, UndoFails, At
<1>8. ASSUME NEW r \in Request, NEW a \in Person, NEW u \in Person, Add(r, a, u) \/ Remove(r, a, u)
      PROVE  Paths'
  BY <1>8, PathKept DEF Add, Remove, Begin, Call
<1>9. ASSUME NEW r \in Request, NEW u \in Person, NEW role \in Role, Assign(r, u, role)
      PROVE  Paths'
  BY <1>9, PathKept DEF Assign, Begin, Call
<1>10. ASSUME NEW r \in Request, NEW at \in {"disband", "purge", "ban", "lift"}, ReadSpace(r, at)
       PROVE  Paths'
  BY <1>10, PathKept DEF ReadSpace, Begin, Call
<1>11. ASSUME NEW users \in SUBSET Person, ManagerRemove(users)
       PROVE  Paths'
  BY <1>0, <1>11 DEF ManagerRemove
<1>12. CASE RevokeMail \/ UNCHANGED spaceVars
  BY <1>0, <1>12 DEF RevokeMail, spaceVars
<1> QED
  BY <1>1, <1>2, <1>3, <1>4, <1>5, <1>6, <1>7, <1>8, <1>9, <1>10, <1>11, <1>12, SpacesAssumption,
     Zenon DEF SpaceNext

-----------------------------------------------------------------------------
(* The count of the code. *)

LEMMA PayingIsFinite == IsFiniteSet(Paying) /\ Cardinality(Paying) \in Nat
BY SpacesAssumption, FS_Subset, FS_CardinalityType DEF Paying

\* A step that charges or refunds no one.
LEMMA CountKept ==
    ASSUME SpaceTypeOK, UsesAreCounted, UNCHANGED <<used, joined, leaked>>,
           \A s \in Request : req'[s].paid <=> req[s].paid
    PROVE  UsesAreCounted'
<1>1. Paying' = Paying
  BY DEF Paying
<1> QED BY <1>1 DEF UsesAreCounted

\* A request lets go of its charge: the count falls, or the join or the leak is noted.
LEMMA ChargeGoes ==
    ASSUME SpaceTypeOK, UsesAreCounted, NEW r \in Request, req[r].paid, ~req'[r].paid,
           \A s \in Request \ {r} : req'[s].paid <=> req[s].paid,
           \/ used > 0 => used' = used - 1 /\ UNCHANGED <<joined, leaked>>
           \/ joined' = joined + 1 /\ UNCHANGED <<used, leaked>>
           \/ leaked' = leaked + 1 /\ UNCHANGED <<used, joined>>
    PROVE  UsesAreCounted'
<1>1. Paying' = Paying \ {r} /\ r \in Paying
  BY DEF Paying
<1>2. Cardinality(Paying') = Cardinality(Paying) - 1 /\ Cardinality(Paying) \in Nat /\ Cardinality(Paying') \in Nat
  BY <1>1, PayingIsFinite, FS_RemoveElement, FS_CardinalityType
<1> QED BY <1>2, SpacesAssumption DEF UsesAreCounted, SpaceTypeOK

\* The two ways in which a request that ends is counted.
LEMMA UnpaidEnds ==
    ASSUME SpaceTypeOK, UsesAreCounted, NEW r \in Request, Done(r), ~req[r].paid,
           UNCHANGED <<used, joined, leaked>>
    PROVE  UsesAreCounted'
<1>1. \A s \in Request : req'[s].paid <=> req[s].paid
  BY DEF Done, Idle, SpaceTypeOK
<1> QED BY <1>1, CountKept

LEMMA PaidEnds ==
    ASSUME SpaceTypeOK, UsesAreCounted, NEW r \in Request, Done(r), req[r].paid,
           \/ used > 0 => used' = used - 1 /\ UNCHANGED <<joined, leaked>>
           \/ joined' = joined + 1 /\ UNCHANGED <<used, leaked>>
           \/ leaked' = leaked + 1 /\ UNCHANGED <<used, joined>>
    PROVE  UsesAreCounted'
<1>1. ~req'[r].paid /\ \A s \in Request \ {r} : req'[s].paid <=> req[s].paid
  BY DEF Done, Idle, SpaceTypeOK
<1> QED BY <1>1, ChargeGoes

LEMMA InitCount == SpaceInit => UsesAreCounted
<1> SUFFICES ASSUME SpaceInit PROVE UsesAreCounted
  OBVIOUS
<1>1. Paying = {}
  BY DEF SpaceInit, Paying, Idle
<1> QED BY <1>1, FS_EmptySet, SpacesAssumption DEF SpaceInit, UsesAreCounted

LEMMA NextCount == SpaceTypeOK /\ Paths /\ UsesAreCounted /\ [SpaceNext]_spaceVars => UsesAreCounted'
<1> SUFFICES ASSUME SpaceTypeOK, Paths, UsesAreCounted, [SpaceNext]_spaceVars PROVE UsesAreCounted'
  OBVIOUS
<1> USE DEF table, told
<1>0. CASE UNCHANGED <<req, used, joined, leaked>>
  BY <1>0, CountKept
<1>1. ASSUME NEW r \in Request, NEW q, ~q.paid, ~req[r].paid, req' = [req EXCEPT ![r] = q],
             UNCHANGED <<used, joined, leaked>>
      PROVE  UsesAreCounted'
  BY <1>1, CountKept DEF SpaceTypeOK
<1>2. ASSUME NEW r \in Request, NEW at, Step(r, at), UNCHANGED <<used, joined, leaked>>
      PROVE  UsesAreCounted'
  BY <1>2, CountKept DEF Step, SpaceTypeOK, Pending
<1>3. ASSUME NEW r \in Request, NEW u \in Person,
             Join(r, u) \/ Ask(r, u) \/ Approve(r, u) \/ Reject(r, u) \/ AcceptMail(r, u) \/ ManagerAdd(r, u)
      PROVE  UsesAreCounted'
  BY <1>1, <1>3 DEF Join, Ask, Approve, Reject, AcceptMail, ManagerAdd, Begin, Call, At, Paths
<1>4. ASSUME NEW r \in Request,
             \/ AskWrite(r) \/ Deny(r) \/ Release(r) \/ Raise(r) \/ AddWrite(r) \/ Upsert(r)
             \/ RemoveWrite(r) \/ AssignWrite(r) \/ WriteSpace(r) \/ Purge(r)
      PROVE  UsesAreCounted'
  <2>1. ~req[r].paid
    BY <1>4 DEF AskWrite, Deny, Release, Raise, AddWrite, Upsert, RemoveWrite, AssignWrite, WriteSpace,
                Purge, At, Paths
  <2> QED BY <1>1, <1>4, <2>1 DEF AskWrite, Deny, Release, Raise, AddWrite, Upsert, RemoveWrite, AssignWrite,
                                  WriteSpace, Purge, Done, Idle
<1>5. ASSUME NEW r \in Request, Decide(r) \/ Consume(r) \/ Promote(r)
      PROVE  UsesAreCounted'
  BY <1>1, <1>2, <1>5 DEF Decide, Consume, Promote, Done, Idle, At, Paths
<1>6. ASSUME NEW r \in Request, Charge(r)
      PROVE  UsesAreCounted'
  <2>1. ~req[r].paid
    BY <1>6 DEF Charge, At, Paths
  <2>2. CASE used < MaxUses /\ used' = used + 1 /\ req' = [req EXCEPT ![r].at = "look", ![r].paid = TRUE]
    <3>1. Paying' = Paying \cup {r} /\ r \notin Paying
      BY <2>1, <2>2 DEF Paying, SpaceTypeOK, Pending
    <3>2. Cardinality(Paying') = Cardinality(Paying) + 1 /\ Cardinality(Paying) \in Nat
      BY <3>1, PayingIsFinite, FS_AddElement
    <3>3. UNCHANGED <<joined, leaked>>
      BY <1>6 DEF Charge
    <3> QED BY <2>2, <3>2, <3>3, SpacesAssumption DEF UsesAreCounted, SpaceTypeOK
  <2>3. CASE (UNCHANGED used) /\ (IF req[r].of = "apply" THEN Step(r, "reopen") ELSE Done(r))
    BY <1>1, <1>2, <1>6, <2>1, <2>3 DEF Charge, Done, Idle
  <2> QED BY <1>6, <2>2, <2>3 DEF Charge
<1>7. ASSUME NEW r \in Request, Look(r)
      PROVE  UsesAreCounted'
  <2>1. UNCHANGED <<used, joined, leaked>>
    BY <1>7 DEF Look, Admitted
  <2>2. CASE IsActive(Who(r))
    BY <1>2, <1>7, <2>1, <2>2 DEF Look
  <2>3. CASE ~IsActive(Who(r))
    BY <1>7, <2>1, <2>3, CountKept DEF Look, SpaceTypeOK, Pending
  <2> QED BY <2>2, <2>3
<1>9. ASSUME NEW r \in Request, Write(r)
      PROVE  UsesAreCounted'
  <2>1. CASE Admitted(r, TRUE) /\ Wrote(r)
    <3>1. CASE req[r].paid
      <4>1. Done(r)
        BY <2>1, <3>1 DEF Wrote, Paths
      <4> QED BY <1>9, <2>1, <3>1, <4>1, PaidEnds DEF Admitted, Write
    <3>2. CASE ~req[r].paid
      BY <1>2, <1>9, <2>1, <3>2, UnpaidEnds DEF Admitted, Wrote, Write
    <3> QED BY <3>1, <3>2
  <2>2. CASE TakeBack(r) /\ UNCHANGED joined
    BY <1>2, <1>9, <2>2 DEF TakeBack, Write
  <2> QED BY <1>9, <2>1, <2>2 DEF Write
<1>10. ASSUME NEW r \in Request, JoinFails(r)
       PROVE  UsesAreCounted'
  BY <1>2, <1>10 DEF JoinFails, TakeBack
<1>11. ASSUME NEW r \in Request, Refund(r)
       PROVE  UsesAreCounted'
  <2>1. CASE req[r].paid
    BY <1>11, <2>1, PaidEnds DEF Refund
  <2>2. CASE ~req[r].paid
    BY <1>11, <2>2, UnpaidEnds DEF Refund
  <2> QED BY <2>1, <2>2
<1>12. ASSUME NEW r \in Request, Reopen(r)
       PROVE  UsesAreCounted'
  BY <1>2, <1>12, UnpaidEnds DEF Reopen
<1>13. ASSUME NEW r \in Request, UndoFails(r) \/ Die(r)
       PROVE  UsesAreCounted'
  <2>1. CASE Done(r) /\ leaked' = leaked + Owed(r)
    <3>1. CASE req[r].paid
      BY <1>13, <2>1, <3>1, PaidEnds DEF UndoFails, Die, Owed
    <3>2. CASE ~req[r].paid
      <4>1. UNCHANGED <<used, joined, leaked>>
        BY <1>13, <2>1, <3>2 DEF UndoFails, Die, Owed, SpaceTypeOK
      <4> QED BY <2>1, <3>2, <4>1, UnpaidEnds
    <3> QED BY <3>1, <3>2
  <2>2. CASE Step(r, "refund") /\ UNCHANGED leaked
    BY <1>2, <1>13, <2>2 DEF UndoFails, Die
  <2> QED BY <1>13, <2>1, <2>2 DEF UndoFails, Die
<1>14. ASSUME NEW r \in Request, NEW a \in Person, NEW u \in Person, Add(r, a, u) \/ Remove(r, a, u)
       PROVE  UsesAreCounted'
  BY <1>1, <1>14 DEF Add, Remove, Begin, Call, At, Paths
<1>15. ASSUME NEW r \in Request, NEW u \in Person, NEW role \in Role, Assign(r, u, role)
       PROVE  UsesAreCounted'
  <2>1. ~[Call("assign", "none", u) EXCEPT !.role = role].paid /\ ~req[r].paid
    BY <1>15 DEF Assign, Begin, Call, At, Paths
  <2> QED BY <1>1, <1>15, <2>1 DEF Assign, Begin
<1>16. ASSUME NEW r \in Request, NEW at \in {"disband", "purge", "ban", "lift"}, ReadSpace(r, at)
       PROVE  UsesAreCounted'
  <2>1. ~Call(at, "none", Nobody).paid /\ ~req[r].paid
    BY <1>16 DEF ReadSpace, Begin, Call, At, Paths
  <2> QED BY <1>1, <1>16, <2>1 DEF ReadSpace, Begin
<1>17. ASSUME NEW users \in SUBSET Person, ManagerRemove(users)
       PROVE  UsesAreCounted'
  BY <1>0, <1>17 DEF ManagerRemove
<1>18. CASE RevokeMail \/ UNCHANGED spaceVars
  BY <1>0, <1>18 DEF RevokeMail, spaceVars
<1> QED
  BY <1>3, <1>4, <1>5, <1>6, <1>7, <1>9, <1>10, <1>11, <1>12, <1>13, <1>14, <1>15, <1>16, <1>17, <1>18,
     SpacesAssumption, Zenon DEF SpaceNext

\* Every use of the code belongs to a join, to a request under way or to one that never came
\* to its end, for any number of requests.
THEOREM UsesAddUp == SpaceSpec => []UsesAreCounted
<1>1. SpaceTypeOK /\ Paths /\ UsesAreCounted /\ [SpaceNext]_spaceVars => SpaceTypeOK' /\ Paths' /\ UsesAreCounted'
  BY NextType, NextPaths, NextCount
<1> QED BY InitType, InitPaths, InitCount, <1>1, PTL DEF SpaceSpec

-----------------------------------------------------------------------------
(* Applications. *)

\* A request that carries out or takes back the approval of u's application.
Carries(r, u) ==
    Who(r) = u /\ req[r].of = "apply" /\ req[r].at \in {"charge", "look", "write", "reopen"}

\* A step of one request that lets nobody's approval, admission or excuse go: if the request
\* carried out an approval and does no longer, its user is in, excused or not approved.
LEMMA ApprovalKept ==
    ASSUME SpaceTypeOK, ApprovedIsAdmitted, NEW r \in Request,
           \A s \in Request \ {r} : req'[s] = req[s],
           \A u \in Person : apply'[u] = "approved" =>
               /\ apply[u] = "approved" \/ Carries(r, u)'
               /\ u \in admitted \cup unsettled => u \in admitted' \cup unsettled' \/ Carries(r, u)'
               /\ Carries(r, u) => u \in admitted' \cup unsettled' \/ Carries(r, u)'
    PROVE  ApprovedIsAdmitted'
<1> SUFFICES ASSUME NEW u \in Person, apply'[u] = "approved"
             PROVE  u \in admitted' \cup unsettled' \/ \E s \in Request : Carries(s, u)'
  BY DEF ApprovedIsAdmitted, Carries
<1>1. CASE Carries(r, u)'
  BY <1>1
<1>2. CASE ~Carries(r, u)'
  <2>1. apply[u] = "approved"
    BY <1>2
  <2>2. PICK s \in Request : u \in admitted \cup unsettled \/ Carries(s, u)
    BY <2>1 DEF ApprovedIsAdmitted, Carries
  <2>3. CASE s # r /\ Carries(s, u)
    BY <2>3 DEF Carries, Who
  <2> QED BY <1>2, <2>2, <2>3
<1> QED BY <1>1, <1>2

LEMMA InitApproved == SpaceInit => ApprovedIsAdmitted
BY DEF SpaceInit, ApprovedIsAdmitted

LEMMA NextApproved == SpaceTypeOK /\ Paths /\ ApprovedIsAdmitted /\ [SpaceNext]_spaceVars => ApprovedIsAdmitted'
<1> SUFFICES ASSUME SpaceTypeOK, Paths, ApprovedIsAdmitted, [SpaceNext]_spaceVars PROVE ApprovedIsAdmitted'
  OBVIOUS
<1> USE DEF table, told
<1>0. CASE UNCHANGED <<req, apply, admitted, unsettled>>
  BY <1>0 DEF ApprovedIsAdmitted, Who
\* Requests that begin, and requests about something else.
<1>1. ASSUME NEW r \in Request, NEW q, req' = [req EXCEPT ![r] = q],
             req[r].of # "apply" \/ req[r].at \notin {"charge", "look", "write", "reopen"},
             \A u \in Person : apply'[u] = "approved" => apply[u] = "approved",
             admitted \subseteq admitted', unsettled' = unsettled
      PROVE  ApprovedIsAdmitted'
  <2>1. \A s \in Request \ {r} : req'[s] = req[s]
    BY <1>1 DEF SpaceTypeOK
  <2> QED BY <1>1, <2>1, ApprovalKept DEF Carries
<1>2. ASSUME NEW r \in Request, NEW u \in Person,
             Join(r, u) \/ Ask(r, u) \/ Approve(r, u) \/ Reject(r, u) \/ AcceptMail(r, u) \/ ManagerAdd(r, u)
      PROVE  ApprovedIsAdmitted'
  <2>1. PICK q : Begin(r, q) /\ UNCHANGED <<apply, admitted, unsettled>>
    BY <1>2 DEF Join, Ask, Approve, Reject, AcceptMail, ManagerAdd
  <2> QED BY <1>1, <2>1 DEF Begin, At
<1>3. ASSUME NEW r \in Request, NEW a \in Person, NEW u \in Person, Add(r, a, u) \/ Remove(r, a, u)
      PROVE  ApprovedIsAdmitted'
  <2>1. PICK q : Begin(r, q) /\ UNCHANGED <<apply, admitted, unsettled>>
    BY <1>3 DEF Add, Remove
  <2> QED BY <1>1, <2>1 DEF Begin, At
<1>4. ASSUME NEW r \in Request, NEW u \in Person, NEW role \in Role, Assign(r, u, role)
      PROVE  ApprovedIsAdmitted'
  <2>1. PICK q : Begin(r, q) /\ UNCHANGED <<apply, admitted, unsettled>>
    BY <1>4 DEF Assign
  <2> QED BY <1>1, <2>1 DEF Begin, At
<1>5. ASSUME NEW r \in Request, NEW at \in {"disband", "purge", "ban", "lift"}, ReadSpace(r, at)
      PROVE  ApprovedIsAdmitted'
  <2>1. PICK q : Begin(r, q) /\ UNCHANGED <<apply, admitted, unsettled>>
    BY <1>5 DEF ReadSpace
  <2> QED BY <1>1, <2>1 DEF Begin, At
<1>6. ASSUME NEW r \in Request,
             \/ AskWrite(r) \/ Deny(r) \/ Refund(r) \/ Release(r) \/ Raise(r) \/ AddWrite(r) \/ Upsert(r)
             \/ RemoveWrite(r) \/ AssignWrite(r) \/ WriteSpace(r) \/ Purge(r)
      PROVE  ApprovedIsAdmitted'
  <2>1. req[r].at \notin {"charge", "look", "write", "reopen"}
    BY <1>6 DEF AskWrite, Deny, Refund, Release, Raise, AddWrite, Upsert, RemoveWrite, AssignWrite,
                WriteSpace, Purge, At
  <2>2. Done(r) /\ UNCHANGED <<admitted, unsettled>>
    BY <1>6 DEF AskWrite, Deny, Refund, Release, Raise, AddWrite, Upsert, RemoveWrite, AssignWrite,
                WriteSpace, Purge
  <2>3. \A u \in Person : apply'[u] = "approved" => apply[u] = "approved"
    BY <1>6 DEF AskWrite, Deny, Refund, Release, Raise, AddWrite, Upsert, RemoveWrite, AssignWrite,
                WriteSpace, Purge, SpaceTypeOK
  <2> QED BY <1>1, <2>1, <2>2, <2>3 DEF Done
<1>7. ASSUME NEW r \in Request, Consume(r) \/ Promote(r)
      PROVE  ApprovedIsAdmitted'
  <2>1. req[r].at \notin {"charge", "look", "write", "reopen"} /\ UNCHANGED <<apply, admitted, unsettled>>
    BY <1>7 DEF Consume, Promote, At
  <2>2. PICK q : req' = [req EXCEPT ![r] = q]
    BY <1>7 DEF Consume, Promote, Done, Step
  <2> QED BY <1>1, <2>1, <2>2
\* The steps of an application.
<1>8. ASSUME NEW r \in Request, NEW at \in {"charge", "look", "write", "reopen"}, Step(r, at),
             UNCHANGED <<apply, admitted, unsettled>>
      PROVE  ApprovedIsAdmitted'
  <2>1. \A s \in Request \ {r} : req'[s] = req[s]
    BY <1>8 DEF Step, SpaceTypeOK
  <2>2. req'[r].who = req[r].who /\ req'[r].of = req[r].of /\ req'[r].at = at
    BY <1>8 DEF Step, SpaceTypeOK, Pending
  <2> QED BY <1>8, <2>1, <2>2, ApprovalKept DEF Carries, Who
<1>9. ASSUME NEW r \in Request, Decide(r)
      PROVE  ApprovedIsAdmitted'
  <2>1. CASE apply[Who(r)] = "pending"
    <3>1. \A s \in Request \ {r} : req'[s] = req[s]
      BY <1>9, <2>1 DEF Decide, Step, SpaceTypeOK
    <3>2. Carries(r, Who(r))' /\ Who(r)' = Who(r)
      BY <1>9, <2>1 DEF Decide, Step, SpaceTypeOK, Pending, Carries, Who, At, Paths
    <3>3. ~Carries(r, Who(r)) /\ \A u \in Person : u # Who(r) => ~Carries(r, u)
      BY <1>9 DEF Decide, At, Carries
    <3>4. \A u \in Person \ {Who(r)} : /\ apply'[u] = apply[u]
                                       /\ u \in admitted \cup unsettled => u \in admitted' \cup unsettled'
      BY <1>9, <2>1 DEF Decide, SpaceTypeOK
    <3>5. ASSUME NEW u \in Person, apply'[u] = "approved"
          PROVE  /\ apply[u] = "approved" \/ Carries(r, u)'
                 /\ u \in admitted \cup unsettled => u \in admitted' \cup unsettled' \/ Carries(r, u)'
                 /\ Carries(r, u) => u \in admitted' \cup unsettled' \/ Carries(r, u)'
      <4>1. CASE u = Who(r)
        BY <3>2, <4>1 DEF Carries, Who
      <4>2. CASE u # Who(r)
        BY <3>3, <3>4, <3>5, <4>2
      <4> QED BY <4>1, <4>2
    <3> QED BY <3>1, <3>5, ApprovalKept
  <2>2. CASE apply[Who(r)] # "pending"
    BY <1>1, <1>9, <2>2 DEF Decide, Done, At
  <2> QED BY <2>1, <2>2
<1>10. ASSUME NEW r \in Request, Charge(r)
       PROVE  ApprovedIsAdmitted'
  <2>1. UNCHANGED <<apply, admitted, unsettled>>
    BY <1>10 DEF Charge
  <2>2. CASE req' = [req EXCEPT ![r].at = "look", ![r].paid = TRUE]
    <3>1. \A s \in Request \ {r} : req'[s] = req[s]
      BY <2>2 DEF SpaceTypeOK
    <3>2. req'[r].who = req[r].who /\ req'[r].of = req[r].of /\ req'[r].at = "look"
      BY <2>2 DEF SpaceTypeOK, Pending
    <3> QED BY <2>1, <3>1, <3>2, ApprovalKept DEF Carries, Who
  <2>3. CASE IF req[r].of = "apply" THEN Step(r, "reopen") ELSE Done(r)
    BY <1>1, <1>8, <2>1, <2>3 DEF Done
  <2> QED BY <1>10, <2>2, <2>3 DEF Charge
\* Whoever is found or made a member is in.
<1>11. ASSUME NEW r \in Request, NEW q, req' = [req EXCEPT ![r] = q],
              admitted' = admitted \cup {Who(r)}, UNCHANGED <<apply, unsettled>>
       PROVE  ApprovedIsAdmitted'
  <2>1. \A s \in Request \ {r} : req'[s] = req[s]
    BY <1>11 DEF SpaceTypeOK
  <2> QED BY <1>11, <2>1, ApprovalKept DEF Carries
<1>12. ASSUME NEW r \in Request, TakeBack(r), UNCHANGED <<apply, admitted, unsettled>>
       PROVE  ApprovedIsAdmitted'
  <2>1. CASE req[r].of = "apply"
    BY <1>8, <1>12, <2>1 DEF TakeBack
  <2>2. CASE req[r].of # "apply"
    BY <1>1, <1>12, <2>2 DEF TakeBack, Step
  <2> QED BY <2>1, <2>2
<1>13. ASSUME NEW r \in Request, Look(r)
       PROVE  ApprovedIsAdmitted'
  <2>1. CASE IsActive(Who(r))
    BY <1>11, <1>13, <2>1 DEF Look, Admitted, Step
  <2>2. CASE ~IsActive(Who(r))
    <3>1. UNCHANGED <<apply, admitted, unsettled>>
      BY <1>13, <2>2 DEF Look
    <3>2. \A s \in Request \ {r} : req'[s] = req[s]
      BY <1>13, <2>2 DEF Look, SpaceTypeOK
    <3>3. req'[r].who = req[r].who /\ req'[r].of = req[r].of /\ req'[r].at = "write"
      BY <1>13, <2>2 DEF Look, SpaceTypeOK, Pending
    <3> QED BY <3>1, <3>2, <3>3, ApprovalKept DEF Carries, Who
  <2> QED BY <2>1, <2>2
<1>14. ASSUME NEW r \in Request, Write(r) \/ JoinFails(r)
       PROVE  ApprovedIsAdmitted'
  BY <1>11, <1>12, <1>14 DEF Write, JoinFails, Admitted, Wrote, Done, Step
<1>15. ASSUME NEW r \in Request, Reopen(r)
       PROVE  ApprovedIsAdmitted'
  <2>1. PICK q : req' = [req EXCEPT ![r] = q]
    BY <1>15 DEF Reopen, Done, Step
  <2>2. \A s \in Request \ {r} : req'[s] = req[s]
    BY <2>1 DEF SpaceTypeOK
  <2>3. UNCHANGED <<admitted, unsettled>>
    BY <1>15 DEF Reopen
  <2>4. \A u \in Person : apply'[u] = "approved" => apply[u] = "approved" /\ u # Who(r)
    BY <1>15 DEF Reopen, Reopened, SpaceTypeOK
  <2> QED BY <2>2, <2>3, <2>4, ApprovalKept DEF Carries
\* An approval that is not taken back for a fault is excused.
<1>16. ASSUME NEW r \in Request, UndoFails(r) \/ Die(r)
       PROVE  ApprovedIsAdmitted'
  <2>1. PICK q : req' = [req EXCEPT ![r] = q]
    BY <1>16 DEF UndoFails, Die, Done, Step
  <2>2. \A s \in Request \ {r} : req'[s] = req[s]
    BY <2>1 DEF SpaceTypeOK
  <2>3. UNCHANGED <<apply, admitted>> /\ unsettled \subseteq unsettled'
    BY <1>16 DEF UndoFails, Die
  <2>4. \A u \in Person : Carries(r, u) => u \in unsettled'
    BY <1>16 DEF UndoFails, Die, Carries, At, JoinStep
  <2> QED BY <2>2, <2>3, <2>4, ApprovalKept
<1>17. ASSUME NEW users \in SUBSET Person, ManagerRemove(users)
       PROVE  ApprovedIsAdmitted'
  BY <1>0, <1>17 DEF ManagerRemove
<1>18. CASE RevokeMail \/ UNCHANGED spaceVars
  BY <1>0, <1>18 DEF RevokeMail, spaceVars
<1> QED
  BY <1>2, <1>3, <1>4, <1>5, <1>6, <1>7, <1>9, <1>10, <1>13, <1>14, <1>15, <1>16, <1>17, <1>18,
     SpacesAssumption, Zenon DEF SpaceNext

\* No application stays approved for nothing, however decisions race and joins fail, but for
\* those whose taking back was refused or cut off by a crash.
THEOREM ApprovalsAreSettled == SpaceSpec => []ApprovedIsAdmitted
<1>1. SpaceTypeOK /\ Paths /\ ApprovedIsAdmitted /\ [SpaceNext]_spaceVars
          => SpaceTypeOK' /\ Paths' /\ ApprovedIsAdmitted'
  BY NextType, NextPaths, NextApproved
<1> QED BY InitType, InitPaths, InitApproved, <1>1, PTL DEF SpaceSpec

-----------------------------------------------------------------------------
(* The emailed invitation. *)

\* A request that consumed the invitation and has not brought its user in yet.
Holds(r) == req[r].of = "mail" /\ req[r].at \in {"look", "write", "release"}

\* One request holds the invitation at a time, in the name the row has, and while it does
\* nobody was admitted.
MailInv ==
    /\ MailAdmitsOne
    /\ \A r \in Request : Holds(r) => mail = [state |-> "consumed", by |-> Who(r)] /\ invited = {}
    /\ \A r, s \in Request : Holds(r) /\ Holds(s) => r = s

LEMMA InitMail == SpaceInit => MailInv
BY DEF SpaceInit, MailInv, MailAdmitsOne, Holds, Idle

\* A step of a request that neither takes the invitation nor lets it go into use.
LEMMA MailKept ==
    ASSUME SpaceTypeOK, MailInv, NEW r \in Request, NEW q, req' = [req EXCEPT ![r] = q],
           q.of = "mail" /\ q.at \in {"look", "write", "release"} => Holds(r) /\ q.who = req[r].who,
           UNCHANGED <<mail, invited>>
    PROVE  MailInv'
<1>1. \A s \in Request : s # r => (Holds(s)' <=> Holds(s)) /\ req'[s] = req[s]
  BY DEF SpaceTypeOK, Holds
<1>2. Holds(r)' => Holds(r) /\ Who(r)' = Who(r)
  BY DEF SpaceTypeOK, Holds, Who
<1> QED BY <1>1, <1>2 DEF MailInv, MailAdmitsOne, Who

LEMMA NextMail == SpaceTypeOK /\ Paths /\ MailInv /\ [SpaceNext]_spaceVars => MailInv'
<1> SUFFICES ASSUME SpaceTypeOK, Paths, MailInv, [SpaceNext]_spaceVars PROVE MailInv'
  OBVIOUS
<1> USE DEF table, told
<1>0. CASE UNCHANGED <<req, mail, invited>>
  BY <1>0 DEF MailInv, MailAdmitsOne, Holds, Who
<1>1. ASSUME NEW r \in Request, Done(r), UNCHANGED <<mail, invited>>
      PROVE  MailInv'
  BY <1>1, MailKept DEF Done, Idle
<1>2. ASSUME NEW r \in Request, NEW at, Step(r, at), UNCHANGED <<mail, invited>>,
             at \in {"look", "write", "release"} /\ req[r].of = "mail" => Holds(r)
      PROVE  MailInv'
  <2> DEFINE q == [req[r] EXCEPT !.at = at]
  <2>1. q.at = at /\ q.of = req[r].of /\ q.who = req[r].who
    BY DEF SpaceTypeOK, Pending
  <2>2. req' = [req EXCEPT ![r] = q]
    BY <1>2 DEF Step
  <2> HIDE DEF q
  <2> QED BY <1>2, <2>1, <2>2, MailKept
<1>3. ASSUME NEW r \in Request, NEW u \in Person,
             Join(r, u) \/ Ask(r, u) \/ Approve(r, u) \/ Reject(r, u) \/ AcceptMail(r, u) \/ ManagerAdd(r, u)
      PROVE  MailInv'
  BY <1>3, MailKept DEF Join, Ask, Approve, Reject, AcceptMail, ManagerAdd, Begin, Call
<1>4. ASSUME NEW r \in Request, NEW a \in Person, NEW u \in Person, Add(r, a, u) \/ Remove(r, a, u)
      PROVE  MailInv'
  BY <1>4, MailKept DEF Add, Remove, Begin, Call
<1>5. ASSUME NEW r \in Request, NEW u \in Person, NEW role \in Role, Assign(r, u, role)
      PROVE  MailInv'
  BY <1>5, MailKept DEF Assign, Begin, Call
<1>6. ASSUME NEW r \in Request, NEW at \in {"disband", "purge", "ban", "lift"}, ReadSpace(r, at)
      PROVE  MailInv'
  BY <1>6, MailKept DEF ReadSpace, Begin, Call
<1>7. ASSUME NEW r \in Request,
             \/ AskWrite(r) \/ Deny(r) \/ Refund(r) \/ Raise(r) \/ AddWrite(r) \/ Upsert(r)
             \/ RemoveWrite(r) \/ AssignWrite(r) \/ WriteSpace(r) \/ Purge(r) \/ Die(r)
      PROVE  MailInv'
  BY <1>1, <1>7 DEF AskWrite, Deny, Refund, Raise, AddWrite, Upsert, RemoveWrite, AssignWrite, WriteSpace,
                    Purge, Die
<1>8. ASSUME NEW r \in Request, Decide(r) \/ Promote(r) \/ Reopen(r) \/ UndoFails(r)
      PROVE  MailInv'
  BY <1>1, <1>2, <1>8 DEF Decide, Promote, Reopen, UndoFails
<1>9. ASSUME NEW r \in Request, Charge(r)
      PROVE  MailInv'
  <2>1. req[r].of # "mail" /\ UNCHANGED <<mail, invited>>
    BY <1>9 DEF Charge, At, Paths
  <2>2. CASE req' = [req EXCEPT ![r].at = "look", ![r].paid = TRUE]
    <3> DEFINE q == [req[r] EXCEPT !.at = "look", !.paid = TRUE]
    <3>1. q.of = req[r].of
      BY DEF SpaceTypeOK, Pending
    <3>2. req' = [req EXCEPT ![r] = q]
      BY <2>2
    <3> HIDE DEF q
    <3> QED BY <2>1, <3>1, <3>2, MailKept
  <2>3. CASE IF req[r].of = "apply" THEN Step(r, "reopen") ELSE Done(r)
    BY <1>1, <1>2, <2>1, <2>3
  <2> QED BY <1>9, <2>2, <2>3 DEF Charge
\* The invitation is taken: nobody held it, and nobody was admitted by it.
<1>10. ASSUME NEW r \in Request, Consume(r)
       PROVE  MailInv'
  <2>1. CASE Consumable
    <3>1. invited = {} /\ \A s \in Request : ~Holds(s)
      BY <2>1 DEF Consumable, MailInv, MailAdmitsOne
    <3>2. mail' = [state |-> "consumed", by |-> Who(r)] /\ invited' = invited /\ Step(r, "look")
      BY <1>10, <2>1 DEF Consume
    <3>3. \A s \in Request : s # r => ~Holds(s)'
      BY <3>1, <3>2 DEF Step, SpaceTypeOK, Holds
    <3>4. Who(r)' = Who(r)
      BY <3>2 DEF Step, SpaceTypeOK, Pending, Who
    <3> QED BY <3>1, <3>2, <3>3, <3>4 DEF MailInv, MailAdmitsOne
  <2>2. CASE ~Consumable
    BY <1>1, <1>10, <2>2 DEF Consume
  <2> QED BY <2>1, <2>2
<1>11. CASE RevokeMail
  <2>1. mail.state = "pending" /\ UNCHANGED <<req, invited>>
    BY <1>11 DEF RevokeMail
  <2>2. invited = {} /\ \A s \in Request : ~Holds(s)
    BY <2>1 DEF MailInv, MailAdmitsOne
  <2>3. \A s \in Request : ~Holds(s)'
    BY <2>1, <2>2 DEF Holds
  <2> QED BY <2>1, <2>2, <2>3 DEF MailInv, MailAdmitsOne
\* A user is brought in: by the invitation, if the request holds it, and then it lets go.
<1>12. ASSUME NEW r \in Request, NEW new, Admitted(r, new), mail' = mail, ~Holds(r)',
              \A s \in Request \ {r} : req'[s] = req[s], req[r].at \in {"look", "write"}
       PROVE  MailInv'
  <2>1. \A s \in Request \ {r} : (Holds(s)' <=> Holds(s)) /\ Who(s)' = Who(s)
    BY <1>12 DEF Holds, Who
  <2>2. CASE req[r].of = "mail"
    <3>1. Holds(r) /\ invited' = {Who(r)}
      BY <1>12, <2>2 DEF Holds, Admitted, MailInv
    <3>2. mail' = [state |-> "consumed", by |-> Who(r)] /\ \A s \in Request : ~Holds(s)'
      BY <1>12, <2>1, <3>1 DEF MailInv
    <3> QED BY <3>1, <3>2 DEF MailInv, MailAdmitsOne
  <2>3. CASE req[r].of # "mail"
    <3>1. invited' = invited
      BY <1>12, <2>3 DEF Admitted
    <3> QED BY <1>12, <2>1, <3>1 DEF MailInv, MailAdmitsOne
  <2> QED BY <2>2, <2>3
<1>13. ASSUME NEW r \in Request, Look(r)
       PROVE  MailInv'
  <2>1. CASE IsActive(Who(r))
    <3>1. Admitted(r, FALSE) /\ mail' = mail /\ req[r].at = "look"
      BY <1>13, <2>1 DEF Look, At
    <3>2. ~Holds(r)' /\ \A s \in Request \ {r} : req'[s] = req[s]
      BY <1>13, <2>1 DEF Look, Step, SpaceTypeOK, Pending, Holds
    <3> QED BY <1>12, <3>1, <3>2
  <2>2. CASE ~IsActive(Who(r))
    <3> DEFINE q == [req[r] EXCEPT !.at = "write", !.seen = member[Who(r)].row]
    <3>1. q.of = req[r].of /\ q.who = req[r].who
      BY DEF SpaceTypeOK, Pending
    <3>2. req' = [req EXCEPT ![r] = q] /\ UNCHANGED <<mail, invited>> /\ req[r].at = "look"
      BY <1>13, <2>2 DEF Look, At
    <3> HIDE DEF q
    <3> QED BY <3>1, <3>2, MailKept DEF Holds
  <2> QED BY <2>1, <2>2
<1>14. ASSUME NEW r \in Request, TakeBack(r), UNCHANGED <<mail, invited>>, req[r].at \in {"look", "write"}
       PROVE  MailInv'
  BY <1>2, <1>14 DEF TakeBack, Holds
<1>15. ASSUME NEW r \in Request, Write(r)
       PROVE  MailInv'
  <2>1. mail' = mail /\ req[r].at = "write"
    BY <1>15 DEF Write, At
  <2>2. CASE Admitted(r, TRUE) /\ Wrote(r)
    <3>1. ~Holds(r)' /\ \A s \in Request \ {r} : req'[s] = req[s]
      BY <2>2 DEF Wrote, Step, Done, Idle, SpaceTypeOK, Pending, Holds
    <3> QED BY <1>12, <2>1, <2>2, <3>1
  <2>3. CASE TakeBack(r) /\ UNCHANGED invited
    BY <1>14, <2>1, <2>3
  <2> QED BY <1>15, <2>2, <2>3 DEF Write
<1>16. ASSUME NEW r \in Request, JoinFails(r)
       PROVE  MailInv'
  BY <1>14, <1>16 DEF JoinFails, At
\* The invitation is given back by the request that held it.
<1>17. ASSUME NEW r \in Request, Release(r)
       PROVE  MailInv'
  <2>1. CASE mail = [state |-> "consumed", by |-> Who(r)] /\ req[r].of = "mail"
    <3>1. Holds(r)
      BY <1>17, <2>1 DEF Release, At, Holds
    <3>2. invited' = {} /\ \A s \in Request \ {r} : ~Holds(s)
      BY <1>17, <3>1 DEF Release, MailInv
    <3>3. \A s \in Request : ~Holds(s)'
      BY <1>17, <3>2 DEF Release, Done, Idle, SpaceTypeOK, Holds
    <3> QED BY <3>2, <3>3 DEF MailInv, MailAdmitsOne
  <2>2. CASE mail # [state |-> "consumed", by |-> Who(r)]
    BY <1>1, <1>17, <2>2 DEF Release
  <2>3. req[r].of = "mail"
    BY <1>17 DEF Release, At, Paths
  <2> QED BY <2>1, <2>2, <2>3
<1>18. ASSUME NEW users \in SUBSET Person, ManagerRemove(users)
       PROVE  MailInv'
  BY <1>0, <1>18 DEF ManagerRemove
<1>19. CASE UNCHANGED spaceVars
  BY <1>0, <1>19 DEF spaceVars
<1> QED
  BY <1>3, <1>4, <1>5, <1>6, <1>7, <1>8, <1>9, <1>10, <1>11, <1>13, <1>15, <1>16, <1>17, <1>18, <1>19,
     SpacesAssumption, Zenon DEF SpaceNext

\* An emailed invitation admits one user for good, however many accept it at a time and
\* whichever of their joins fails.
THEOREM InvitationIsForOne == SpaceSpec => []MailAdmitsOne
<1>1. SpaceTypeOK /\ Paths /\ MailInv /\ [SpaceNext]_spaceVars => SpaceTypeOK' /\ Paths' /\ MailInv'
  BY NextType, NextPaths, NextMail
<1>2. MailInv => MailAdmitsOne
  BY DEF MailInv
<1> QED BY InitType, InitPaths, InitMail, <1>1, <1>2, PTL DEF SpaceSpec
=============================================================================
