----------------------------- MODULE GroupsProofs -----------------------------
(* Theorems about Groups, for every set of users, robots and requests. *)
EXTENDS Groups, FiniteSetTheorems, TLAPS

-----------------------------------------------------------------------------
(* Type correctness. *)

RequestsTyped ==
    /\ req \in [Request -> Pending]
    /\ \A r \in Request : req[r].at \notin {"idle", "disband"} => req[r].who \in Person

LEMMA IdleType == Idle \in Pending /\ Idle.at = "idle"
BY DEF Idle, Pending, Operation, Stage, Absent, Member

LEMMA InitType == GroupInit => GroupTypeOK
<1> SUFFICES ASSUME GroupInit PROVE GroupTypeOK
  OBVIOUS
<1> USE GroupsAssumption DEF GroupInit
<1>1. member \in [Person -> Member]
  BY DEF Absent, Member
<1>2. req \in [Request -> Pending] /\ \A r \in Request : req[r].at = "idle"
  BY IdleType
<1>3. live \in BOOLEAN /\ cleaning \in BOOLEAN /\ contested \in BOOLEAN
  BY Zenon
<1> QED BY <1>1, <1>2, <1>3 DEF GroupTypeOK

\* What a request becomes is a request.
LEMMA BecomesType ==
    ASSUME GroupTypeOK, NEW r \in Request, NEW q \in Pending,
           q.at \in {"idle", "disband"} \/ q.who \in Person,
           req' = [req EXCEPT ![r] = q]
    PROVE  RequestsTyped'
BY DEF GroupTypeOK, RequestsTyped

LEMMA DoneType ==
    ASSUME GroupTypeOK, NEW r \in Request, Done(r)
    PROVE  RequestsTyped'
BY IdleType, BecomesType DEF Done

\* A request that is about somebody goes on.
LEMMA WhoType ==
    ASSUME GroupTypeOK, NEW r \in Request, req[r].at \notin {"idle", "disband"}
    PROVE  req[r] \in Pending /\ Who(r) \in Person
BY DEF GroupTypeOK, Who

LEMMA StepType ==
    ASSUME GroupTypeOK, NEW r \in Request, req[r].at \notin {"idle", "disband"},
           NEW at \in Stage, Step(r, at)
    PROVE  RequestsTyped'
<1>1. [req[r] EXCEPT !.at = at] \in Pending /\ [req[r] EXCEPT !.at = at].who \in Person
  BY WhoType DEF Pending, Who
<1>2. req' = [req EXCEPT ![r] = [req[r] EXCEPT !.at = at]]
  BY DEF Step
<1> QED BY <1>1, <1>2, BecomesType

LEMMA BegunType ==
    ASSUME GroupTypeOK, NEW r \in Request, NEW q \in Pending,
           q.at = "disband" \/ q.who \in Person,
           Begin(r, q)
    PROVE  /\ RequestsTyped' /\ begun' \in 0..MaxBegun
           /\ Concerns(q) \subseteq Person => unsure' \subseteq Person
<1>1. begun < MaxBegun /\ begun' = begun + 1 /\ req' = [req EXCEPT ![r] = q]
  BY DEF Begin
<1>2. begun' \in 0..MaxBegun
  BY <1>1, GroupsAssumption DEF GroupTypeOK
<1>3. unsure' \subseteq unsure \cup Concerns(q)
  BY DEF Begin
<1> QED BY <1>1, <1>2, <1>3, BecomesType DEF GroupTypeOK

\* The users a request concerns, and with them their robots.
LEMMA ConcernsArePersons ==
    ASSUME NEW q, q.who \in Person \cup {Nobody}, q.by \in Person \cup {Nobody}
    PROVE  Concerns(q) \subseteq Person
BY GroupsAssumption DEF Concerns, Touched, BotsOf

\* What the handlers write into the table.
LEMMA JoinedType ==
    ASSUME GroupTypeOK, NEW u \in Person
    PROVE  Joined(u) \in [Person -> Member]
BY DEF GroupTypeOK, Member, Joined

LEMMA DeletedType ==
    ASSUME GroupTypeOK, NEW users
    PROVE  Deleted(users) \in [Person -> Member]
BY DEF GroupTypeOK, Member, Deleted

LEMMA AppointedType ==
    ASSUME NEW table \in [Person -> Member], NEW u \in Person \cup {Nobody},
           NEW role \in {"common", "manager", "creator"}
    PROVE  Appointed(table, u, role) \in [Person -> Member]
BY DEF Member, Appointed

-----------------------------------------------------------------------------
(* Requests as they begin. *)

\* The stages each operation goes through.
Goes(op, at) ==
    \/ op = "none" /\ at = "idle"
    \/ op = "exit" /\ at \in {"quit", "own", "heir", "leave", "untopic", "unsubscribe"}
    \/ op = "transfer" /\ at \in {"entitled", "hand", "undeny"}
    \/ op = "promote" /\ at \in {"check", "role"}
    \/ op = "demote" /\ at = "role"
    \/ op \in {"add", "scan"} /\ at \in {"look", "write", "subscribe", "topics"}
    \/ op = "invite" /\ at \in {"hold", "commit"}
    \/ op = "kick" /\ at \in {"target", "delete", "unsubscribe", "untopic"}
    \/ op = "block" /\ at \in {"mark", "deny", "untopic", "unsubscribe"}
    \/ op = "unblock" /\ at \in {"mark", "revive", "undeny", "subscribe", "topics"}
    \/ op = "mute" /\ at \in {"rewrite", "deny"}
    \/ op \in {"unmute", "expire"} /\ at \in {"rewrite", "undeny"}
    \/ op = "disband" /\ at = "disband"

\* What a request carries: those it unsubscribes hang on the user it is about, a transfer
\* is between two users, and only a creator that leaves has an heir.
Shaped(q) ==
    /\ Goes(q.op, q.at)
    /\ q.at \in {"unsubscribe", "untopic"} =>
          q.gone \cup q.bots \subseteq IF q.op = "block" THEN {q.who} ELSE Touched(q.who)
    /\ q.at # "untopic" \/ q.op = "block" => q.bots = {}
    /\ q.at \in {"entitled", "hand"} => q.by \in Person \ {q.who}
    /\ q.at \in {"quit", "own"} => q.heir = Nobody
    /\ q.at = "heir" => q.seen.role = "creator"
    /\ q.at = "leave" => q.seen.role = "creator" \/ q.heir = Nobody
    /\ q.op = "disband" => q.who = Nobody /\ q.by = Nobody

\* The stages a request begins with.
First == {"quit", "entitled", "check", "role", "look", "hold", "target", "mark", "rewrite",
          "disband"}

\* What a handler has checked when its request is under way.
Fresh(q) ==
    /\ q \in Pending /\ Shaped(q) /\ q.at \in First
    /\ q.at # "disband" => q.who \in Person
    /\ q.at = "entitled" => IsActive(q.who)
    /\ q.at = "rewrite" => q.seen = member[q.who]
    /\ q.at \in {"look", "hold"} /\ q.who \in Bot => IsActive(OwnerOf[q.who])
    /\ live \/ q.at = "entitled" \/ q.op = "expire"

Begun(r) ==
    /\ \E q : Fresh(q) /\ Begin(r, q)
    /\ UNCHANGED <<member, im, disbanding, muffled, contested, faults>>

LEMMA CallIs ==
    ASSUME NEW op \in Operation, NEW at \in Stage, NEW u \in Person \cup {Nobody}
    PROVE  /\ Call(op, at, u) \in Pending
           /\ Call(op, at, u).op = op /\ Call(op, at, u).at = at
           /\ Call(op, at, u).who = u /\ Call(op, at, u).by = Nobody
           /\ Call(op, at, u).heir = Nobody /\ Call(op, at, u).bots = {}
BY IdleType DEF Call, Idle, Pending

LEMMA CallIsFresh ==
    ASSUME NEW op, NEW at, NEW u \in Person, live,
           \/ op = "exit" /\ at = "quit"
           \/ op \in {"add", "scan"} /\ at = "look"
           \/ op = "invite" /\ at = "hold"
           \/ op = "kick" /\ at = "target"
           \/ op \in {"block", "unblock"} /\ at = "mark"
           \/ op = "promote" /\ at = "check"
           \/ op = "demote" /\ at = "role",
           at \in {"look", "hold"} /\ u \in Bot => IsActive(OwnerOf[u])
    PROVE  Fresh(Call(op, at, u))
<1>1. op \in Operation /\ at \in Stage
  BY DEF Operation, Stage
<1>2. /\ Call(op, at, u) \in Pending
      /\ Call(op, at, u).op = op /\ Call(op, at, u).at = at /\ Call(op, at, u).who = u
      /\ Call(op, at, u).heir = Nobody /\ Call(op, at, u).bots = {}
  BY <1>1, CallIs
<1>3. Shaped(Call(op, at, u))
  BY <1>2 DEF Shaped, Goes
<1> QED BY <1>2, <1>3 DEF Fresh, First

LEMMA Beginnings ==
    ASSUME GroupTypeOK, NEW r \in Request, NEW u \in Person, NEW a \in Person,
           \/ Add(r, u) \/ Invite(r, u) \/ Scan(r, u) \/ Exit(r, u) \/ Kick(r, u)
           \/ Block(r, u) \/ Mute(r, u) \/ Expire(r, u)
           \/ Transfer(r, a, u) \/ Promote(r, a, u) \/ Demote(r, a, u) \/ Disband(r)
    PROVE  Begun(r)
<1>1. CASE Add(r, u)
  <2>1. Fresh(Call("add", "look", u))
    BY <1>1, CallIsFresh DEF Add, Admissible
  <2> QED BY <1>1, <2>1 DEF Add, Begun
<1>2. CASE Invite(r, u)
  <2>1. Fresh(Call("invite", "hold", u))
    BY <1>2, CallIsFresh DEF Invite, Admissible
  <2> QED BY <1>2, <2>1 DEF Invite, Begun
<1>3. CASE Scan(r, u)
  <2>1. Fresh(Call("scan", "look", u))
    BY <1>3, CallIsFresh DEF Scan
  <2> QED BY <1>3, <2>1 DEF Scan, Begun
<1>4. CASE Exit(r, u)
  <2>1. Fresh(Call("exit", "quit", u))
    BY <1>4, CallIsFresh DEF Exit
  <2> QED BY <1>4, <2>1 DEF Exit, Begun
<1>5. CASE Kick(r, u)
  <2>1. Fresh(Call("kick", "target", u))
    BY <1>5, CallIsFresh DEF Kick
  <2> QED BY <1>5, <2>1 DEF Kick, Begun
<1>6. CASE Block(r, u)
  <2>1. \A op \in {"block", "unblock"} : Fresh(Call(op, "mark", u))
    BY <1>6, CallIsFresh DEF Block
  <2> QED BY <1>6, <2>1 DEF Block, Begun
<1>7. CASE Mute(r, u) \/ Expire(r, u)
  <2>1. PICK op \in {"mute", "unmute", "expire"} :
           /\ live \/ op = "expire"
           /\ Begin(r, [Call(op, "rewrite", u) EXCEPT !.seen = member[u]])
           /\ UNCHANGED <<member, im, disbanding, muffled, contested, faults>>
    BY <1>7 DEF Mute, Expire
  <2> DEFINE q == [Call(op, "rewrite", u) EXCEPT !.seen = member[u]]
  <2>a. op \in Operation /\ "rewrite" \in Stage
    BY DEF Operation, Stage
  <2>2. member[u] \in Member /\ Call(op, "rewrite", u) \in Pending
        /\ Call(op, "rewrite", u).op = op /\ Call(op, "rewrite", u).at = "rewrite"
        /\ Call(op, "rewrite", u).who = u /\ Call(op, "rewrite", u).bots = {}
    BY <2>a, CallIs DEF GroupTypeOK
  <2>3. /\ q \in Pending /\ q.op = op /\ q.at = "rewrite" /\ q.who = u /\ q.seen = member[u]
        /\ q.bots = {}
    BY <2>2 DEF Pending
  <2>4. Fresh(q)
    BY <2>1, <2>3 DEF Fresh, Shaped, Goes, First
  <2> QED BY <2>1, <2>4 DEF Begun
<1>8. CASE Transfer(r, a, u)
  <2> DEFINE q == [Call("transfer", "entitled", u) EXCEPT !.by = a, !.seen = member[u]]
  <2>a. "transfer" \in Operation /\ "entitled" \in Stage
    BY DEF Operation, Stage
  <2>1. member[u] \in Member /\ Call("transfer", "entitled", u) \in Pending
        /\ Call("transfer", "entitled", u).op = "transfer"
        /\ Call("transfer", "entitled", u).at = "entitled"
        /\ Call("transfer", "entitled", u).who = u /\ Call("transfer", "entitled", u).bots = {}
    BY <2>a, CallIs DEF GroupTypeOK
  <2>2. q \in Pending /\ q.op = "transfer" /\ q.at = "entitled" /\ q.who = u /\ q.by = a
        /\ q.bots = {}
    BY <2>1 DEF Pending
  <2>3. Fresh(q)
    BY <1>8, <2>2 DEF Fresh, Shaped, Goes, First, Transfer
  <2> QED BY <1>8, <2>3 DEF Begun, Transfer
<1>9. CASE Promote(r, a, u)
  <2>1. Fresh(Call("promote", "check", u))
    BY <1>9, CallIsFresh DEF Promote
  <2> QED BY <1>9, <2>1 DEF Promote, Begun
<1>10. CASE Demote(r, a, u)
  <2>1. Fresh(Call("demote", "role", u))
    BY <1>10, CallIsFresh DEF Demote
  <2> QED BY <1>10, <2>1 DEF Demote, Begun
<1>11. CASE Disband(r)
  <2> DEFINE q == Call("disband", "disband", Nobody)
  <2>a. "disband" \in Operation /\ "disband" \in Stage
    BY DEF Operation, Stage
  <2>1. q \in Pending /\ q.op = "disband" /\ q.at = "disband" /\ q.who = Nobody /\ q.by = Nobody
        /\ q.bots = {}
    BY <2>a, CallIs
  <2>2. live
    BY <1>11 DEF Disband
  <2>3. Fresh(q)
    <3> HIDE DEF q
    <3> QED BY <2>1, <2>2 DEF Fresh, Shaped, Goes, First
  <2> QED BY <1>11, <2>3 DEF Disband, Begun
<1> QED BY <1>1, <1>2, <1>3, <1>4, <1>5, <1>6, <1>7, <1>8, <1>9, <1>10, <1>11

-----------------------------------------------------------------------------
(* Requests as they go on. *)

Acts(r) ==
    \/ Look(r) \/ Write(r) \/ Hold(r) \/ Commit(r) \/ Subscribe(r) \/ Topics(r)
    \/ Quit(r) \/ Own(r) \/ Heir(r) \/ Leave(r) \/ Target(r) \/ Delete(r)
    \/ Unsubscribe(r) \/ Untopic(r)
    \/ Entitled(r) \/ Hand(r) \/ Check(r) \/ SetRole(r)
    \/ Mark(r) \/ Revive(r) \/ Rewrite(r) \/ Deny(r) \/ Undeny(r)
    \/ Close(r) \/ Fail(r)

\* A request ends, or goes on about the same users.
Moves(r) ==
    \E q \in Pending :
        /\ Shaped(q) /\ req' = [req EXCEPT ![r] = q]
        /\ \/ q = Idle
           \/ q.op = req[r].op /\ q.who = req[r].who /\ q.by = req[r].by /\ q.at # "idle"

LEMMA EndMoves ==
    ASSUME NEW r \in Request, Done(r)
    PROVE  Moves(r)
<1>1. Shaped(Idle)
  BY DEF Shaped, Goes, Idle
<1> QED BY <1>1, IdleType DEF Done, Moves

LEMMA StepMoves ==
    ASSUME GroupTypeOK, NEW r \in Request, Shaped(req[r]), NEW at \in Stage,
           Step(r, at), Goes(req[r].op, at), req[r].at \notin {"unsubscribe", "untopic"},
           at \notin {"idle", "quit", "unsubscribe", "untopic", "entitled", "hand", "own", "heir",
                      "leave"}
    PROVE  Moves(r)
<1> DEFINE q == [req[r] EXCEPT !.at = at]
<1>1. req[r] \in Pending
  BY DEF GroupTypeOK
<1>2. /\ q \in Pending /\ q.at = at /\ q.op = req[r].op /\ q.who = req[r].who /\ q.by = req[r].by
        /\ q.bots = req[r].bots
  BY <1>1 DEF Pending
<1>3. Shaped(q)
  BY <1>2 DEF Shaped
<1> QED BY <1>2, <1>3 DEF Moves, Step

LEMMA ActMoves ==
    ASSUME GroupTypeOK, NEW r \in Request, Shaped(req[r]), Acts(r)
    PROVE  Moves(r)
<1> DEFINE p == req[r]
<1>0. p \in Pending
  BY DEF GroupTypeOK
<1>1. CASE Close(r) \/ Fail(r) \/ Commit(r) \/ Topics(r) \/ SetRole(r)
  BY <1>1, EndMoves DEF Close, Fail, Commit, Topics, SetRole
<1>2. CASE Look(r)
  <2> DEFINE q == [p EXCEPT !.at = "write", !.seen = member[Who(r)]]
  <2>1. p.at = "look" /\ p.op \in {"add", "scan"} /\ p.bots = {}
    BY <1>2 DEF Look, At, Shaped, Goes
  <2>2. member[Who(r)] \in Member
    BY <2>1, WhoType DEF GroupTypeOK
  <2>3. q \in Pending /\ q.at = "write" /\ q.op = p.op /\ q.who = p.who /\ q.by = p.by
        /\ q.bots = p.bots
    BY <1>0, <2>2 DEF Pending, Stage
  <2>4. Shaped(q)
    BY <2>1, <2>3 DEF Shaped, Goes
  <2> QED BY <1>2, <2>3, <2>4 DEF Look, Moves
<1>3. CASE Write(r) \/ Hold(r) \/ Subscribe(r) \/ Target(r) \/ Check(r)
  BY <1>3, EndMoves, StepMoves DEF Write, Hold, Subscribe, Target, Check, At, Shaped, Goes, Stage
<1>4. CASE Mark(r) \/ Revive(r) \/ Undeny(r) \/ Rewrite(r) \/ Hand(r)
  BY <1>4, EndMoves, StepMoves DEF Mark, Revive, Undeny, Rewrite, Hand, At, Shaped, Goes, Stage
<1>5. CASE Quit(r)
  <2> DEFINE q == [p EXCEPT !.at = "own"]
  <2>1. p.at = "quit" /\ p.op = "exit" /\ p.heir = Nobody /\ p.bots = {}
    BY <1>5 DEF Quit, At, Shaped, Goes
  <2>2. q \in Pending /\ q.at = "own" /\ q.op = p.op /\ q.who = p.who /\ q.by = p.by
        /\ q.bots = p.bots
        /\ q.heir = Nobody
    BY <1>0, <2>1 DEF Pending, Stage
  <2>3. Shaped(q)
    BY <2>1, <2>2 DEF Shaped, Goes
  <2> QED BY <1>5, <2>2, <2>3 DEF Quit, Step, Moves
<1>6. CASE Own(r)
  <2> DEFINE q == [p EXCEPT !.at = IF IsCreator(Who(r)) THEN "heir" ELSE "leave",
                            !.seen = member[Who(r)]]
  <2>1. p.at = "own" /\ p.op = "exit" /\ p.heir = Nobody /\ p.bots = {}
    BY <1>6 DEF Own, At, Shaped, Goes
  <2>2. CASE IsActive(Who(r)) /\ req' = [req EXCEPT ![r] = q]
    <3>1. member[Who(r)] \in Member
      BY <2>1, WhoType DEF GroupTypeOK
    <3>a. PICK at \in {"heir", "leave"} :
            /\ q = [p EXCEPT !.at = at, !.seen = member[Who(r)]]
            /\ at = "heir" => IsCreator(Who(r))
      OBVIOUS
    <3>2. q \in Pending /\ q.op = p.op /\ q.who = p.who /\ q.by = p.by /\ q.heir = Nobody
          /\ q.bots = p.bots
          /\ q.at \in {"heir", "leave"} /\ q.seen = member[Who(r)]
          /\ (q.at = "heir" => IsCreator(Who(r)))
      <4> HIDE DEF q
      <4> QED BY <1>0, <2>1, <3>1, <3>a DEF Pending, Stage
    <3>3. Shaped(q)
      BY <2>1, <3>2 DEF Shaped, Goes, IsCreator
    <3> QED BY <2>2, <3>2, <3>3 DEF Moves
  <2> QED BY <1>6, <2>2, EndMoves DEF Own
<1>7. CASE Heir(r)
  <2>1. PICK u \in Person \cup {Nobody} :
           req' = [req EXCEPT ![r] = [p EXCEPT !.at = "leave", !.heir = u]]
    BY <1>7 DEF Heir, Heirs
  <2> DEFINE q == [p EXCEPT !.at = "leave", !.heir = u]
  <2>2. p.at = "heir" /\ p.op = "exit" /\ p.seen.role = "creator" /\ p.bots = {}
    BY <1>7 DEF Heir, At, Shaped, Goes
  <2>3. q \in Pending /\ q.at = "leave" /\ q.op = p.op /\ q.who = p.who /\ q.by = p.by
        /\ q.bots = p.bots
        /\ q.seen = p.seen
    BY <1>0 DEF Pending, Stage
  <2>4. Shaped(q)
    BY <2>2, <2>3 DEF Shaped, Goes
  <2> QED BY <2>1, <2>3, <2>4 DEF Moves
<1>8. CASE Leave(r)
  <2>1. PICK bots \in SUBSET BotsOf(Who(r)) :
           req' = [req EXCEPT ![r] = [p EXCEPT !.at = "untopic", !.gone = {Who(r)}, !.bots = bots]]
    BY <1>8 DEF Leave, Cascaded
  <2> DEFINE q == [p EXCEPT !.at = "untopic", !.gone = {Who(r)}, !.bots = bots]
  <2>2. p.at = "leave" /\ p.op = "exit"
    BY <1>8 DEF Leave, At, Shaped, Goes
  <2>3. Who(r) \in Person /\ bots \subseteq Person
    BY <2>2, WhoType, GroupsAssumption DEF BotsOf
  <2>4. q \in Pending /\ q.at = "untopic" /\ q.op = p.op /\ q.who = p.who /\ q.by = p.by
        /\ q.gone = {Who(r)} /\ q.bots = bots
    BY <1>0, <2>3 DEF Pending, Stage
  <2>5. Shaped(q)
    BY <2>2, <2>4 DEF Shaped, Goes, Touched, Who
  <2> QED BY <2>1, <2>4, <2>5 DEF Moves
<1>9. CASE Delete(r)
  <2> DEFINE out == {Who(r)} \cup Cascaded(Who(r))
             q == [p EXCEPT !.at = "unsubscribe", !.gone = out]
  <2>1. p.at = "delete" /\ p.op = "kick" /\ p.bots = {}
    BY <1>9 DEF Delete, At, Shaped, Goes
  <2>2. out \subseteq Person /\ out \subseteq Touched(Who(r))
    BY <2>1, WhoType, GroupsAssumption DEF BotsOf, Touched, Cascaded
  <2>3. q \in Pending /\ q.at = "unsubscribe" /\ q.op = p.op /\ q.who = p.who /\ q.by = p.by
        /\ q.bots = p.bots
        /\ q.gone = out
    BY <1>0, <2>2 DEF Pending, Stage
  <2>4. Shaped(q)
    BY <2>1, <2>2, <2>3 DEF Shaped, Goes, Who
  <2> QED BY <1>9, <2>3, <2>4 DEF Delete, Moves
<1>10. CASE Unsubscribe(r)
  <2> DEFINE q == [p EXCEPT !.at = "untopic"]
  <2>1. p.at = "unsubscribe" /\ p.op \in {"exit", "kick", "block"} /\ p.bots = {}
        /\ p.gone \cup p.bots \subseteq IF p.op = "block" THEN {p.who} ELSE Touched(p.who)
    BY <1>10 DEF Unsubscribe, At, Shaped, Goes
  <2>2. q \in Pending /\ q.at = "untopic" /\ q.op = p.op /\ q.who = p.who /\ q.by = p.by
        /\ q.gone = p.gone /\ q.bots = p.bots
    BY <1>0 DEF Pending, Stage
  <2>3. Shaped(q)
    BY <2>1, <2>2 DEF Shaped, Goes
  <2>4. Done(r) \/ req' = [req EXCEPT ![r] = q]
    BY <1>10 DEF Unsubscribe, Step
  <2> QED BY <2>2, <2>3, <2>4, EndMoves DEF Moves
<1>11. CASE Untopic(r)
  <2>1. p.at = "untopic" /\ p.op \in {"exit", "kick", "block"} /\ (p.op = "block" => p.bots = {})
        /\ p.gone \cup p.bots \subseteq IF p.op = "block" THEN {p.who} ELSE Touched(p.who)
    BY <1>11 DEF Untopic, At, Shaped, Goes
  <2> DEFINE q == [p EXCEPT !.at = "unsubscribe"]
             b == [p EXCEPT !.at = "unsubscribe", !.gone = p.bots, !.bots = {}]
  <2>2. q \in Pending /\ q.at = "unsubscribe" /\ q.op = p.op /\ q.who = p.who /\ q.by = p.by
        /\ q.gone = p.gone /\ q.bots = p.bots
    BY <1>0 DEF Pending, Stage
  <2>3. b \in Pending /\ b.at = "unsubscribe" /\ b.op = p.op /\ b.who = p.who /\ b.by = p.by
        /\ b.gone = p.bots /\ b.bots = {}
    BY <1>0 DEF Pending, Stage
  <2>4. p.op = "block" => Shaped(q)
    BY <2>1, <2>2 DEF Shaped, Goes
  <2>5. p.op # "block" => Shaped(b)
    BY <2>1, <2>3 DEF Shaped, Goes
  <2>6. \/ Done(r)
        \/ p.op = "block" /\ req' = [req EXCEPT ![r] = q]
        \/ p.op # "block" /\ req' = [req EXCEPT ![r] = b]
    BY <1>11 DEF Untopic, Step
  <2>7. CASE p.op = "block" /\ req' = [req EXCEPT ![r] = q]
    BY <2>2, <2>4, <2>7 DEF Moves
  <2>8. CASE p.op # "block" /\ req' = [req EXCEPT ![r] = b]
    BY <2>3, <2>5, <2>8 DEF Moves
  <2> QED BY <2>6, <2>7, <2>8, EndMoves
<1>12. CASE Deny(r)
  <2> DEFINE q == [p EXCEPT !.at = "untopic", !.gone = {Who(r)}]
  <2>1. p.at = "deny" /\ p.bots = {}
    BY <1>12 DEF Deny, At, Shaped
  <2>2. Who(r) \in Person
    BY <2>1, WhoType
  <2>3. q \in Pending /\ q.at = "untopic" /\ q.op = p.op /\ q.who = p.who /\ q.by = p.by
        /\ q.gone = {Who(r)} /\ q.bots = p.bots
    BY <1>0, <2>2 DEF Pending, Stage
  <2>4. p.op = "block" => Shaped(q)
    BY <2>1, <2>3 DEF Shaped, Goes, Touched, Who
  <2>5. Done(r) \/ (p.op = "block" /\ req' = [req EXCEPT ![r] = q])
    BY <1>12 DEF Deny
  <2> QED BY <2>3, <2>4, <2>5, EndMoves DEF Moves
<1>13. CASE Entitled(r)
  <2> DEFINE q == [p EXCEPT !.at = "hand"]
  <2>1. p.at = "entitled" /\ p.op = "transfer" /\ p.by \in Person \ {p.who} /\ p.bots = {}
    BY <1>13 DEF Entitled, At, Shaped, Goes
  <2>2. q \in Pending /\ q.at = "hand" /\ q.op = p.op /\ q.who = p.who /\ q.by = p.by
        /\ q.bots = p.bots
    BY <1>0 DEF Pending, Stage
  <2>3. Shaped(q)
    BY <2>1, <2>2 DEF Shaped, Goes
  <2>4. Done(r) \/ req' = [req EXCEPT ![r] = q]
    BY <1>13 DEF Entitled, Step
  <2> QED BY <2>2, <2>3, <2>4, EndMoves DEF Moves
<1> QED BY <1>1, <1>2, <1>3, <1>4, <1>5, <1>6, <1>7, <1>8, <1>9, <1>10, <1>11, <1>12, <1>13
        DEF Acts

\* Nothing else happens to the requests.
LEMMA MovesType ==
    ASSUME GroupTypeOK, NEW r \in Request, \A s \in Request : Shaped(req[s]), Moves(r)
    PROVE  /\ RequestsTyped' /\ \A s \in Request : Shaped(req[s])'
           /\ \A s \in Request \ {r} : req'[s] = req[s]
           /\ \/ req'[r] = Idle
              \/ /\ req'[r].op = req[r].op /\ req'[r].who = req[r].who /\ req'[r].by = req[r].by
                 /\ req'[r].at # "idle"
<1>1. PICK q \in Pending :
         /\ Shaped(q) /\ req' = [req EXCEPT ![r] = q]
         /\ \/ q = Idle
            \/ q.op = req[r].op /\ q.who = req[r].who /\ q.by = req[r].by /\ q.at # "idle"
  BY DEF Moves
<1>2. req'[r] = q /\ \A s \in Request \ {r} : req'[s] = req[s]
  BY <1>1 DEF GroupTypeOK
<1>3. q.at \notin {"idle", "disband"} => q.who \in Person
  <2> SUFFICES ASSUME q.at \notin {"idle", "disband"} PROVE q.who \in Person
    OBVIOUS
  <2>1. q.op = req[r].op /\ q.who = req[r].who /\ Goes(q.op, q.at) /\ Goes(req[r].op, req[r].at)
    BY <1>1, IdleType DEF Shaped
  <2>2. req[r].at \notin {"idle", "disband"}
    BY <2>1 DEF Goes
  <2> QED BY <2>1, <2>2, WhoType DEF Who
<1>4. RequestsTyped'
  BY <1>1, <1>3, BecomesType
<1>5. \A s \in Request : Shaped(req[s])'
  BY <1>1, <1>2 DEF Shaped, Goes, Touched, BotsOf
<1> QED BY <1>1, <1>2, <1>4, <1>5

LEMMA ConcernsType ==
    ASSUME GroupTypeOK, NEW r \in Request
    PROVE  Concerns(req[r]) \subseteq Person
BY ConcernsArePersons DEF GroupTypeOK, Pending

\* What a handler writes is a table, and lists of users.
LEMMA ActType ==
    ASSUME GroupTypeOK, NEW r \in Request, \A s \in Request : Shaped(req[s]), Acts(r)
    PROVE  GroupTypeOK'
<1>1. RequestsTyped' /\ Moves(r)
  BY ActMoves, MovesType
<1>2. Who(r) \in Person \/ req[r].at \in {"idle", "disband"}
  BY WhoType
<1>4. CASE Look(r) \/ Own(r) \/ Heir(r) \/ Target(r) \/ Entitled(r) \/ Check(r)
  BY <1>1, <1>4
     DEF GroupTypeOK, RequestsTyped, Look, Own, Heir, Target, Entitled, Check, im, disbanding
<1>5. CASE Revive(r) \/ Quit(r) \/ Deny(r) \/ Undeny(r) \/ Hold(r)
  BY <1>1, <1>2, <1>5
     DEF GroupTypeOK, RequestsTyped, Revive, Quit, Deny, Undeny, Hold, im, disbanding, At
<1>6. CASE Subscribe(r) \/ Topics(r)
  BY <1>1, <1>2, <1>6, GroupsAssumption
     DEF GroupTypeOK, RequestsTyped, Subscribe, Topics, Lost, disbanding, At
<1>7. CASE Unsubscribe(r) \/ Untopic(r)
  <2>1. req[r].gone \subseteq Person
    BY DEF GroupTypeOK, Pending
  <2> QED BY <1>1, <1>7, <2>1, GroupsAssumption
          DEF GroupTypeOK, RequestsTyped, Unsubscribe, Untopic, Lost, disbanding
<1>8. CASE Close(r) \/ Fail(r)
  <2>1. UNION {Concerns(req[q]) : q \in Request} \subseteq Person
    BY ConcernsType
  <2>2. unsure' \subseteq Person
    BY <1>8, <2>1, ConcernsType DEF GroupTypeOK, Close, Fail
  <2>3. faults' \in 0..MaxFaults
    BY <1>8, GroupsAssumption DEF GroupTypeOK, Close, Fail
  <2> QED BY <1>1, <1>8, <2>2, <2>3 DEF GroupTypeOK, RequestsTyped, Close, Fail, im, disbanding
<1>9. ASSUME member' \in [Person -> Member], contested' \in BOOLEAN,
             UNCHANGED <<im, disbanding, unsure, muffled, begun, faults>>
      PROVE  GroupTypeOK'
  BY <1>1, <1>9 DEF GroupTypeOK, RequestsTyped, im, disbanding
<1>10. CASE Write(r)
  <2>1. Who(r) \in Person
    BY <1>2, <1>10 DEF Write, At
  <2>2. member' \in [Person -> Member]
    BY <1>10, <2>1, JoinedType DEF Write, GroupTypeOK
  <2>3. contested' \in BOOLEAN
    BY <1>10 DEF Write, GroupTypeOK, IsCreator, IsActive
  <2> QED BY <1>9, <1>10, <2>2, <2>3 DEF Write
<1>11. CASE Commit(r)
  <2>1. Who(r) \in Person
    BY <1>2, <1>11 DEF Commit, At
  <2>2. member' \in [Person -> Member] /\ contested' \in BOOLEAN
    BY <1>11, <2>1, JoinedType DEF Commit, GroupTypeOK
  <2> QED BY <1>9, <1>11, <2>2 DEF Commit
<1>12. CASE Leave(r)
  <2>1. req[r].heir \in Person \cup {Nobody}
    BY DEF GroupTypeOK, Pending
  <2>2. member' \in [Person -> Member]
    <3>1. PICK table \in [Person -> Member] : member' = Appointed(table, req[r].heir, "creator")
      BY <1>12, DeletedType DEF Leave
    <3> QED BY <2>1, <3>1, AppointedType
  <2>3. contested' \in BOOLEAN
    BY <1>12 DEF Leave, GroupTypeOK
  <2> QED BY <1>9, <1>12, <2>2, <2>3 DEF Leave
<1>13. CASE Delete(r)
  <2>1. member' \in [Person -> Member]
    BY <1>13, DeletedType DEF Delete
  <2>2. contested' \in BOOLEAN
    BY <1>13 DEF Delete, GroupTypeOK
  <2> QED BY <1>9, <1>13, <2>1, <2>2 DEF Delete
<1>14. CASE Hand(r)
  <2>1. Who(r) \in Person /\ req[r].by \in Person \cup {Nobody}
    BY <1>2, <1>14 DEF Hand, At, GroupTypeOK, Pending
  <2>2. Appointed(member, req[r].by, "common") \in [Person -> Member]
    BY <2>1, AppointedType DEF GroupTypeOK
  <2>3. member' \in [Person -> Member]
    <3> DEFINE table == Appointed(member, req[r].by, "common")
    <3>1. member' = table
          \/ member' = [table EXCEPT ![Who(r)].role = "creator", ![Who(r)].muted = FALSE]
      BY <1>14 DEF Hand
    <3> HIDE DEF table
    <3> QED BY <2>1, <2>2, <3>1 DEF Member, table
  <2>4. contested' \in BOOLEAN
    BY <1>14 DEF Hand, GroupTypeOK, IsCreator, IsActive
  <2> QED BY <1>9, <1>14, <2>3, <2>4 DEF Hand
<1>15. CASE SetRole(r)
  <2>1. Who(r) \in Person
    BY <1>2, <1>15 DEF SetRole, At
  <2>2. member' \in [Person -> Member]
    BY <1>15, <2>1, AppointedType DEF SetRole, GroupTypeOK
  <2>3. contested' \in BOOLEAN
    BY <1>15 DEF SetRole, GroupTypeOK, IsCreator, IsActive
  <2> QED BY <1>9, <1>15, <2>2, <2>3 DEF SetRole
<1>16. CASE Mark(r)
  <2>1. Who(r) \in Person
    BY <1>2, <1>16 DEF Mark, At
  <2>2. member' \in [Person -> Member]
    <3>1. PICK b \in BOOLEAN : member' = [member EXCEPT ![Who(r)].black = b]
      BY <1>16 DEF Mark
    <3> QED BY <2>1, <3>1 DEF GroupTypeOK, Member
  <2> QED BY <1>9, <1>16, <2>2 DEF Mark, GroupTypeOK
<1>17. CASE Rewrite(r)
  <2>1. Who(r) \in Person /\ req[r].seen \in Member
    BY <1>2, <1>17 DEF Rewrite, At, GroupTypeOK, Pending
  <2>2. member' \in [Person -> Member]
    BY <1>17, <2>1 DEF Rewrite, Rewritten, GroupTypeOK, Member
  <2>3. contested' \in BOOLEAN
    BY <1>17 DEF Rewrite, GroupTypeOK
  <2> QED BY <1>9, <1>17, <2>2, <2>3 DEF Rewrite
<1> QED BY <1>4, <1>5, <1>6, <1>7, <1>8, <1>10, <1>11, <1>12, <1>13, <1>14, <1>15, <1>16, <1>17
        DEF Acts

LEMMA BegunIs ==
    ASSUME GroupTypeOK, NEW r \in Request, \A s \in Request : Shaped(req[s]), Begun(r)
    PROVE  /\ GroupTypeOK' /\ \A s \in Request : Shaped(req[s])'
           /\ req[r].at = "idle" /\ Fresh(req'[r]) /\ \A s \in Request \ {r} : req'[s] = req[s]
           /\ unsure' = unsure \cup (Concerns(req'[r]) \cap UNION {Concerns(req[s]) : s \in Request})
           /\ UNCHANGED <<member, im, disbanding, muffled, contested, faults>>
<1>1. PICK q : Fresh(q) /\ Begin(r, q)
  BY DEF Begun
<1>2. q \in Pending /\ Shaped(q) /\ (q.at = "disband" \/ q.who \in Person)
  BY <1>1 DEF Fresh
<1>3. Concerns(q) \subseteq Person
  BY <1>2, ConcernsArePersons DEF Pending
<1>4. RequestsTyped' /\ begun' \in 0..MaxBegun /\ unsure' \subseteq Person
  BY <1>1, <1>2, <1>3, BegunType
<1>5. UNCHANGED <<member, im, disbanding, muffled, contested, faults>>
  BY DEF Begun
<1>6. GroupTypeOK'
  BY <1>4, <1>5 DEF GroupTypeOK, RequestsTyped, im, disbanding
<1>7. req'[r] = q /\ \A s \in Request \ {r} : req'[s] = req[s]
  BY <1>1 DEF Begin, GroupTypeOK
<1>8. \A s \in Request : Shaped(req[s])'
  BY <1>2, <1>7 DEF Shaped, Goes, Touched, BotsOf
<1>9. /\ req[r].at = "idle"
      /\ unsure' = unsure \cup (Concerns(q) \cap UNION {Concerns(req[s]) : s \in Request})
  BY <1>1 DEF Begin, At
<1> QED BY <1>1, <1>5, <1>6, <1>7, <1>8, <1>9

\* What the handler of the disband event does, or leaves undone.
Cleans == DelChannel \/ DelThreads \/ CrashEvent

LEMMA CleansType ==
    ASSUME GroupTypeOK, Cleans
    PROVE  GroupTypeOK' /\ UNCHANGED req
<1>1. UNCHANGED <<live, member, denied, req, muffled, contested, begun>>
  BY DEF Cleans, DelChannel, DelThreads, CrashEvent, im
<1>2. channel' \subseteq Person /\ topic' \subseteq Person /\ unsure' \subseteq Person
  BY DEF GroupTypeOK, Cleans, DelChannel, DelThreads, CrashEvent, Lost, im
<1>3. event' \in {"none", "wait", "failed", "done"} /\ cleaning' \in BOOLEAN
  BY DEF GroupTypeOK, Cleans, DelChannel, DelThreads, CrashEvent
<1>4. faults' \in 0..MaxFaults
  BY GroupsAssumption DEF GroupTypeOK, Cleans, DelChannel, DelThreads, CrashEvent, Lost
<1> QED BY <1>1, <1>2, <1>3, <1>4 DEF GroupTypeOK

LEMMA Steps ==
    ASSUME GroupTypeOK, [GroupNext]_groupVars
    PROVE  \/ \E r \in Request : Begun(r) \/ Acts(r)
           \/ Cleans \/ UNCHANGED groupVars
<1>1. ASSUME NEW r \in Request, NEW u \in Person,
             \/ Add(r, u) \/ Invite(r, u) \/ Scan(r, u) \/ Exit(r, u) \/ Kick(r, u)
             \/ Block(r, u) \/ Mute(r, u) \/ Expire(r, u) \/ Disband(r)
             \/ \E a \in Person : Transfer(r, a, u) \/ Promote(r, a, u) \/ Demote(r, a, u)
      PROVE  Begun(r)
  BY <1>1, Beginnings
<1>2. Founder \in Person
  BY GroupsAssumption
<1> QED BY <1>1, <1>2 DEF GroupNext, Acts, Cleans

Orderly == GroupTypeOK /\ \A r \in Request : Shaped(req[r])

LEMMA OrderlyInit == GroupInit => Orderly
<1>1. Shaped(Idle)
  BY DEF Shaped, Goes, Idle
<1> QED BY <1>1, InitType DEF Orderly, GroupInit

LEMMA OrderlyStays == Orderly /\ [GroupNext]_groupVars => Orderly'
<1> SUFFICES ASSUME Orderly, [GroupNext]_groupVars PROVE Orderly'
  OBVIOUS
<1> USE DEF Orderly
<1>1. ASSUME NEW r \in Request, Begun(r) PROVE Orderly'
  BY <1>1, BegunIs
<1>2. ASSUME NEW r \in Request, Acts(r) PROVE Orderly'
  BY <1>2, ActType, ActMoves, MovesType
<1>3. CASE Cleans
  BY <1>3, CleansType DEF Shaped, Goes, Touched, BotsOf
<1>4. CASE UNCHANGED groupVars
  BY <1>4 DEF groupVars, GroupTypeOK, Shaped, Goes, Touched, BotsOf
<1> QED BY <1>1, <1>2, <1>3, <1>4, Steps

\* Every state of the group has the types of GroupTypeOK.
THEOREM TypeCorrect == GroupSpec => []GroupTypeOK
<1>1. Orderly => GroupTypeOK
  BY DEF Orderly
<1> QED BY <1>1, OrderlyInit, OrderlyStays, PTL DEF GroupSpec

-----------------------------------------------------------------------------
(* A request that is served touches the user it is about, and that user's robots only *)
(* where it takes them along. *)

Reach(r) ==
    IF req[r].at \in {"leave", "delete", "unsubscribe", "untopic"}
    THEN Touched(Who(r)) ELSE {Who(r)}

\* What a step leaves of a user it is not about: a transfer changes the role of the creator
\* that hands the group over, and a creator that leaves that of its heir.
Spared(r, u) ==
    /\ member'[u].row = member[u].row
    /\ member'[u].black = member[u].black /\ member'[u].muted = member[u].muted
    /\ \/ member'[u].role = member[u].role
       \/ IsActive(u) /\ (member'[u].role = "creator" \/ u = req[r].by)
    /\ (u \in channel' <=> u \in channel) /\ (u \in topic' <=> u \in topic)
    /\ (u \in denied' <=> u \in denied) /\ (u \in muffled => u \in muffled')

Frame(r) ==
    /\ unsure \subseteq unsure' /\ (live' => live)
    /\ \A u \in Person \ Reach(r) : Spared(r, u)

LEMMA ActFrame ==
    ASSUME Orderly, NEW r \in Request, Acts(r)
    PROVE  Frame(r)
<1> USE DEF Frame, Spared
<1>1. Who(r) \in Reach(r)
  BY DEF Reach, Touched
<1>2. CASE \/ Look(r) \/ Own(r) \/ Heir(r) \/ Target(r) \/ Entitled(r) \/ Check(r)
           \/ Revive(r) \/ Close(r) \/ Fail(r)
  BY <1>2 DEF Look, Own, Heir, Target, Entitled, Check, Revive, Close, Fail, im, disbanding
<1>3. CASE Quit(r) \/ Deny(r) \/ Undeny(r) \/ Hold(r) \/ Subscribe(r) \/ Topics(r)
  BY <1>1, <1>3 DEF Quit, Deny, Undeny, Hold, Subscribe, Topics, Lost, im, disbanding
<1>4. CASE Unsubscribe(r) \/ Untopic(r)
  <2>1. req[r].gone \subseteq Reach(r)
    BY <1>4 DEF Orderly, Shaped, Reach, Unsubscribe, Untopic, At, Who, Touched
  <2> QED BY <1>4, <2>1 DEF Unsubscribe, Untopic, Lost, disbanding
<1>5. CASE Write(r) \/ Commit(r)
  BY <1>1, <1>5 DEF Write, Commit, Joined, im, disbanding, Orderly, GroupTypeOK
<1>6. CASE Leave(r)
  <2>1. PICK bots \in SUBSET BotsOf(Who(r)) :
           member' = Appointed(Deleted({Who(r)} \cup bots), req[r].heir, "creator")
    BY <1>6 DEF Leave, Cascaded
  <2>2. \A u \in Person \ Reach(r) : u \notin {Who(r)} \cup bots
    BY <1>6, <2>1 DEF Leave, At, Reach, Touched
  <2>3. ASSUME NEW u \in Person \ Reach(r)
        PROVE  /\ member'[u].row = member[u].row
               /\ member'[u].black = member[u].black /\ member'[u].muted = member[u].muted
               /\ \/ member'[u].role = member[u].role
                  \/ IsActive(u) /\ member'[u].role = "creator"
    <3>1. Deleted({Who(r)} \cup bots)[u] = member[u]
      BY <2>2, <2>3 DEF Deleted
    <3>2. member[u] \in Member
      BY DEF Orderly, GroupTypeOK
    <3>3. Deleted({Who(r)} \cup bots) \in [Person -> Member]
      BY DeletedType DEF Orderly
    <3> QED BY <2>1, <3>1, <3>2, <3>3 DEF Appointed, Member
  <2> QED BY <1>6, <2>3 DEF Leave, im, disbanding
<1>7. CASE Delete(r)
  <2>1. \A u \in Person \ Reach(r) : u \notin {Who(r)} \cup Cascaded(Who(r))
    BY <1>7 DEF Delete, At, Reach, Touched, Cascaded
  <2> QED BY <1>7, <2>1 DEF Delete, Deleted, im, disbanding
<1>8. CASE Hand(r)
  <2> DEFINE stepped == Appointed(member, req[r].by, "common")
  <2>1. \A u \in Person : /\ stepped[u].row = member[u].row
                          /\ stepped[u].black = member[u].black /\ stepped[u].muted = member[u].muted
                          /\ \/ stepped[u].role = member[u].role
                             \/ IsActive(u) /\ u = req[r].by
    BY DEF Appointed, Orderly, GroupTypeOK, Member
  <2>2. stepped \in [Person -> Member]
    BY AppointedType DEF Orderly, GroupTypeOK, Pending
  <2>3. \A u \in Person \ {Who(r)} : member'[u] = stepped[u]
    <3> HIDE DEF stepped
    <3>1. \/ member' = stepped
          \/ member' = [stepped EXCEPT ![Who(r)].role = "creator", ![Who(r)].muted = FALSE]
      BY <1>8 DEF Hand, stepped
    <3> QED BY <2>2, <3>1
  <2> HIDE DEF stepped
  <2>4. UNCHANGED <<channel, topic, denied, live, unsure, muffled>>
    BY <1>8 DEF Hand, im, disbanding
  <2> QED BY <1>1, <2>1, <2>3, <2>4
<1>9. CASE SetRole(r) \/ Mark(r) \/ Rewrite(r)
  BY <1>1, <1>9 DEF SetRole, Mark, Rewrite, Appointed, im, disbanding, Orderly, GroupTypeOK
<1> QED BY <1>2, <1>3, <1>4, <1>5, <1>6, <1>7, <1>8, <1>9 DEF Acts

-----------------------------------------------------------------------------
(* Two requests about the same user are noted, and an invitation that is being accepted *)
(* holds the group's rows. *)

Exclusive ==
    \A r, s \in Request : r # s => Concerns(req[r]) \cap Concerns(req[s]) \subseteq unsure

Locked ==
    \A r \in Request : At(r, "commit") =>
        ~IsActive(Who(r)) /\ \A s \in Request : At(s, "commit") => s = r

LEMMA Surer ==
    ASSUME Orderly, Cleans \/ UNCHANGED groupVars \/ \E r \in Request : Begun(r) \/ Acts(r)
    PROVE  unsure \subseteq unsure'
<1>1. CASE Cleans
  BY <1>1 DEF Cleans, DelChannel, DelThreads, CrashEvent, Lost, Orderly, GroupTypeOK
<1>2. CASE UNCHANGED groupVars
  BY <1>2 DEF groupVars
<1>3. ASSUME NEW r \in Request, Begun(r) PROVE unsure \subseteq unsure'
  BY <1>3, BegunIs DEF Orderly
<1>4. ASSUME NEW r \in Request, Acts(r) PROVE unsure \subseteq unsure'
  BY <1>4, ActFrame DEF Frame
<1> QED BY <1>1, <1>2, <1>3, <1>4

LEMMA MovesConcern ==
    ASSUME Orderly, NEW r \in Request, Acts(r)
    PROVE  Concerns(req'[r]) \subseteq Concerns(req[r])
<1>1. Concerns(Idle) = {}
  BY DEF Concerns, Idle
<1> QED BY <1>1, ActMoves, MovesType DEF Orderly, Concerns

LEMMA ExclusiveStays ==
    ASSUME Orderly, Exclusive, [GroupNext]_groupVars
    PROVE  Exclusive'
<1> USE DEF Exclusive
<1>0. \A q : Concerns(q)' = Concerns(q')
  BY DEF Concerns, Touched, BotsOf
<1>1. ASSUME NEW r \in Request, Begun(r) PROVE Exclusive'
  <2>1. /\ \A s \in Request \ {r} : req'[s] = req[s]
        /\ unsure' = unsure \cup (Concerns(req'[r])
                                    \cap UNION {Concerns(req[s]) : s \in Request})
    BY <1>1, BegunIs DEF Orderly
  <2>2. \A s \in Request \ {r} : Concerns(req'[r]) \cap Concerns(req'[s]) \subseteq unsure'
    BY <2>1
  <2> QED BY <2>1, <2>2 DEF Concerns, Touched, BotsOf
<1>2. ASSUME NEW r \in Request, Acts(r) PROVE Exclusive'
  <2>1. /\ unsure \subseteq unsure' /\ Concerns(req'[r]) \subseteq Concerns(req[r])
        /\ \A s \in Request \ {r} : req'[s] = req[s]
    BY <1>2, ActFrame, ActMoves, MovesType, MovesConcern DEF Orderly, Frame
  <2>2. \A s \in Request \ {r} : Concerns(req'[r]) \cap Concerns(req'[s]) \subseteq unsure'
    BY <2>1
  <2> QED BY <2>1, <2>2 DEF Concerns, Touched, BotsOf
<1>3. CASE Cleans \/ UNCHANGED groupVars
  <2>1. UNCHANGED req /\ unsure \subseteq unsure'
    BY <1>3, CleansType, Surer DEF Orderly, groupVars
  <2> QED BY <2>1 DEF Concerns, Touched, BotsOf
<1> QED BY <1>1, <1>2, <1>3, Steps DEF Orderly

LEMMA LockedStays ==
    ASSUME Orderly, Locked, [GroupNext]_groupVars
    PROVE  Locked'
<1> USE DEF Locked, At, Who, IsActive
<1>1. ASSUME NEW r \in Request, Begun(r) PROVE Locked'
  <2>1. /\ \A s \in Request \ {r} : req'[s] = req[s]
        /\ req'[r].at # "commit" /\ member' = member
    BY <1>1, BegunIs DEF Orderly, Fresh, First
  <2> QED BY <2>1
<1>2. ASSUME NEW r \in Request, Acts(r) PROVE Locked'
  <2>1. /\ \A s \in Request \ {r} : req'[s] = req[s]
        /\ Shaped(req[r]) /\ Shaped(req'[r])
        /\ req'[r] = Idle \/ (req'[r].op = req[r].op /\ req'[r].who = req[r].who)
    BY <1>2, ActMoves, MovesType DEF Orderly, Shaped, Touched, BotsOf, Goes
  <2>2. CASE req'[r].at = "commit"
    <3>1. req[r].at \in {"hold", "commit"} /\ req'[r] # Idle
      BY <2>1, <2>2, IdleType DEF Shaped, Goes
    <3>2. ~Done(r)
      BY <3>1 DEF Done, Orderly, GroupTypeOK
    <3>3. Hold(r) /\ ~IsActive(Who(r)) /\ Free /\ member' = member
      BY <1>2, <3>1, <3>2
         DEF Acts, Look, Write, Hold, Commit, Subscribe, Topics, Quit, Own, Heir, Leave, Target,
             Delete, Unsubscribe, Untopic, Entitled, Hand, Check, SetRole, Mark, Revive, Rewrite,
             Deny, Undeny, Close, Fail
    <3> QED BY <2>1, <2>2, <3>1, <3>3 DEF Free
  <2>3. CASE req'[r].at # "commit"
    <3>1. SUFFICES ASSUME NEW s \in Request, req'[s].at = "commit"
                   PROVE  member' = member
      BY <2>1, <2>3
    <3>2. s # r /\ req[s].at = "commit" /\ req[r].at # "commit" /\ ~Free
      BY <2>1, <2>3, <3>1 DEF Free
    <3> QED BY <1>2, <3>2
            DEF Acts, Look, Write, Hold, Commit, Subscribe, Topics, Quit, Own, Heir, Leave, Target,
                Delete, Unsubscribe, Untopic, Entitled, Hand, Check, SetRole, Mark, Revive,
                Rewrite, Deny, Undeny, Close, Fail
  <2> QED BY <2>2, <2>3
<1>3. CASE Cleans \/ UNCHANGED groupVars
  BY <1>3, CleansType
     DEF Orderly, groupVars, Cleans, DelChannel, DelThreads, CrashEvent
<1> QED BY <1>1, <1>2, <1>3, Steps DEF Orderly

-----------------------------------------------------------------------------
(* One creator. *)

Sole == ~contested => \E c \in Person : {u \in Person : IsCreator(u)} = {c}

\* Whoever is the creator stays it, unless a role was contested: the transactions that
\* write roles.
LEMMA CreatorStays ==
    ASSUME Orderly, Locked, NEW r \in Request, Acts(r), NEW c \in Person,
           {u \in Person : IsCreator(u)} = {c}, ~contested'
    PROVE  \E d \in Person : {u \in Person : IsCreator(u)'} = {d}
<1>0. \A u \in Person : IsCreator(u) <=> u = c
  OBVIOUS
<1>a. \A u \in Person : member[u] \in Member
  BY DEF Orderly, GroupTypeOK
<1>b. req[r].at \notin {"idle", "disband"} => Who(r) \in Person
  BY WhoType DEF Orderly
<1> SUFFICES \E d \in Person : \A u \in Person : IsCreator(u)' <=> u = d
  OBVIOUS
<1>1. CASE member' = member
  BY <1>0, <1>1 DEF IsCreator, IsActive
<1>2. CASE Write(r) \/ Commit(r)
  <2>1. member' = member \/ member' = Joined(Who(r))
    BY <1>2 DEF Write, Commit
  <2>2. CASE member' = Joined(Who(r))
    <3>1. Write(r) /\ member' # member => ~IsCreator(Who(r))
      BY DEF Write
    <3>2. Commit(r) => ~IsCreator(Who(r))
      BY DEF Commit, Locked, IsCreator
    <3>3. ~IsCreator(Who(r)) => \A u \in Person : IsCreator(u)' <=> IsCreator(u)
      BY <1>a, <2>2 DEF Joined, IsCreator, IsActive, Orderly, GroupTypeOK, Member
    <3> QED BY <1>0, <1>1, <1>2, <3>1, <3>2, <3>3
  <2> QED BY <1>1, <2>1, <2>2
<1>3. CASE Leave(r)
  <2> DEFINE u == Who(r)
             creates == req[r].seen.role = "creator"
             bots == IF creates THEN {} ELSE Cascaded(u)
             table == Deleted({u} \cup bots)
  <2>1. /\ member' = Appointed(table, req[r].heir, "creator") /\ ~(creates # IsCreator(u))
        /\ creates => req[r].heir \in Heirs
        /\ \A b \in bots : ~IsCreator(b)
    BY <1>3 DEF Leave
  <2>2. \A x \in Person : x \in {u} \cup bots => table[x].row # "active"
    BY <1>a DEF Deleted, Member
  <2>3. \A x \in Person : x \notin {u} \cup bots => table[x] = member[x]
    BY DEF Deleted
  <2>4. table \in [Person -> Member]
    BY DeletedType DEF Orderly
  <2>5. creates => req[r].heir \in Person /\ IsActive(req[r].heir) /\ ~IsCreator(req[r].heir)
    BY <2>1 DEF Heirs, IsCreator
  <2>6. ~creates => req[r].heir = Nobody
    BY <1>3 DEF Leave, At, Orderly, Shaped
  <2>7. bots \subseteq Person
    BY GroupsAssumption DEF Cascaded, BotsOf
  <2>8. u \in Person
    BY <1>3, <1>b DEF Leave, At
  <2>c. creates => bots = {}
    OBVIOUS
  <2> HIDE DEF table, bots, creates, u
  <2>9. CASE creates
    <3>1. u = c
      BY <1>0, <2>1, <2>8, <2>9
    <3>2. req[r].heir # c /\ req[r].heir # Nobody
      BY <1>0, <2>5, <2>9, GroupsAssumption
    <3>3. member' = [table EXCEPT ![req[r].heir].role = "creator"]
      BY <2>1, <2>5, <2>9, <3>2 DEF Appointed
    <3>4. \A x \in Person : IsCreator(x)' <=> x = req[r].heir
      BY <1>0, <1>a, <2>2, <2>3, <2>4, <2>5, <2>9, <2>c, <3>1, <3>2, <3>3
         DEF IsCreator, IsActive, Member
    <3> QED BY <2>5, <2>9, <3>4
  <2>10. CASE ~creates
    <3>1. member' = table
      BY <2>1, <2>6, <2>10, GroupsAssumption DEF Appointed
    <3>2. \A x \in {u} \cup bots : ~IsCreator(x)
      BY <2>1, <2>10
    <3>3. \A x \in Person : IsCreator(x)' <=> IsCreator(x)
      BY <2>2, <2>3, <3>1, <3>2 DEF IsCreator, IsActive
    <3> QED BY <1>0, <3>3
  <2> QED BY <2>9, <2>10
<1>4. CASE Delete(r)
  <2> DEFINE out == {Who(r)} \cup Cascaded(Who(r))
  <2>1. member' = Deleted(out) /\ \A x \in out : ~IsCreator(x)
    BY <1>4 DEF Delete
  <2>2. \A x \in Person : x \in out => Deleted(out)[x].row # "active"
    BY <1>a DEF Deleted, Member
  <2>3. \A x \in Person : x \notin out => Deleted(out)[x] = member[x]
    BY DEF Deleted
  <2> HIDE DEF out
  <2>4. \A x \in Person : IsCreator(x)' <=> IsCreator(x)
    BY <2>1, <2>2, <2>3 DEF IsCreator, IsActive
  <2> QED BY <1>0, <2>4
<1>5. CASE Hand(r)
  <2> DEFINE a == req[r].by  u == Who(r)
  <2>1. IsCreator(a) /\ IsActive(u) /\ u \in Person /\ a \in Person /\ a # u
    BY <1>5, <1>b DEF Hand, At, Orderly, Shaped, Who
  <2>2. a # Nobody /\ IsActive(a) /\ a = c
    BY <1>0, <2>1, GroupsAssumption DEF IsCreator
  <2>3. member' = [[member EXCEPT ![a].role = "common"]
                     EXCEPT ![u].role = "creator", ![u].muted = FALSE]
    BY <1>5, <2>1, <2>2 DEF Hand, Appointed
  <2>4. \A x \in Person : IsCreator(x)' <=> x = u
    BY <1>0, <1>a, <2>1, <2>2, <2>3 DEF IsCreator, IsActive, Orderly, GroupTypeOK, Member
  <2> QED BY <2>1, <2>4
<1>6. CASE SetRole(r) \/ Mark(r)
  <2>1. Who(r) \in Person
    BY <1>6, <1>b DEF SetRole, Mark, At
  <2>2. CASE SetRole(r)
    <3>1. ~IsCreator(Who(r))
      BY <2>2 DEF SetRole
    <3>2. PICK role \in {"manager", "common"} : member' = Appointed(member, Who(r), role)
      BY <2>2 DEF SetRole
    <3>3. \A x \in Person : IsCreator(x)' <=> IsCreator(x)
      BY <1>a, <2>1, <3>1, <3>2
         DEF Appointed, IsCreator, IsActive, Orderly, GroupTypeOK, Member
    <3> QED BY <1>0, <3>3
  <2>3. CASE Mark(r)
    <3>1. \A x \in Person : IsCreator(x)' <=> IsCreator(x)
      BY <1>a, <2>1, <2>3 DEF Mark, IsCreator, IsActive, Orderly, GroupTypeOK, Member
    <3> QED BY <1>0, <3>1
  <2> QED BY <1>6, <2>2, <2>3
<1>7. CASE Rewrite(r)
  <2>1. Who(r) \in Person /\ req[r].seen \in Member
    BY <1>7, <1>b DEF Rewrite, At, Orderly, GroupTypeOK, Pending
  <2>2. \A x \in Person : IsCreator(x)' <=> IsCreator(x)
    BY <1>a, <1>7, <2>1 DEF Rewrite, Rewritten, IsCreator, IsActive, Orderly, GroupTypeOK, Member
  <2> QED BY <1>0, <2>2
<1>8. \/ Write(r) \/ Commit(r) \/ Leave(r) \/ Delete(r) \/ Hand(r) \/ SetRole(r) \/ Mark(r)
      \/ Rewrite(r) \/ member' = member
  BY DEF Acts, Look, Hold, Subscribe, Topics, Quit, Own, Heir, Target, Unsubscribe, Untopic,
         Entitled, Check, Revive, Deny, Undeny, Close, Fail
<1> QED BY <1>1, <1>2, <1>3, <1>4, <1>5, <1>6, <1>7, <1>8

LEMMA SoleStays ==
    ASSUME Orderly, Locked, Sole, [GroupNext]_groupVars
    PROVE  Sole'
<1>1. ASSUME NEW r \in Request, Acts(r) PROVE Sole'
  <2>1. contested => contested'
    BY <1>1
       DEF Acts, Look, Write, Hold, Commit, Subscribe, Topics, Quit, Own, Heir, Leave, Target,
           Delete, Unsubscribe, Untopic, Entitled, Hand, Check, SetRole, Mark, Revive, Rewrite,
           Deny, Undeny, Close, Fail
  <2> QED BY <1>1, <2>1, CreatorStays DEF Sole
<1>2. ASSUME NEW r \in Request, Begun(r) PROVE Sole'
  BY <1>2 DEF Begun, Sole, IsCreator, IsActive
<1>3. CASE Cleans \/ UNCHANGED groupVars
  BY <1>3 DEF Sole, IsCreator, IsActive, Cleans, DelChannel, DelThreads, CrashEvent, groupVars
<1> QED BY <1>1, <1>2, <1>3, Steps DEF Orderly

LEMMA OneCreatorInit == GroupInit => Exclusive /\ Locked /\ Sole
<1> SUFFICES ASSUME GroupInit PROVE Exclusive /\ Locked /\ Sole
  OBVIOUS
<1>1. Concerns(Idle) = {} /\ Idle.at = "idle"
  BY DEF Concerns, Idle
<1>2. \A u \in Person : IsCreator(u) <=> u = Founder
  BY GroupsAssumption DEF GroupInit, IsCreator, IsActive, Absent
<1>3. {u \in Person : IsCreator(u)} = {Founder} /\ Founder \in Person
  BY <1>2, GroupsAssumption
<1> QED BY <1>1, <1>3 DEF GroupInit, Exclusive, Locked, Sole, At

\* The group has one creator, as long as no role was written on what was true no longer and
\* the creator left somebody to succeed it: transferGrouper, groupExit, managerAdd,
\* managerRemove, RemoveGroupMembers and UpdateMember.
THEOREM OneCreatorHolds == GroupSpec => []OneCreator
<1>1. Sole => OneCreator
  <2> SUFFICES ASSUME Sole, ~contested PROVE Cardinality({u \in Person : IsCreator(u)}) = 1
    BY DEF OneCreator
  <2> QED BY FS_Singleton DEF Sole
<1>2. GroupInit => Orderly /\ Locked /\ Sole
  BY OrderlyInit, OneCreatorInit
<1>3. Orderly /\ Locked /\ Sole /\ [GroupNext]_groupVars => (Orderly /\ Locked /\ Sole)'
  BY OrderlyStays, LockedStays, SoleStays
<1> QED BY <1>1, <1>2, <1>3, PTL DEF GroupSpec

-----------------------------------------------------------------------------
(* What a request that has not been overlapped may rely on: what it read is still true. *)

\* The user and all its robots are in doubt.
Doubted(u) == Touched(u) \subseteq unsure

\* The stages in which the user is about to be subscribed.
Subscribing(q) ==
    q.at \in {"subscribe", "topics"} \/ (q.at = "undeny" /\ q.op = "unblock")

\* The row it has read ...
KnowsRow(q) ==
    ~Doubted(q.who) =>
        /\ q.at = "rewrite" =>
              /\ q.seen.row = member[q.who].row
              /\ q.seen.row = "deleted" => q.seen.role = member[q.who].role
        /\ q.at \in {"entitled", "hand"} => IsActive(q.who)
        /\ q.at \in {"heir", "leave"} /\ q.seen.role = "creator" =>
              member[q.who].role = "creator"

\* ... and what its own steps have made of the user, and of those it unsubscribes.
KnowsUser(q) ==
    q.who \notin unsure =>
        /\ q.at \in {"look", "write", "hold", "commit"} /\ q.who \in Bot =>
              IsActive(OwnerOf[q.who])
        /\ Subscribing(q) => IsActive(q.who)
        /\ q.op = "exit" /\ q.at # "quit" => q.who \notin channel
        /\ q.op = "block" /\ q.at # "mark" => member[q.who].row = "none" \/ member[q.who].black
        /\ q.at = "commit" /\ live => q.who \in channel
        /\ q.at = "undeny" => ~member[q.who].muted

KnowsGone(q) ==
    q.at \in {"unsubscribe", "untopic"} /\ q.op # "block" =>
        \A u \in (q.gone \cup q.bots) \ unsure : ~IsActive(u)

Known == \A r \in Request : KnowsRow(req[r]) /\ KnowsUser(req[r]) /\ KnowsGone(req[r])

LEMMA IdleKnows == KnowsRow(Idle) /\ KnowsUser(Idle) /\ KnowsGone(Idle)
BY DEF KnowsRow, KnowsUser, KnowsGone, Idle, Subscribing

LEMMA DoneIs ==
    ASSUME Orderly, NEW r \in Request, Done(r)
    PROVE  req'[r] = Idle
BY DEF Done, Orderly, GroupTypeOK

LEMMA StepIs ==
    ASSUME Orderly, NEW r \in Request, NEW at, Step(r, at)
    PROVE  /\ req'[r].at = at /\ req'[r].op = req[r].op /\ req'[r].who = req[r].who
           /\ req'[r].by = req[r].by /\ req'[r].seen = req[r].seen /\ req'[r].heir = req[r].heir
           /\ req'[r].gone = req[r].gone /\ req'[r].bots = req[r].bots
BY DEF Step, Orderly, GroupTypeOK, Pending

\* Those that a request touches it concerns, and with anybody all that user's robots.
LEMMA ReachIsConcern ==
    ASSUME Orderly, NEW r \in Request, NEW u \in Person, u \in Touched(Who(r))
    PROVE  Touched(u) \subseteq Concerns(req[r])
<1>1. Who(r) \in Person
  BY GroupsAssumption DEF Orderly, GroupTypeOK, Pending, Who, Touched, BotsOf
<1>2. Touched(Who(r)) \subseteq Concerns(req[r])
  BY <1>1, GroupsAssumption DEF Concerns, Who
<1>3. Touched(u) \subseteq Touched(Who(r))
  BY <1>1, GroupsAssumption DEF Touched, BotsOf
<1> QED BY <1>2, <1>3

LEMMA ByIsConcern ==
    ASSUME Orderly, NEW r \in Request, req[r].by \in Person
    PROVE  Touched(req[r].by) \subseteq Concerns(req[r])
BY GroupsAssumption DEF Concerns

\* Two requests meet only at users in doubt.
LEMMA Overlap ==
    ASSUME Orderly, Exclusive, NEW r \in Request, NEW s \in Request, r # s,
           NEW u \in Person, u \in Touched(Who(s)), u \in Touched(Who(r)) \/ u = req[r].by
    PROVE  Doubted(u) /\ u \in unsure
<1>1. Touched(u) \subseteq Concerns(req[s])
  BY ReachIsConcern
<1>2. Touched(u) \subseteq Concerns(req[r])
  BY ReachIsConcern, ByIsConcern
<1> QED BY <1>1, <1>2 DEF Exclusive, Doubted, Touched

LEMMA OthersKnow ==
    ASSUME Orderly, Exclusive, Known, NEW r \in Request, Acts(r),
           NEW s \in Request, s # r
    PROVE  (KnowsRow(req[s]) /\ KnowsUser(req[s]) /\ KnowsGone(req[s]))'
<1> DEFINE q == req[s]  u == req[s].who
<1>1. req'[s] = q
  BY ActMoves, MovesType DEF Orderly
<1>2. KnowsRow(q) /\ KnowsUser(q) /\ KnowsGone(q) /\ Frame(r)
  BY ActFrame DEF Known
<1>3. \A x \in Person : x \in Reach(r) => x \in Touched(Who(r))
  BY DEF Reach, Touched
<1>4. ASSUME NEW x \in Person, x \in Touched(u), ~Doubted(x) \/ x \notin unsure
      PROVE  Spared(r, x) /\ x # req[r].by
  BY <1>2, <1>3, <1>4, Overlap DEF Frame, Who
<1>5. \A x : Doubted(x) => Doubted(x)'
  BY <1>2 DEF Doubted, Frame, Touched, BotsOf
<1>6. unsure \subseteq unsure' /\ (live' => live)
  BY <1>2 DEF Frame
<1>7. u \in Touched(u)
  BY DEF Touched
<1>8. q.at \notin {"idle", "disband"} => u \in Person
  BY WhoType DEF Orderly, Who
<1>9. KnowsRow(req[s])'
  <2> SUFFICES ASSUME ~Doubted(u), q.at \in {"rewrite", "entitled", "hand", "heir", "leave"}
               PROVE  KnowsRow(req[s])'
    BY <1>1, <1>5 DEF KnowsRow
  <2>1. Spared(r, u) /\ u # req[r].by /\ u \in Person
    BY <1>4, <1>7, <1>8
  <2> QED BY <1>1, <1>2, <2>1 DEF KnowsRow, Spared, IsActive
<1>10. KnowsUser(req[s])'
  <2> SUFFICES ASSUME u \notin unsure, q.at \notin {"idle", "disband"}
               PROVE  KnowsUser(req[s])'
    <3>1. q.at \in {"idle", "disband"} => q.op \in {"none", "disband"}
      BY DEF Orderly, Shaped, Goes
    <3> QED BY <1>1, <1>6, <3>1 DEF KnowsUser, Subscribing
  <2>1. Spared(r, u) /\ u \in Person
    BY <1>4, <1>7, <1>8
  <2>2. u \in Bot => member'[OwnerOf[u]].row = member[OwnerOf[u]].row
    <3> SUFFICES ASSUME u \in Bot PROVE member'[OwnerOf[u]].row = member[OwnerOf[u]].row
      OBVIOUS
    <3>1. OwnerOf[u] \in Person \ Bot
      BY GroupsAssumption
    <3>2. OwnerOf[u] \notin Reach(r)
      <4>1. SUFFICES ASSUME OwnerOf[u] \in Reach(r) PROVE FALSE
        OBVIOUS
      <4>2. OwnerOf[u] = Who(r)
        BY <1>3, <3>1, <4>1 DEF Touched, BotsOf
      <4>3. u \in Touched(Who(r))
        BY <4>2 DEF Touched, BotsOf
      <4> QED BY <1>7, <2>1, <4>3, Overlap DEF Who
    <3> QED BY <1>2, <3>1, <3>2 DEF Frame, Spared
  <2> QED BY <1>1, <1>2, <1>6, <2>1, <2>2 DEF KnowsUser, Spared, Subscribing, IsActive
<1>11. KnowsGone(req[s])'
  <2> SUFFICES ASSUME q.at \in {"unsubscribe", "untopic"}, q.op # "block",
                      NEW x \in q.gone \cup q.bots, x \notin unsure'
               PROVE  ~IsActive(x)'
    BY <1>1 DEF KnowsGone
  <2>1. x \in Touched(u) /\ x \in Person
    BY DEF Orderly, Shaped, GroupTypeOK, Pending
  <2>2. x \notin unsure /\ ~IsActive(x)
    BY <1>2, <1>6 DEF KnowsGone
  <2> QED BY <1>4, <2>1, <2>2 DEF Spared, IsActive
<1> QED BY <1>9, <1>10, <1>11

LEMMA OwnKnows ==
    ASSUME Orderly, Known, NEW r \in Request, Acts(r)
    PROVE  (KnowsRow(req[r]) /\ KnowsUser(req[r]) /\ KnowsGone(req[r]))'
<1> DEFINE q == req[r]  u == req[r].who  p == req'[r]
<1>1. KnowsRow(q) /\ KnowsUser(q) /\ KnowsGone(q) /\ Shaped(q)
  BY DEF Known, Orderly
<1>2. unsure \subseteq unsure' /\ (live' => live)
  BY ActFrame DEF Frame
<1>3. \A x : Doubted(x) => Doubted(x)'
  BY <1>2 DEF Doubted, Touched, BotsOf
<1>4. q.at \notin {"idle", "disband"} => u \in Person
  BY WhoType DEF Orderly, Who
<1>5. q \in Pending /\ \A x \in Person : member[x] \in Member
  BY DEF Orderly, GroupTypeOK
<1>6. u \in Touched(u) /\ (u \notin unsure => ~Doubted(u))
  BY DEF Touched, Doubted
<1>7. CASE p = Idle
  BY <1>7, IdleKnows DEF KnowsRow, KnowsUser, KnowsGone, Idle, Subscribing
<1>8. ASSUME Done(r) PROVE p = Idle
  BY <1>8, DoneIs
<1>9. CASE Look(r)
  <2>1. p.at = "write" /\ p.op = q.op /\ p.who = u /\ p.op \in {"add", "scan"}
    BY <1>1, <1>5, <1>9 DEF Look, At, Pending, Shaped, Goes, Orderly, GroupTypeOK
  <2>2. member' = member /\ q.at = "look"
    BY <1>9 DEF Look, At
  <2> QED BY <1>1, <1>2, <2>1, <2>2 DEF KnowsRow, KnowsUser, KnowsGone, Subscribing, IsActive
<1>10. CASE Write(r) /\ Step(r, "subscribe")
  <2>1. p.at = "subscribe" /\ p.op = q.op /\ p.who = u /\ p.op \in {"add", "scan"}
    BY <1>1, <1>10, StepIs DEF Write, At, Shaped, Goes
  <2>2. IsActive(u)'
    <3>1. member' = Joined(u) \/ p = Idle
      BY <1>8, <1>10 DEF Write, Who
    <3>2. u \in Person
      BY <1>4, <1>10 DEF Write, At
    <3>3. member'[u].row = "active"
      BY <1>5, <2>1, <3>1, <3>2, IdleType DEF Joined, Orderly, GroupTypeOK, Member
    <3> QED BY <2>1, <3>3 DEF IsActive
  <2> QED BY <2>1, <2>2 DEF KnowsRow, KnowsUser, KnowsGone, Subscribing
<1>11. CASE Hold(r) /\ Step(r, "commit")
  <2>1. p.at = "commit" /\ p.op = q.op /\ p.who = u /\ p.op = "invite" /\ q.at = "hold"
    BY <1>1, <1>11, StepIs DEF Hold, At, Shaped, Goes
  <2>2. member' = member /\ (u \in channel' \/ p = Idle)
    BY <1>8, <1>11 DEF Hold, Who
  <2> QED BY <1>1, <1>2, <2>1, <2>2, IdleType
          DEF KnowsRow, KnowsUser, KnowsGone, Subscribing, IsActive
<1>12. CASE Subscribe(r) /\ Step(r, "topics")
  <2>1. p.at = "topics" /\ p.op = q.op /\ p.who = u /\ p.op \in {"add", "scan", "unblock"}
        /\ q.at = "subscribe"
    BY <1>1, <1>12, StepIs DEF Subscribe, At, Shaped, Goes
  <2>2. member' = member
    BY <1>12 DEF Subscribe
  <2> QED BY <1>1, <1>2, <2>1, <2>2 DEF KnowsRow, KnowsUser, KnowsGone, Subscribing, IsActive
<1>13. CASE Quit(r)
  <2>1. p.at = "own" /\ p.who = u /\ u \notin channel'
    BY <1>13, StepIs DEF Quit, Who
  <2> QED BY <2>1, <1>1, <1>13, StepIs
          DEF KnowsRow, KnowsUser, KnowsGone, Subscribing, Quit, At, Shaped, Goes
<1>14. CASE Own(r) /\ IsActive(Who(r))
  <2>1. /\ p.at \in {"heir", "leave"} /\ p.op = "exit" /\ p.who = u /\ p.seen = member[u]
        /\ q.at = "own" /\ q.op = "exit"
    BY <1>1, <1>5, <1>14 DEF Own, At, Who, Pending, Shaped, Goes, Orderly, GroupTypeOK
  <2>2. UNCHANGED <<member, channel>>
    BY <1>14 DEF Own, im
  <2> QED BY <1>1, <1>2, <2>1, <2>2 DEF KnowsRow, KnowsUser, KnowsGone, Subscribing
<1>15. CASE Heir(r)
  <2>1. /\ p.at = "leave" /\ p.op = "exit" /\ p.who = u /\ p.seen = q.seen
        /\ q.at = "heir" /\ q.op = "exit"
    BY <1>1, <1>5, <1>15 DEF Heir, At, Pending, Shaped, Goes, Orderly, GroupTypeOK
  <2>2. UNCHANGED <<member, channel>>
    BY <1>15 DEF Heir, im
  <2> QED BY <1>1, <1>2, <1>3, <2>1, <2>2 DEF KnowsRow, KnowsUser, KnowsGone, Subscribing
<1>16. CASE Leave(r)
  <2>1. PICK bots \in SUBSET BotsOf(u) :
           /\ req' = [req EXCEPT ![r].at = "untopic", ![r].gone = {u}, ![r].bots = bots]
           /\ member' = Appointed(Deleted({u} \cup bots), q.heir, "creator")
    BY <1>16 DEF Leave, Cascaded, Who
  <2>2. /\ p.at = "untopic" /\ p.op = "exit" /\ p.who = u /\ p.gone = {u} /\ p.bots = bots
        /\ q.at = "leave" /\ q.op = "exit"
    BY <1>1, <1>5, <1>16, <2>1 DEF Leave, At, Pending, Shaped, Goes, Orderly, GroupTypeOK
  <2>3. channel' = channel /\ bots \subseteq Person /\ u \in Person
    BY <1>4, <1>16, <2>2, GroupsAssumption DEF Leave, im, BotsOf
  <2>4. \A x \in {u} \cup bots : member'[x].row # "active"
    <3>1. \A x \in {u} \cup bots : Deleted({u} \cup bots)[x].row # "active"
      BY <1>5, <2>3 DEF Deleted, Member
    <3>2. Deleted({u} \cup bots) \in [Person -> Member]
      BY DeletedType DEF Orderly
    <3> HIDE DEF u
    <3> QED BY <2>1, <2>3, <3>1, <3>2 DEF Appointed, Member
  <2> QED BY <1>1, <1>2, <2>2, <2>3, <2>4
          DEF KnowsRow, KnowsUser, KnowsGone, Subscribing, IsActive
<1>17. CASE Target(r) /\ Step(r, "delete")
  <2>1. p.at = "delete" /\ p.op = "kick"
    BY <1>1, <1>17, StepIs DEF Target, At, Shaped, Goes
  <2> QED BY <2>1 DEF KnowsRow, KnowsUser, KnowsGone, Subscribing
<1>18. CASE Delete(r)
  <2> DEFINE out == {u} \cup Cascaded(u)
  <2>1. p.at = "unsubscribe" /\ p.op = "kick" /\ p.gone = out /\ p.bots = {}
    BY <1>1, <1>5, <1>18 DEF Delete, At, Who, Pending, Shaped, Goes, Orderly, GroupTypeOK
  <2>2. member' = Deleted(out) /\ out \subseteq Person
    BY <1>4, <1>18, GroupsAssumption DEF Delete, At, Who, Cascaded, BotsOf
  <2>3. \A x \in out : member'[x].row # "active"
    BY <1>5, <2>2 DEF Deleted, Member
  <2> QED BY <2>1, <2>3 DEF KnowsRow, KnowsUser, KnowsGone, Subscribing, IsActive
<1>19. CASE Unsubscribe(r) /\ Step(r, "untopic")
  <2>1. /\ p.at = "untopic" /\ p.op = q.op /\ p.who = u /\ p.gone = q.gone /\ p.bots = q.bots
        /\ q.at = "unsubscribe" /\ q.op \in {"exit", "kick", "block"}
    BY <1>1, <1>19, StepIs DEF Unsubscribe, At, Shaped, Goes
  <2>2. member' = member /\ channel' \subseteq channel
    BY <1>19 DEF Unsubscribe
  <2> QED BY <1>1, <1>2, <2>1, <2>2 DEF KnowsRow, KnowsUser, KnowsGone, Subscribing, IsActive
<1>20. CASE Untopic(r) /\ p # Idle
  <2>1. /\ p.at = "unsubscribe" /\ p.op = q.op /\ p.who = u
        /\ p.gone \cup p.bots \subseteq q.gone \cup q.bots
        /\ q.at = "untopic" /\ q.op \in {"exit", "kick", "block"}
    <3>1. CASE q.op = "block"
      BY <1>8, <1>20, <3>1, StepIs DEF Untopic, At
    <3>2. CASE q.op # "block"
      BY <1>1, <1>5, <1>8, <1>20, <3>2
         DEF Untopic, At, Pending, Shaped, Goes, Orderly, GroupTypeOK
    <3> QED BY <3>1, <3>2
  <2>2. member' = member /\ channel' = channel
    BY <1>20 DEF Untopic
  <2> QED BY <1>1, <1>2, <2>1, <2>2 DEF KnowsRow, KnowsUser, KnowsGone, Subscribing, IsActive
<1>21. CASE Entitled(r) /\ Step(r, "hand")
  <2>1. p.at = "hand" /\ p.op = "transfer" /\ p.who = u /\ q.at = "entitled"
    BY <1>1, <1>21, StepIs DEF Entitled, At, Shaped, Goes
  <2>2. member' = member
    BY <1>21 DEF Entitled
  <2> QED BY <1>1, <1>3, <2>1, <2>2 DEF KnowsRow, KnowsUser, KnowsGone, Subscribing, IsActive
<1>22. CASE Hand(r) /\ Step(r, "undeny")
  <2>1. p.at = "undeny" /\ p.op = "transfer" /\ p.who = u /\ q.at = "hand" /\ u \in Person
    BY <1>1, <1>4, <1>22, StepIs DEF Hand, At, Shaped, Goes
  <2>2. u \notin unsure => member'[u].muted = FALSE
    <3> DEFINE table == Appointed(member, q.by, "common")
    <3>1. table \in [Person -> Member]
      BY <1>5, AppointedType DEF Orderly, GroupTypeOK, Pending
    <3>2. u \notin unsure => IsActive(u)
      BY <1>1, <1>6, <2>1 DEF KnowsRow
    <3>3. IsActive(u) => member' = [table EXCEPT ![u].role = "creator", ![u].muted = FALSE]
      BY <1>22 DEF Hand, Who
    <3> HIDE DEF table
    <3> QED BY <2>1, <3>1, <3>2, <3>3 DEF Member
  <2> QED BY <1>2, <2>1, <2>2 DEF KnowsRow, KnowsUser, KnowsGone, Subscribing
<1>23. CASE Check(r) /\ Step(r, "role")
  <2>1. p.at = "role" /\ p.op = "promote"
    BY <1>1, <1>23, StepIs DEF Check, At, Shaped, Goes
  <2> QED BY <2>1 DEF KnowsRow, KnowsUser, KnowsGone, Subscribing
<1>24. CASE Mark(r)
  <2>1. /\ p.at \in {"deny", "revive"} /\ p.op = q.op /\ p.who = u
        /\ q.op \in {"block", "unblock"} /\ u \in Person
    BY <1>1, <1>4, <1>24, StepIs DEF Mark, At, Shaped, Goes
  <2>2. q.op = "block" => member'[u].row = "none" \/ member'[u].black
    <3>1. member' = [member EXCEPT ![u].black = q.op = "block" /\ member[u].row # "none"]
      BY <1>24 DEF Mark, Who
    <3> QED BY <1>5, <2>1, <3>1 DEF Member, Orderly, GroupTypeOK
  <2> QED BY <2>1, <2>2 DEF KnowsRow, KnowsUser, KnowsGone, Subscribing
<1>25. CASE Revive(r) /\ Step(r, "undeny")
  <2>1. p.at = "undeny" /\ p.op = "unblock" /\ p.who = u
    BY <1>1, <1>25, StepIs DEF Revive, At, Shaped, Goes
  <2>2. member' = member /\ (p = Idle \/ (IsActive(u) /\ ~member[u].muted))
    BY <1>8, <1>25 DEF Revive, Who
  <2> QED BY <2>1, <2>2, IdleType DEF KnowsRow, KnowsUser, KnowsGone, Subscribing, IsActive
<1>26. CASE Rewrite(r) /\ p # Idle
  <2>1. /\ p.op = q.op /\ p.who = u /\ u \in Person /\ q.seen \in Member
        /\ \/ p.at = "deny" /\ p.op = "mute"
           \/ p.at = "undeny" /\ p.op \in {"unmute", "expire"}
    BY <1>4, <1>5, <1>8, <1>26, StepIs DEF Rewrite, At, Pending
  <2>2. member' = [member EXCEPT ![u] = Rewritten(u, q.seen, q.op = "mute")]
    BY <1>26 DEF Rewrite, Who
  <2>3. q.op # "mute" => ~member'[u].muted
    BY <2>1, <2>2 DEF Rewritten, Member, Orderly, GroupTypeOK
  <2> QED BY <2>1, <2>3 DEF KnowsRow, KnowsUser, KnowsGone, Subscribing
<1>27. CASE Deny(r) /\ p # Idle
  <2>1. p.at = "untopic" /\ p.op = "block" /\ p.who = u /\ q.at = "deny" /\ q.op = "block"
    BY <1>5, <1>8, <1>27 DEF Deny, At, Pending, Orderly, GroupTypeOK
  <2>2. member' = member
    BY <1>27 DEF Deny
  <2> QED BY <1>1, <1>2, <2>1, <2>2 DEF KnowsRow, KnowsUser, KnowsGone, Subscribing
<1>28. CASE Undeny(r) /\ p # Idle
  <2>1. /\ p.at = "subscribe" /\ p.op = "unblock" /\ p.who = u
        /\ q.at = "undeny" /\ q.op = "unblock"
    BY <1>8, <1>28, StepIs DEF Undeny, At
  <2>2. member' = member
    BY <1>28 DEF Undeny
  <2> QED BY <1>1, <1>2, <2>1, <2>2 DEF KnowsRow, KnowsUser, KnowsGone, Subscribing, IsActive
<1>29. CASE Commit(r) \/ Topics(r) \/ SetRole(r) \/ Close(r) \/ Fail(r)
  BY <1>7, <1>8, <1>29 DEF Commit, Topics, SetRole, Close, Fail
<1>30. CASE Write(r) \/ Hold(r) \/ Subscribe(r) \/ Target(r) \/ Check(r) \/ Revive(r)
  BY <1>7, <1>8, <1>10, <1>11, <1>12, <1>17, <1>23, <1>25, <1>30
     DEF Write, Hold, Subscribe, Target, Check, Revive
<1>31. CASE Own(r) \/ Unsubscribe(r) \/ Entitled(r) \/ Hand(r)
  BY <1>7, <1>8, <1>14, <1>19, <1>21, <1>22, <1>31 DEF Own, Unsubscribe, Entitled, Hand
<1> QED BY <1>7, <1>9, <1>13, <1>15, <1>16, <1>18, <1>20, <1>24, <1>26, <1>27, <1>28, <1>29,
           <1>30, <1>31
        DEF Acts

-----------------------------------------------------------------------------
(* Where a user nobody doubts stands with the IM server. *)

\* The request is about to unsubscribe the user, or to make it a member.
ChannelDue(q, u) ==
    \/ q.at = "unsubscribe" /\ u \in q.gone
    \/ q.at = "untopic" /\ u \in q.bots
    \/ q.at = "commit" /\ u = q.who

TopicDue(q, u) ==
    \/ q.at = "unsubscribe" /\ q.op # "block" /\ u \in q.gone
    \/ q.at = "untopic" /\ u \in q.gone \cup q.bots

\* It is about to subscribe the user, or to delete it.
Returning(q) ==
    \/ q.at \in {"revive", "subscribe", "own", "heir", "leave"}
    \/ q.at = "undeny" /\ q.op = "unblock"

\* The lists agree with the table, but for what the request q has still to do.
Stands(q, u) ==
    /\ u \in channel => IsActive(u) \/ ChannelDue(q, u)
    /\ u \in topic => IsActive(u) \/ TopicDue(q, u)
    /\ live /\ IsActive(u) /\ ~member[u].black =>
          u \in channel \cup muffled \/ (u = q.who /\ Returning(q))
    /\ member[u].muted => u \in denied \/ (u = q.who /\ q.op = "mute" /\ q.at = "deny")

Placed ==
    \A u \in Person \ unsure :
        /\ \A r \in Request : u \in Concerns(req[r]) => Stands(req[r], u)
        /\ (\A r \in Request : u \notin Concerns(req[r])) => Stands(Idle, u)

LEMMA IdleStands ==
    ASSUME NEW u \in Person, Stands(Idle, u)
    PROVE  \A r : Stands(req[r], u)
BY DEF Stands, Idle, ChannelDue, TopicDue, Returning

LEMMA SparedStands ==
    ASSUME NEW r \in Request, Frame(r), NEW u \in Person \ Reach(r)
    PROVE  /\ \A s \in Request : req'[s] = req[s] /\ Stands(req[s], u) => Stands(req[s], u)'
           /\ Stands(Idle, u) => Stands(Idle, u)'
<1>1. Spared(r, u) /\ (live' => live)
  BY DEF Frame
<1>2. IsActive(u)' = IsActive(u)
  BY <1>1 DEF Spared, IsActive
<1>3. \A s \in Request : req'[s] = req[s] /\ Stands(req[s], u) => Stands(req[s], u)'
  BY <1>1, <1>2 DEF Stands, ChannelDue, TopicDue, Returning, Spared
<1>4. Stands(Idle, u) => Stands(Idle, u)'
  BY <1>1, <1>2 DEF Stands, ChannelDue, TopicDue, Returning, Spared, Idle
<1> QED BY <1>3, <1>4

LEMMA UnreachedStands ==
    ASSUME Orderly, NEW r \in Request, NEW u \in Person \ Reach(r), Stands(req[r], u)
    PROVE  Stands(Idle, u)
<1>1. u # req[r].who
  BY DEF Reach, Touched, Who
<1>2. ~ChannelDue(req[r], u) /\ ~TopicDue(req[r], u)
  BY <1>1 DEF Orderly, Shaped, Reach, Touched, Who, ChannelDue, TopicDue
<1> QED BY <1>1, <1>2 DEF Stands

LEMMA OwnStands ==
    ASSUME Orderly, Known, NEW r \in Request, Acts(r), NEW u \in Person, u \in Reach(r),
           u \notin unsure', Stands(req[r], u)
    PROVE  Stands(req[r], u)'
<1> DEFINE q == req[r]  w == req[r].who  p == req'[r]
<1>1. KnowsRow(q) /\ KnowsUser(q) /\ KnowsGone(q) /\ Shaped(q)
  BY DEF Known, Orderly
<1>2. unsure \subseteq unsure' /\ (live' => live) /\ u \notin unsure
  BY ActFrame DEF Frame
<1>4. q.at \notin {"idle", "disband"} => w \in Person
  BY WhoType DEF Orderly, Who
<1>5. q \in Pending /\ (\A x \in Person : member[x] \in Member) /\ member \in [Person -> Member]
  BY DEF Orderly, GroupTypeOK
<1>6. Doubted(w) => u \in unsure
  BY DEF Doubted, Reach, Touched, Who
<1>7. q.at \notin {"leave", "delete", "unsubscribe", "untopic"} => u = w
  BY DEF Reach, Who
<1>8. ASSUME Done(r)
      PROVE  /\ p = Idle /\ p.at = "idle" /\ p.op = "none"
             /\ ~ChannelDue(p, u) /\ ~TopicDue(p, u) /\ ~Returning(p)
  BY <1>8, DoneIs DEF Idle, ChannelDue, TopicDue, Returning
<1> USE DEF Stands
<1>9. ASSUME UNCHANGED <<member, channel, topic, denied>>, live' => live, muffled \subseteq muffled',
             ~ChannelDue(q, u), ~TopicDue(q, u), (u = w /\ Returning(q)) => (p.who = u /\ Returning(p)),
             q.at # "deny"
      PROVE  Stands(req[r], u)'
  BY <1>9 DEF IsActive, ChannelDue, TopicDue, Returning
<1>10. CASE Look(r) \/ Target(r) \/ Entitled(r) \/ Check(r)
  <2>1. q.at \in {"look", "target", "entitled", "check"}
    BY <1>10 DEF Look, Target, Entitled, Check, At
  <2>2. ~ChannelDue(q, u) /\ ~TopicDue(q, u) /\ ~Returning(q)
    BY <2>1 DEF ChannelDue, TopicDue, Returning
  <2>3. UNCHANGED <<member, channel, topic, denied, live, muffled>>
    BY <1>10 DEF Look, Target, Entitled, Check, im, disbanding
  <2> QED BY <1>9, <2>1, <2>2, <2>3
<1>11. CASE Write(r)
  <2>1. q.at = "write" /\ u = w /\ w \in Person
    BY <1>4, <1>7, <1>11 DEF Write, At
  <2>2. ~ChannelDue(q, u) /\ ~TopicDue(q, u) /\ ~Returning(q)
    BY <2>1 DEF ChannelDue, TopicDue, Returning
  <2>3. UNCHANGED <<channel, topic, denied, live, muffled>>
    BY <1>11 DEF Write, im, disbanding
  <2>4. CASE member' = member
    BY <1>9, <2>1, <2>2, <2>3, <2>4
  <2>5. CASE member' = Joined(w) /\ Step(r, "subscribe")
    <3>1. p.at = "subscribe" /\ p.who = u
      BY <2>1, <2>5, StepIs
    <3>2. Returning(p)
      BY <3>1 DEF Returning
    <3>3. member'[u].row = "active" /\ member'[u].muted = member[u].muted
      BY <1>5, <2>1, <2>5 DEF Joined, Member
    <3> QED BY <2>1, <2>3, <3>1, <3>2, <3>3 DEF IsActive, Returning
  <2> QED BY <1>11, <2>4, <2>5 DEF Write, Who
<1>12. CASE Hold(r)
  <2>1. q.at = "hold" /\ u = w /\ w \in Person
    BY <1>4, <1>7, <1>12 DEF Hold, At
  <2>2. ~ChannelDue(q, u) /\ ~TopicDue(q, u) /\ ~Returning(q)
    BY <2>1 DEF ChannelDue, TopicDue, Returning
  <2>3. UNCHANGED <<member, topic, denied, live>>
    BY <1>12 DEF Hold, disbanding
  <2>4. CASE UNCHANGED <<channel, muffled>>
    BY <1>9, <2>1, <2>2, <2>3, <2>4
  <2>5. CASE channel' = channel \cup {w} /\ Step(r, "commit")
    <3>1. p.at = "commit" /\ p.who = u
      BY <2>1, <2>5, StepIs
    <3>2. ChannelDue(p, u)
      BY <3>1 DEF ChannelDue
    <3> QED BY <2>1, <2>2, <2>3, <2>5, <3>1, <3>2 DEF IsActive, ChannelDue
  <2> QED BY <1>12, <2>4, <2>5 DEF Hold, Who
<1>13. CASE Commit(r)
  <2>1. q.at = "commit" /\ u = w /\ w \in Person
    BY <1>4, <1>7, <1>13 DEF Commit, At
  <2>2. UNCHANGED <<channel, topic, denied, live, muffled>> /\ member' = Joined(w)
    BY <1>13 DEF Commit, im, disbanding, Who
  <2>3. member'[u].row = "active" /\ member'[u].muted = member[u].muted
    BY <1>5, <2>1, <2>2 DEF Joined, Member
  <2>4. live => u \in channel
    BY <1>1, <1>2, <2>1 DEF KnowsUser
  <2> QED BY <2>1, <2>2, <2>3, <2>4 DEF IsActive
<1>14. CASE Subscribe(r)
  <2>1. q.at = "subscribe" /\ u = w
    BY <1>7, <1>14 DEF Subscribe, At
  <2>2. IsActive(u) /\ UNCHANGED <<member, topic, denied, live>> /\ u \in channel'
    BY <1>1, <1>2, <1>14, <2>1 DEF Subscribe, Lost, Who, KnowsUser, Subscribing, disbanding
  <2> QED BY <2>1, <2>2 DEF IsActive
<1>15. CASE Topics(r)
  <2>1. q.at = "topics" /\ u = w
    BY <1>7, <1>15 DEF Topics, At
  <2>2. IsActive(u) /\ UNCHANGED <<member, channel, denied, live, muffled>>
    BY <1>1, <1>2, <1>15, <2>1 DEF Topics, KnowsUser, Subscribing, disbanding
  <2> QED BY <2>1, <2>2 DEF IsActive, Returning
<1>16. CASE Quit(r)
  <2>1. q.at = "quit" /\ u = w /\ p.at = "own" /\ p.who = w /\ u \notin channel'
    BY <1>7, <1>16, StepIs DEF Quit, At, Who
  <2>2. UNCHANGED <<member, topic, denied, live>>
    BY <1>16 DEF Quit, disbanding
  <2> QED BY <2>1, <2>2 DEF IsActive, Returning, TopicDue
<1>17. CASE Own(r)
  <2>1. q.at = "own" /\ u = w /\ UNCHANGED <<member, channel, topic, denied, live, muffled>>
    BY <1>7, <1>17 DEF Own, At, im, disbanding
  <2>2. IsActive(w) => p.at \in {"heir", "leave"} /\ p.who = w
    BY <1>5, <1>17 DEF Own, Pending, Who, Orderly, GroupTypeOK
  <2> QED BY <2>1, <2>2 DEF IsActive, Returning, TopicDue, ChannelDue
<1>18. CASE Heir(r)
  <2>1. q.at = "heir" /\ u = w /\ UNCHANGED <<member, channel, topic, denied, live, muffled>>
    BY <1>7, <1>18 DEF Heir, At, im, disbanding
  <2>2. p.at = "leave" /\ p.who = w
    BY <1>5, <1>18 DEF Heir, Pending, Orderly, GroupTypeOK
  <2> QED BY <2>1, <2>2 DEF IsActive, Returning, TopicDue, ChannelDue
<1>19. CASE Leave(r)
  <2>1. PICK bots \in SUBSET BotsOf(w) :
           /\ req' = [req EXCEPT ![r].at = "untopic", ![r].gone = {w}, ![r].bots = bots]
           /\ member' = Appointed(Deleted({w} \cup bots), q.heir, "creator")
    BY <1>19 DEF Leave, Cascaded, Who
  <2>a. q.at = "leave" /\ q.op = "exit"
    BY <1>1, <1>19 DEF Leave, At, Shaped, Goes
  <2>2. p.at = "untopic" /\ p.gone = {w} /\ p.bots = bots
    BY <1>5, <2>1 DEF Pending, Orderly, GroupTypeOK
  <2>3. UNCHANGED <<channel, topic, denied, live, muffled>> /\ w \in Person
    BY <1>4, <1>19, <2>a DEF Leave, im, disbanding
  <2>4. /\ member'[u].muted = member[u].muted /\ member'[u].black = member[u].black
        /\ IF u \in {w} \cup bots THEN member'[u].row # "active"
           ELSE member'[u].row = member[u].row
    <3>1. Deleted({w} \cup bots) \in [Person -> Member]
      BY DeletedType DEF Orderly
    <3>2. /\ Deleted({w} \cup bots)[u].muted = member[u].muted
          /\ Deleted({w} \cup bots)[u].black = member[u].black
          /\ IF u \in {w} \cup bots THEN Deleted({w} \cup bots)[u].row # "active"
             ELSE Deleted({w} \cup bots)[u].row = member[u].row
      BY <1>5 DEF Deleted, Member
    <3> QED BY <2>1, <3>1, <3>2 DEF Appointed, Member
  <2>5. u = w => u \notin channel
    BY <1>1, <1>2, <2>a DEF KnowsUser
  <2>6. CASE u \in {w} \cup bots
    BY <2>a, <2>2, <2>3, <2>4, <2>5, <2>6 DEF IsActive, ChannelDue, TopicDue
  <2>7. CASE u \notin {w} \cup bots
    BY <2>a, <2>2, <2>3, <2>4, <2>7 DEF IsActive, ChannelDue, TopicDue
  <2> QED BY <2>6, <2>7
<1>20. CASE Delete(r)
  <2> DEFINE out == {w} \cup Cascaded(w)
  <2>1. p.at = "unsubscribe" /\ p.op = "kick" /\ p.gone = out /\ q.at = "delete" /\ q.op = "kick"
    BY <1>1, <1>5, <1>20 DEF Delete, At, Who, Pending, Shaped, Goes, Orderly, GroupTypeOK
  <2>2. UNCHANGED <<channel, topic, denied, live, muffled>> /\ w \in Person
        /\ member' = Deleted(out)
    BY <1>4, <1>20, <2>1 DEF Delete, im, disbanding, Who
  <2>3. /\ member'[u].muted = member[u].muted /\ member'[u].black = member[u].black
        /\ IF u \in out THEN member'[u].row # "active" ELSE member'[u].row = member[u].row
    BY <1>5, <2>2 DEF Deleted, Member
  <2> HIDE DEF out
  <2> QED BY <2>1, <2>2, <2>3 DEF IsActive, ChannelDue, TopicDue, Returning
<1>21. CASE Unsubscribe(r)
  <2>1. /\ q.at = "unsubscribe" /\ q.op \in {"exit", "kick", "block"} /\ q.bots = {}
        /\ UNCHANGED <<member, topic, denied, live, muffled>>
    BY <1>1, <1>21 DEF Unsubscribe, At, Shaped, Goes, disbanding
  <2>2. u \in q.gone => u \notin channel'
    BY <1>21 DEF Unsubscribe, Lost
  <2>3. u \notin q.gone => (u \in channel' <=> u \in channel)
    BY <1>21 DEF Unsubscribe, Lost
  <2>4. u \in q.gone => ~IsActive(u) \/ member[u].black
    <3>1. q.op = "block" /\ u \in q.gone => u = w
      BY <1>1, <2>1 DEF Shaped
    <3> QED BY <1>1, <1>2, <2>1, <3>1 DEF KnowsGone, KnowsUser, IsActive
  <2>5. ~Returning(q)
    BY <2>1 DEF Returning
  <2>6. q.op # "block" => p.at = "untopic" /\ p.gone = q.gone
    BY <1>21, StepIs DEF Unsubscribe
  <2>7. TopicDue(q, u) => TopicDue(p, u)
    BY <2>1, <2>6 DEF TopicDue
  <2>8. ChannelDue(q, u) => u \in q.gone
    BY <2>1 DEF ChannelDue
  <2> QED BY <2>1, <2>2, <2>3, <2>4, <2>5, <2>7, <2>8 DEF IsActive, TopicDue
<1>22. CASE Untopic(r)
  <2>1. /\ q.at = "untopic" /\ q.op \in {"exit", "kick", "block"} /\ (q.op = "block" => q.bots = {})
        /\ UNCHANGED <<member, channel, denied, live, muffled>>
    BY <1>1, <1>22 DEF Untopic, At, Shaped, Goes, disbanding
  <2>2. IF u \in q.gone THEN u \notin topic' ELSE u \in topic' <=> u \in topic
    BY <1>22 DEF Untopic, Lost
  <2>3. u \in q.bots => p.at = "unsubscribe" /\ p.op # "block" /\ p.gone = q.bots
    BY <1>5, <1>22, <2>1 DEF Untopic, Pending, Orderly, GroupTypeOK
  <2>4. ChannelDue(q, u) => ChannelDue(p, u)
    BY <2>1, <2>3 DEF ChannelDue
  <2>5. TopicDue(q, u) => u \in q.gone \/ TopicDue(p, u)
    BY <2>1, <2>3 DEF TopicDue
  <2>6. ~Returning(q)
    BY <2>1 DEF Returning
  <2> QED BY <2>1, <2>2, <2>4, <2>5, <2>6 DEF IsActive, TopicDue, ChannelDue
<1>23. CASE Hand(r) \/ SetRole(r)
  <2>1. q.at \in {"hand", "role"} /\ u = w
        /\ UNCHANGED <<channel, topic, denied, live, muffled>>
    BY <1>7, <1>23 DEF Hand, SetRole, At, im, disbanding
  <2>2. /\ member'[u].row = member[u].row /\ member'[u].black = member[u].black
        /\ member'[u].muted => member[u].muted
    <3>1. \A x \in Person \cup {Nobody}, role \in {"common", "manager", "creator"} :
             LET table == Appointed(member, x, role)
             IN  /\ table \in [Person -> Member] /\ table[u].row = member[u].row
                 /\ table[u].black = member[u].black /\ table[u].muted = member[u].muted
      BY <1>5, AppointedType DEF Appointed, Member
    <3>2. q.by \in Person \cup {Nobody} /\ w \in Person
      BY <1>4, <1>5, <2>1 DEF Pending
    <3>3. PICK x \in Person \cup {Nobody}, role \in {"common", "manager", "creator"} :
            \/ member' = Appointed(member, x, role)
            \/ member' = [Appointed(member, x, role) EXCEPT ![w].role = "creator", ![w].muted = FALSE]
      BY <1>23, <3>2 DEF Hand, SetRole, Who
    <3> DEFINE table == Appointed(member, x, role)
    <3>4. /\ table \in [Person -> Member] /\ table[u].row = member[u].row
          /\ table[u].black = member[u].black /\ table[u].muted = member[u].muted
      BY <3>1
    <3>5. \/ member' = table
          \/ member' = [table EXCEPT ![w].role = "creator", ![w].muted = FALSE]
      BY <3>3
    <3> HIDE DEF table
    <3> QED BY <2>1, <3>4, <3>5 DEF Member
  <2>3. ~ChannelDue(q, u) /\ ~TopicDue(q, u) /\ ~Returning(q)
    BY <2>1 DEF ChannelDue, TopicDue, Returning
  <2> QED BY <2>1, <2>2, <2>3 DEF IsActive
<1>24. CASE Mark(r)
  <2>1. q.at = "mark" /\ u = w /\ w \in Person
        /\ UNCHANGED <<channel, topic, denied, live, muffled>>
        /\ q.op \in {"block", "unblock"}
    BY <1>1, <1>4, <1>7, <1>24 DEF Mark, At, im, disbanding, Shaped, Goes
  <2>2. member' = [member EXCEPT ![w].black = q.op = "block" /\ member[w].row # "none"]
    BY <1>24 DEF Mark, Who
  <2>3. /\ member'[u].row = member[u].row /\ member'[u].muted = member[u].muted
        /\ q.op = "block" => member'[u].black \/ member'[u].row = "none"
    BY <1>5, <2>1, <2>2 DEF Member
  <2>4. q.op = "unblock" => p.at = "revive" /\ p.who = u
    BY <1>24, <2>1, StepIs DEF Mark
  <2>5. ~ChannelDue(q, u) /\ ~TopicDue(q, u)
    BY <2>1 DEF ChannelDue, TopicDue
  <2> QED BY <2>1, <2>3, <2>4, <2>5 DEF IsActive, Returning
<1>25. CASE Revive(r)
  <2>1. q.at = "revive" /\ u = w /\ UNCHANGED <<member, channel, topic, denied, live>>
        /\ q.op = "unblock"
    BY <1>1, <1>7, <1>25 DEF Revive, At, im, disbanding, Shaped, Goes
  <2>2. /\ muffled \subseteq muffled' /\ (IsActive(u) /\ member[u].muted => u \in muffled')
        /\ IsActive(u) /\ ~member[u].muted => Step(r, "undeny")
    BY <1>25, <2>1 DEF Revive, Who
  <2>3. IsActive(u) /\ ~member[u].muted => p.at = "undeny" /\ p.op = "unblock" /\ p.who = u
    BY <2>1, <2>2, StepIs
  <2>4. ~ChannelDue(q, u) /\ ~TopicDue(q, u)
    BY <2>1 DEF ChannelDue, TopicDue
  <2> QED BY <2>1, <2>2, <2>3, <2>4 DEF IsActive, Returning
<1>26. CASE Rewrite(r)
  <2>1. q.at = "rewrite" /\ u = w /\ w \in Person /\ q.seen \in Member
        /\ UNCHANGED <<channel, topic, denied, live, muffled>>
    BY <1>4, <1>5, <1>7, <1>26 DEF Rewrite, At, im, disbanding, Pending
  <2>2. q.seen.row = member[u].row
    BY <1>1, <1>2, <1>6, <2>1 DEF KnowsRow
  <2>3. member' = [member EXCEPT ![w] = Rewritten(w, q.seen, q.op = "mute")]
    BY <1>26 DEF Rewrite, Who
  <2>4. /\ member'[u].row = member[u].row /\ member'[u].black = member[u].black
        /\ member'[u].muted => q.op = "mute"
    BY <1>5, <2>1, <2>2, <2>3 DEF Rewritten, Member
  <2>5. q.op = "mute" => p.at = "deny" /\ p.op = "mute" /\ p.who = u
    BY <1>26, <2>1, StepIs DEF Rewrite
  <2>6. ~ChannelDue(q, u) /\ ~TopicDue(q, u) /\ ~Returning(q)
    BY <2>1 DEF ChannelDue, TopicDue, Returning
  <2> QED BY <2>1, <2>4, <2>5, <2>6 DEF IsActive
<1>27. CASE Deny(r)
  <2>1. q.at = "deny" /\ u = w /\ u \in denied'
        /\ UNCHANGED <<member, channel, topic, live, muffled>>
    BY <1>7, <1>27 DEF Deny, At, Who, disbanding
  <2>2. ~ChannelDue(q, u) /\ ~TopicDue(q, u) /\ ~Returning(q)
    BY <2>1 DEF ChannelDue, TopicDue, Returning
  <2> QED BY <2>1, <2>2 DEF IsActive
<1>28. CASE Undeny(r)
  <2>1. q.at = "undeny" /\ u = w /\ UNCHANGED <<member, channel, topic, live, muffled>>
    BY <1>7, <1>28 DEF Undeny, At, disbanding
  <2>2. ~member[u].muted
    BY <1>1, <1>2, <2>1 DEF KnowsUser
  <2>3. q.op = "unblock" => p.at = "subscribe" /\ p.who = u
    BY <1>28, <2>1, StepIs DEF Undeny
  <2>4. ~ChannelDue(q, u) /\ ~TopicDue(q, u)
    BY <2>1 DEF ChannelDue, TopicDue
  <2> QED BY <2>1, <2>2, <2>3, <2>4 DEF IsActive, Returning
<1>29. CASE Close(r)
  <2>1. q.at = "disband" /\ u = w
    BY <1>7, <1>29 DEF Close, At
  <2> QED BY <1>1, <2>1, GroupsAssumption DEF Shaped, Goes
<1>30. CASE Fail(r)
  <2>1. u \in Concerns(q)
    <3>1. u \in Touched(Who(r))
      BY DEF Reach, Touched
    <3> QED BY <3>1, ReachIsConcern DEF Touched
  <2> QED BY <1>30, <2>1 DEF Fail
<1> QED BY <1>10, <1>11, <1>12, <1>13, <1>14, <1>15, <1>16, <1>17, <1>18, <1>19, <1>20, <1>21,
           <1>22, <1>23, <1>24, <1>25, <1>26, <1>27, <1>28, <1>29, <1>30
        DEF Acts

LEMMA PlacedStays ==
    ASSUME Orderly, Exclusive, Known, Placed,
           UNCHANGED groupVars \/ \E r \in Request : Begun(r) \/ Acts(r)
    PROVE  Placed'
<1>0. unsure \subseteq unsure'
  BY Surer
<1> SUFFICES ASSUME NEW u \in Person, u \notin unsure'
             PROVE  /\ \A r \in Request : u \in Concerns(req[r])' => Stands(req[r], u)'
                    /\ (\A r \in Request : u \notin Concerns(req[r])') => Stands(Idle, u)'
  BY DEF Placed
<1>1. /\ \A r \in Request : u \in Concerns(req[r]) => Stands(req[r], u)
      /\ (\A r \in Request : u \notin Concerns(req[r])) => Stands(Idle, u)
  BY <1>0 DEF Placed
<1>2. \A s \in Request : req'[s] = req[s] => Concerns(req[s])' = Concerns(req[s])
  BY DEF Concerns, Touched, BotsOf
<1>3. ASSUME NEW r \in Request, Begun(r)
      PROVE  /\ \A s \in Request : u \in Concerns(req[s])' => Stands(req[s], u)'
             /\ (\A s \in Request : u \notin Concerns(req[s])') => Stands(Idle, u)'
  <2>1. /\ req[r].at = "idle" /\ \A s \in Request \ {r} : req'[s] = req[s]
        /\ unsure' = unsure \cup (Concerns(req'[r])
                                    \cap UNION {Concerns(req[s]) : s \in Request})
        /\ UNCHANGED <<member, channel, topic, denied, live, muffled>>
        /\ Shaped(req[r])
    BY <1>3, BegunIs DEF Orderly, im, disbanding
  <2>2. Concerns(req[r])' = Concerns(req'[r])
    BY DEF Concerns, Touched, BotsOf
  <2>3. (\A s \in Request : Stands(req[s], u) /\ req'[s] = req[s] => Stands(req[s], u)')
        /\ (Stands(Idle, u) => Stands(Idle, u)')
    BY <2>1 DEF Stands, IsActive, ChannelDue, TopicDue, Returning, Idle
  <2>4. CASE u \in Concerns(req[r])'
    <3>1. \A s \in Request : u \notin Concerns(req[s])
      BY <2>1, <2>2, <2>4
    <3>2. Stands(Idle, u)'
      BY <1>1, <2>3, <3>1
    <3>3. Stands(req[r], u)'
      BY <3>2 DEF Stands, ChannelDue, TopicDue, Returning, Idle
    <3>4. \A s \in Request \ {r} : u \notin Concerns(req[s])'
      BY <1>2, <2>1, <3>1
    <3> QED BY <2>4, <3>3, <3>4
  <2>5. CASE u \notin Concerns(req[r])'
    <3>1. \A s \in Request : u \in Concerns(req[s])' => Stands(req[s], u)'
      BY <1>1, <1>2, <2>1, <2>3, <2>5
    <3>2. (\A s \in Request : u \notin Concerns(req[s])') => Stands(Idle, u)'
      <4> SUFFICES ASSUME \A s \in Request : u \notin Concerns(req[s])' PROVE Stands(Idle, u)'
        OBVIOUS
      <4>1. \A s \in Request \ {r} : u \notin Concerns(req[s])
        BY <1>2, <2>1
      <4>2. CASE u \notin Concerns(req[r])
        BY <1>1, <2>3, <4>1, <4>2
      <4>3. CASE u \in Concerns(req[r])
        <5>1. Stands(req[r], u)
          BY <1>1, <4>3
        <5>2. req[r].op = "none"
          BY <2>1 DEF Shaped, Goes
        <5>3. Stands(Idle, u)
          BY <2>1, <5>1, <5>2 DEF Stands, ChannelDue, TopicDue, Returning
        <5> QED BY <2>3, <5>3
      <4> QED BY <4>2, <4>3
    <3> QED BY <3>1, <3>2
  <2> QED BY <2>4, <2>5
<1>4. ASSUME NEW r \in Request, Acts(r)
      PROVE  /\ \A s \in Request : u \in Concerns(req[s])' => Stands(req[s], u)'
             /\ (\A s \in Request : u \notin Concerns(req[s])') => Stands(Idle, u)'
  <2>1. /\ Frame(r) /\ \A s \in Request \ {r} : req'[s] = req[s]
        /\ req'[r] = Idle \/ (req'[r].who = req[r].who /\ req'[r].by = req[r].by)
    BY <1>4, ActFrame, ActMoves, MovesType DEF Orderly
  <2>2. req'[r] = Idle \/ Concerns(req[r])' = Concerns(req[r])
    BY <2>1 DEF Concerns, Touched, BotsOf
  <2>3. \A s \in Request \ {r} : Concerns(req[s])' = Concerns(req[s])
    BY <1>2, <2>1
  <2>4. req'[r] = Idle => (Stands(req[r], u)' => Stands(Idle, u)') /\ u \notin Concerns(req[r])'
    BY DEF Stands, ChannelDue, TopicDue, Returning, Concerns, Idle
  <2>5. Stands(Idle, u)' => Stands(req[r], u)'
    BY DEF Stands, ChannelDue, TopicDue, Returning, Idle
  <2>6. CASE u \in Concerns(req[r])
    <3>1. \A s \in Request \ {r} : u \notin Concerns(req[s])
      BY <1>0, <2>6 DEF Exclusive
    <3>2. Stands(req[r], u)'
      <4>1. CASE u \in Reach(r)
        BY <1>1, <1>4, <2>6, <4>1, OwnStands
      <4>2. CASE u \notin Reach(r)
        BY <1>1, <2>1, <2>5, <2>6, <4>2, UnreachedStands, SparedStands
      <4> QED BY <4>1, <4>2
    <3> QED BY <2>2, <2>3, <2>4, <2>6, <3>1, <3>2
  <2>7. CASE u \notin Concerns(req[r])
    <3>1. u \notin Reach(r)
      BY <2>7, ReachIsConcern DEF Reach, Touched
    <3>2. u \notin Concerns(req[r])'
      BY <2>2, <2>4, <2>7
    <3>3. \A s \in Request : u \in Concerns(req[s])' => Stands(req[s], u)'
      BY <1>1, <2>1, <2>3, <3>1, <3>2, SparedStands
    <3>4. (\A s \in Request : u \notin Concerns(req[s])') => Stands(Idle, u)'
      BY <1>1, <2>1, <2>3, <2>7, <3>1, SparedStands
    <3> QED BY <3>3, <3>4
  <2> QED BY <2>6, <2>7
<1>5. CASE UNCHANGED groupVars
  <2>1. UNCHANGED <<live, member, channel, topic, denied, req, muffled>>
    BY <1>5 DEF groupVars
  <2>2. Stands(Idle, u) => Stands(Idle, u)'
    BY <2>1 DEF Stands, IsActive, ChannelDue, TopicDue, Returning, Idle
  <2>3. \A s \in Request : Stands(req[s], u) => Stands(req[s], u)'
    BY <2>1 DEF Stands, IsActive, ChannelDue, TopicDue, Returning
  <2> QED BY <1>1, <1>2, <2>1, <2>2, <2>3
<1> QED BY <1>3, <1>4, <1>5

-----------------------------------------------------------------------------
(* After the group is disbanded. *)

Dissolved ==
    /\ live <=> event = "none"
    /\ cleaning => event = "wait"
    /\ ~live => \A r \in Request :
          Concerns(req[r]) \subseteq unsure \/ At(r, "entitled") \/ req[r].op = "expire"
    /\ cleaning \/ event = "done" => channel \subseteq unsure
    /\ event = "done" => topic \subseteq unsure

LEMMA DissolvedStays ==
    ASSUME Orderly, Dissolved, [GroupNext]_groupVars
    PROVE  Dissolved'
<1>1. ASSUME NEW r \in Request, Begun(r) PROVE Dissolved'
  <2>1. /\ Fresh(req'[r]) /\ (\A s \in Request \ {r} : req'[s] = req[s])
        /\ unsure \subseteq unsure' /\ UNCHANGED <<live, event, cleaning, channel, topic>>
    BY <1>1, BegunIs DEF Orderly, im, disbanding
  <2>2. ~live => req'[r].at = "entitled" \/ req'[r].op = "expire"
    BY <2>1 DEF Fresh
  <2> QED BY <2>1, <2>2 DEF Dissolved, At, Concerns, Touched, BotsOf
<1>2. ASSUME NEW r \in Request, Acts(r) PROVE Dissolved'
  <2> DEFINE q == req[r]
  <2>1. /\ unsure \subseteq unsure' /\ Concerns(req'[r]) \subseteq Concerns(q)
        /\ (\A s \in Request \ {r} : req'[s] = req[s])
        /\ req'[r] = Idle \/ req'[r].op = q.op
        /\ Shaped(q)
    BY <1>2, ActFrame, ActMoves, MovesType, MovesConcern DEF Orderly, Frame
  <2>2. Concerns(Idle) = {} /\ \A x : Concerns(x)' = Concerns(x')
    BY DEF Concerns, Idle, Touched, BotsOf
  <2>3. CASE Close(r)
    <3>1. /\ ~live' /\ event' = "wait" /\ cleaning' = cleaning
          /\ UNION {Concerns(req[s]) : s \in Request} \subseteq unsure'
          /\ channel' = channel
      BY <2>3 DEF Close, im
    <3>2. \A s \in Request : Concerns(req[s])' \subseteq unsure'
      <4>1. \A s \in Request : Concerns(req'[s]) \subseteq unsure'
        BY <2>1, <3>1
      <4> QED BY <4>1 DEF Concerns, Touched, BotsOf
    <3> QED BY <2>1, <3>1, <3>2 DEF Dissolved
  <2>4. CASE ~Close(r)
    <3>1. UNCHANGED <<live, event, cleaning>>
      BY <1>2, <2>4
         DEF Acts, Look, Write, Hold, Commit, Subscribe, Topics, Quit, Own, Heir, Leave, Target,
             Delete, Unsubscribe, Untopic, Entitled, Hand, Check, SetRole, Mark, Revive, Rewrite,
             Deny, Undeny, Close, Fail, disbanding
    <3>2. CASE live
      <4>1. live' /\ event' = "none" /\ ~cleaning'
        BY <3>1, <3>2 DEF Dissolved
      <4> QED BY <4>1 DEF Dissolved
    <3>3. CASE ~live
      <4>1. \/ Concerns(req'[r]) \subseteq unsure'
            \/ req'[r].at = "entitled" \/ req'[r].op = "expire"
        <5>1. CASE Concerns(q) \subseteq unsure
          BY <2>1, <5>1
        <5>2. CASE At(r, "entitled")
          <6>1. Done(r)
            BY <1>2, <3>3, <5>2
               DEF Acts, Look, Write, Hold, Commit, Subscribe, Topics, Quit, Own, Heir, Leave,
                   Target, Delete, Unsubscribe, Untopic, Entitled, Hand, Check, SetRole, Mark,
                   Revive, Rewrite, Deny, Undeny, Close, Fail, At
          <6> QED BY <2>2, <6>1, DoneIs
        <5>3. CASE q.op = "expire"
          BY <2>1, <2>2, <5>3
        <5> QED BY <3>3, <5>1, <5>2, <5>3 DEF Dissolved
      <4>2. \A s \in Request :
              (Concerns(req[s]) \subseteq unsure \/ At(s, "entitled") \/ req[s].op = "expire")'
        <5>1. \A s \in Request : \/ Concerns(req'[s]) \subseteq unsure'
                                 \/ req'[s].at = "entitled" \/ req'[s].op = "expire"
          BY <2>1, <3>3, <4>1 DEF Dissolved, At
        <5> QED BY <5>1 DEF At, Concerns, Touched, BotsOf
      <4>3. channel' \subseteq channel \cup Concerns(q) /\ topic' \subseteq topic \cup Concerns(q)
        <5>1. q.at \notin {"idle", "disband"} => Who(r) \in Concerns(q)
          BY WhoType, ReachIsConcern DEF Orderly, Touched
        <5> QED BY <1>2, <5>1
                DEF Acts, Look, Write, Hold, Commit, Subscribe, Topics, Quit, Own, Heir, Leave,
                    Target, Delete, Unsubscribe, Untopic, Entitled, Hand, Check, SetRole, Mark,
                    Revive, Rewrite, Deny, Undeny, Close, Fail, At, im
      <4>4. q.at = "entitled" \/ q.op = "expire" => channel' = channel /\ topic' = topic
        BY <1>2, <2>1
           DEF Acts, Look, Write, Hold, Commit, Subscribe, Topics, Quit, Own, Heir, Leave,
               Target, Delete, Unsubscribe, Untopic, Entitled, Hand, Check, SetRole, Mark,
               Revive, Rewrite, Deny, Undeny, Close, Fail, At, im, Shaped, Goes
      <4>5. (channel \subseteq unsure => channel' \subseteq unsure')
            /\ (topic \subseteq unsure => topic' \subseteq unsure')
        BY <2>1, <3>3, <4>3, <4>4 DEF Dissolved, At
      <4> QED BY <3>1, <3>3, <4>2, <4>5 DEF Dissolved
    <3> QED BY <3>2, <3>3
  <2> QED BY <2>3, <2>4
<1>3. CASE Cleans \/ UNCHANGED groupVars
  <2>1. UNCHANGED <<req, live>> /\ unsure \subseteq unsure'
    BY <1>3, CleansType, Surer
       DEF Orderly, groupVars, Cleans, DelChannel, DelThreads, CrashEvent
  <2>2. \A s \in Request :
            Concerns(req[s]) \subseteq unsure \/ At(s, "entitled") \/ req[s].op = "expire"
            => (Concerns(req[s]) \subseteq unsure \/ At(s, "entitled") \/ req[s].op = "expire")'
    BY <2>1 DEF Concerns, At, Touched, BotsOf
  <2>3. CASE DelChannel
    BY <2>1, <2>2, <2>3 DEF Dissolved, DelChannel
  <2>4. CASE DelThreads
    <3>1. channel' = channel /\ cleaning /\ ~cleaning' /\ event' = "done"
          /\ (topic' = {} \/ unsure' = unsure \cup Person) /\ topic' \subseteq Person
      BY <2>4 DEF DelThreads, Lost, Orderly, GroupTypeOK
    <3> QED BY <2>1, <2>2, <3>1 DEF Dissolved
  <2>5. CASE CrashEvent \/ UNCHANGED groupVars
    BY <2>1, <2>2, <2>5 DEF Dissolved, CrashEvent, im, groupVars
  <2> QED BY <1>3, <2>3, <2>4, <2>5 DEF Cleans
<1> QED BY <1>1, <1>2, <1>3, Steps DEF Orderly

LEMMA KnownStays ==
    ASSUME Orderly, Exclusive, Known, Dissolved, [GroupNext]_groupVars
    PROVE  Known'
<1>0. unsure \subseteq unsure'
  BY Steps, Surer DEF Orderly
<1>a. \A x : Doubted(x) => Doubted(x)'
  BY <1>0 DEF Doubted, Touched, BotsOf
<1>1. ASSUME NEW r \in Request, Acts(r) PROVE Known'
  <2>1. \A s \in Request : (KnowsRow(req[s]) /\ KnowsUser(req[s]) /\ KnowsGone(req[s]))'
    BY <1>1, OwnKnows, OthersKnow
  <2> QED BY <2>1 DEF Known
<1>2. ASSUME NEW r \in Request, Begun(r) PROVE Known'
  <2>1. /\ Fresh(req'[r]) /\ (\A s \in Request \ {r} : req'[s] = req[s])
        /\ UNCHANGED <<member, channel, live>>
    BY <1>2, BegunIs DEF Orderly, im, disbanding
  <2>2. (KnowsRow(req[r]) /\ KnowsUser(req[r]) /\ KnowsGone(req[r]))'
    BY <2>1 DEF Fresh, First, Shaped, Goes, KnowsRow, KnowsUser, KnowsGone, Subscribing, IsActive
  <2>3. ASSUME NEW s \in Request \ {r}
        PROVE  (KnowsRow(req[s]) /\ KnowsUser(req[s]) /\ KnowsGone(req[s]))'
    <3>1. KnowsRow(req[s]) /\ KnowsUser(req[s]) /\ KnowsGone(req[s]) /\ req'[s] = req[s]
      BY <2>1 DEF Known
    <3> QED BY <1>0, <1>a, <2>1, <3>1 DEF KnowsRow, KnowsUser, KnowsGone, Subscribing, IsActive
  <2> QED BY <2>2, <2>3 DEF Known
<1>3. CASE Cleans \/ UNCHANGED groupVars
  <2>1. /\ UNCHANGED <<req, member, live>> /\ channel' \subseteq channel
        /\ (channel' = channel \/ ~live)
    BY <1>3, CleansType
       DEF Orderly, groupVars, Cleans, DelChannel, DelThreads, CrashEvent, Dissolved, im
  <2>2. ASSUME NEW s \in Request
        PROVE  (KnowsRow(req[s]) /\ KnowsUser(req[s]) /\ KnowsGone(req[s]))'
    <3>1. KnowsRow(req[s]) /\ KnowsUser(req[s]) /\ KnowsGone(req[s]) /\ req'[s] = req[s]
      BY <2>1 DEF Known
    <3> QED BY <1>0, <1>a, <2>1, <3>1 DEF KnowsRow, KnowsUser, KnowsGone, Subscribing, IsActive
  <2> QED BY <2>2 DEF Known
<1> QED BY <1>1, <1>2, <1>3, Steps DEF Orderly

\* The event's handler takes nobody's place but in a group that is no more.
LEMMA CleansPlaced ==
    ASSUME Orderly, Placed, Dissolved, Cleans
    PROVE  Placed'
<1> SUFFICES ASSUME NEW u \in Person, u \notin unsure'
             PROVE  /\ \A r \in Request : u \in Concerns(req[r])' => Stands(req[r], u)'
                    /\ (\A r \in Request : u \notin Concerns(req[r])') => Stands(Idle, u)'
  BY DEF Placed
<1>1. /\ \A r \in Request : u \in Concerns(req[r]) => Stands(req[r], u)
      /\ (\A r \in Request : u \notin Concerns(req[r])) => Stands(Idle, u)
  BY Surer DEF Placed
<1>2. /\ UNCHANGED <<req, member, live, denied, muffled>> /\ topic' \subseteq topic
      /\ channel' \subseteq channel /\ (channel' = channel \/ ~live)
  BY CleansType DEF Orderly, Cleans, DelChannel, DelThreads, CrashEvent, Dissolved, im, Lost
<1>3. Stands(Idle, u) => Stands(Idle, u)'
  BY <1>2 DEF Stands, IsActive, ChannelDue, TopicDue, Returning, Idle
<1>4. \A s \in Request : Stands(req[s], u) => Stands(req[s], u)'
  BY <1>2 DEF Stands, IsActive, ChannelDue, TopicDue, Returning
<1>5. \A s \in Request : Concerns(req[s])' = Concerns(req[s])
  BY <1>2 DEF Concerns, Touched, BotsOf
<1> QED BY <1>1, <1>3, <1>4, <1>5

-----------------------------------------------------------------------------
(* Robots and the users they belong to. *)

Attended(b) ==
    LET owner == member[OwnerOf[b]]
    IN  \/ owner.row = "active"
        \/ owner.row = "deleted" /\ owner.role = "creator"
        \/ owner.row = "none" /\ b \in Early

Accompanied == \A b \in Bot \ unsure : IsActive(b) => Attended(b)

\* What becomes of the row of a user whose robots are not all in doubt.
LEMMA OwnRow ==
    ASSUME Orderly, Known, NEW r \in Request, Acts(r), ~Doubted(Who(r)), Who(r) \in Person
    PROVE  \/ member' = member
           \/ (Write(r) \/ Commit(r)) /\ member'[Who(r)].row = "active"
           \/ /\ req[r].at \notin {"leave", "delete"}
              /\ member'[Who(r)].row = member[Who(r)].row
              /\ member[Who(r)].row = "deleted" => member'[Who(r)].role = member[Who(r)].role
           \/ /\ req[r].at \in {"leave", "delete"}
              /\ \A x \in Touched(Who(r)) : member'[x].row = "active" => member[x].row = "active"
              /\ \/ \A b \in BotsOf(Who(r)) : member'[b].row # "active"
                 \/ /\ member'[Who(r)].row = "none" => member[Who(r)].row = "none"
                    /\ member'[Who(r)].role = "creator"
<1> DEFINE w == Who(r)  q == req[r]
<1>1. KnowsRow(q) /\ (\A x \in Person : member[x] \in Member) /\ member \in [Person -> Member]
      /\ q \in Pending
  BY DEF Known, Orderly, GroupTypeOK
<1>2. CASE Write(r) \/ Commit(r)
  <2>1. member' = member \/ member' = Joined(w)
    BY <1>2 DEF Write, Commit
  <2>2. member' = Joined(w) => member'[w].row = "active"
    BY <1>1 DEF Joined, Member
  <2> QED BY <1>2, <2>1, <2>2
<1>3. CASE Leave(r)
  <2> DEFINE bots == IF q.seen.role = "creator" THEN {} ELSE Cascaded(w)
             table == Deleted({w} \cup bots)
  <2>1. member' = Appointed(table, q.heir, "creator") /\ q.at = "leave"
    BY <1>3 DEF Leave, At
  <2>2. table \in [Person -> Member]
    BY DeletedType DEF Orderly
  <2>3. \A x \in Person : member'[x].row = table[x].row
                          /\ (member'[x].role = table[x].role \/ member'[x].role = "creator")
    <3> HIDE DEF table
    <3> QED BY <2>1, <2>2 DEF Appointed, Member
  <2>4. /\ table[w].row = "none" => member[w].row = "none"
        /\ table[w].role = member[w].role
        /\ \A x \in Touched(w) :
              x \in Person /\ (table[x].row = "active" => member[x].row = "active")
    BY <1>1, GroupsAssumption DEF Deleted, Member, BotsOf, Touched
  <2>5. CASE q.seen.role = "creator"
    <3>1. member[w].role = "creator"
      BY <1>1, <2>1, <2>5 DEF KnowsRow, Who
    <3> HIDE DEF table
    <3> QED BY <2>1, <2>3, <2>4, <3>1
  <2>6. CASE q.seen.role # "creator"
    <3>1. \A b \in BotsOf(w) : b \in Person /\ table[b].row # "active"
      BY <1>1, <2>4, <2>6 DEF Deleted, Cascaded, IsActive, Member, Touched
    <3> HIDE DEF table
    <3> QED BY <2>1, <2>3, <2>4, <3>1
  <2> QED BY <2>5, <2>6
<1>4. CASE Delete(r)
  <2> DEFINE out == {w} \cup Cascaded(w)
  <2>1. member' = Deleted(out) /\ q.at = "delete"
    BY <1>4 DEF Delete, At
  <2>2. \A b \in BotsOf(w) : member'[b].row # "active"
    BY <1>1, <2>1, GroupsAssumption DEF Deleted, Cascaded, BotsOf, IsActive, Member
  <2>3. \A x \in Touched(w) : member'[x].row = "active" => member[x].row = "active"
    BY <1>1, <2>1, GroupsAssumption DEF Deleted, Touched, BotsOf, Member
  <2> QED BY <2>1, <2>2, <2>3
<1>5. CASE Hand(r)
  <2> DEFINE table == Appointed(member, q.by, "common")
  <2>1. table \in [Person -> Member]
    BY <1>1, AppointedType DEF Pending
  <2>2. table[w].row = member[w].row
    BY <1>1 DEF Appointed, Member
  <2>3. IsActive(w) /\ q.at = "hand"
    BY <1>1, <1>5 DEF KnowsRow, Hand, At, Who
  <2>4. member' = [table EXCEPT ![w].role = "creator", ![w].muted = FALSE]
    BY <1>5, <2>3 DEF Hand
  <2>5. member'[w].row = table[w].row
    <3> HIDE DEF table
    <3> QED BY <2>1, <2>4 DEF Member
  <2> QED BY <2>2, <2>3, <2>5 DEF IsActive
<1>6. CASE SetRole(r)
  <2>1. PICK role \in {"manager", "common"} : member' = Appointed(member, w, role)
    BY <1>6 DEF SetRole
  <2>2. member'[w].row = member[w].row /\ q.at = "role"
        /\ (member[w].row = "deleted" => member'[w].role = member[w].role)
    BY <1>1, <1>6, <2>1 DEF SetRole, At, Appointed, Member, IsActive
  <2> QED BY <2>2
<1>7. CASE Mark(r)
  <2>1. member'[w].row = member[w].row /\ q.at = "mark" /\ member'[w].role = member[w].role
    BY <1>1, <1>7 DEF Mark, At, Member
  <2> QED BY <2>1
<1>8. CASE Rewrite(r)
  <2>1. q.at = "rewrite" /\ q.seen \in Member
        /\ member' = [member EXCEPT ![w] = Rewritten(w, q.seen, q.op = "mute")]
    BY <1>1, <1>8 DEF Rewrite, At, Pending
  <2>2. q.seen.row = member[w].row /\ (q.seen.row = "deleted" => q.seen.role = member[w].role)
    BY <1>1, <2>1 DEF KnowsRow, Who
  <2>3. member'[w].row = q.seen.row /\ member'[w].role = q.seen.role
    BY <1>1, <2>1 DEF Rewritten, Member
  <2> QED BY <2>1, <2>2, <2>3
<1>9. \/ Write(r) \/ Commit(r) \/ Leave(r) \/ Delete(r) \/ Hand(r) \/ SetRole(r) \/ Mark(r)
      \/ Rewrite(r) \/ member' = member
  BY DEF Acts, Look, Hold, Subscribe, Topics, Quit, Own, Heir, Target, Unsubscribe, Untopic,
         Entitled, Check, Revive, Deny, Undeny, Close, Fail
<1> QED BY <1>2, <1>3, <1>4, <1>5, <1>6, <1>7, <1>8, <1>9

LEMMA AccompaniedStays ==
    ASSUME Orderly, Known, Accompanied, [GroupNext]_groupVars
    PROVE  Accompanied'
<1>1. ASSUME NEW r \in Request, Acts(r) PROVE Accompanied'
  <2> SUFFICES ASSUME NEW b \in Bot, b \notin unsure', IsActive(b)'
               PROVE  Attended(b)'
    BY DEF Accompanied
  <2> DEFINE o == OwnerOf[b]  w == Who(r)
  <2>1. Frame(r) /\ b \notin unsure /\ (IsActive(b) => Attended(b))
    BY <1>1, ActFrame DEF Frame, Accompanied
  <2>2. b \in Person /\ o \in Person \ Bot /\ b # o
    BY GroupsAssumption
  <2>3. Reach(r) \subseteq Touched(w)
    BY DEF Reach, Touched
  <2>4. CASE member' = member
    BY <2>1, <2>4 DEF IsActive, Attended
  <2>5. CASE o # w
    <3>1. Spared(r, o)
      BY <2>1, <2>2, <2>3, <2>5 DEF Frame, Touched, BotsOf
    <3>2. IsActive(b) => Attended(b)'
      BY <2>1, <3>1 DEF Attended, Spared, IsActive
    <3>3. CASE b # w
      <4>1. Spared(r, b)
        BY <2>1, <2>2, <2>3, <2>5, <3>3 DEF Frame, Touched, BotsOf
      <4> QED BY <3>2, <4>1 DEF Spared, IsActive
    <3>4. CASE b = w
      <4>1. ~Doubted(w)
        BY <2>1, <3>4 DEF Doubted, Touched
      <4>2. IsActive(b) \/ Write(r) \/ Commit(r)
        BY <1>1, <2>2, <3>4, <4>1, OwnRow DEF IsActive, Touched
      <4>3. Write(r) \/ Commit(r) => IsActive(o)
        BY <2>1, <3>4 DEF Write, Commit, At, Known, KnowsUser, Who
      <4>4. IsActive(o) => Attended(b)'
        BY <3>1 DEF Attended, Spared, IsActive
      <4> QED BY <3>2, <4>2, <4>3, <4>4
    <3> QED BY <3>3, <3>4
  <2>6. CASE o = w /\ member' # member
    <3>1. b \in BotsOf(w)
      BY <2>6 DEF BotsOf
    <3>2. ~Doubted(w) /\ w \in Person
      BY <2>1, <2>2, <2>6, <3>1 DEF Doubted, Touched
    <3>3. /\ \/ (Write(r) \/ Commit(r)) /\ member'[w].row = "active"
             \/ /\ req[r].at \notin {"leave", "delete"} /\ member'[w].row = member[w].row
                /\ member[w].row = "deleted" => member'[w].role = member[w].role
             \/ /\ req[r].at \in {"leave", "delete"}
                /\ member'[b].row = "active" => member[b].row = "active"
                /\ \/ member'[b].row # "active"
                   \/ /\ member'[w].row = "none" => member[w].row = "none"
                      /\ member'[w].role = "creator"
      BY <1>1, <2>6, <3>1, <3>2, OwnRow DEF Touched
    <3>4. CASE member'[w].row = "active"
      BY <2>6, <3>4 DEF Attended
    <3>5. CASE member'[w].row # "active" /\ IsActive(b)
      <4>1. Attended(b)
        BY <2>1, <3>5
      <4>2. member'[w].row \in {"none", "deleted"}
        BY <1>1, <3>2, <3>5, ActType DEF Orderly, GroupTypeOK, Member
      <4> QED BY <2>6, <3>1, <3>3, <3>5, <4>1, <4>2 DEF Attended, IsActive
    <3>6. CASE ~IsActive(b)
      <4>1. b \in Reach(r) \/ Spared(r, b)
        BY <2>1, <2>2 DEF Frame
      <4>2. ~Spared(r, b)
        BY <3>6 DEF Spared, IsActive
      <4>3. req[r].at \in {"leave", "delete", "unsubscribe", "untopic"}
        BY <2>2, <2>6, <4>1, <4>2 DEF Reach
      <4>4. req[r].at \in {"leave", "delete"}
        BY <1>1, <2>6, <4>3
           DEF Acts, Look, Write, Hold, Commit, Subscribe, Topics, Quit, Own, Heir, Leave, Target,
               Delete, Unsubscribe, Untopic, Entitled, Hand, Check, SetRole, Mark, Revive, Rewrite,
               Deny, Undeny, Close, Fail, At
      <4> QED BY <3>3, <3>6, <4>4 DEF IsActive, Write, Commit, At
    <3> QED BY <3>4, <3>5, <3>6
  <2> QED BY <2>4, <2>5, <2>6
<1>2. ASSUME NEW r \in Request, Begun(r) PROVE Accompanied'
  <2>1. member' = member /\ unsure \subseteq unsure'
    BY <1>2, BegunIs DEF Orderly
  <2> QED BY <2>1 DEF Accompanied, Attended, IsActive
<1>3. CASE Cleans \/ UNCHANGED groupVars
  <2>1. member' = member /\ unsure \subseteq unsure'
    BY <1>3, Surer DEF Cleans, DelChannel, DelThreads, CrashEvent, groupVars
  <2> QED BY <2>1 DEF Accompanied, Attended, IsActive
<1> QED BY <1>1, <1>2, <1>3, Steps DEF Orderly

-----------------------------------------------------------------------------
(* What the group promises. *)

GroupInv ==
    /\ Orderly /\ Exclusive /\ Known /\ Placed
    /\ Dissolved /\ Accompanied

LEMMA GroupInvInit == GroupInit => GroupInv
<1> SUFFICES ASSUME GroupInit PROVE GroupInv
  OBVIOUS
<1>1. Orderly /\ Exclusive
  BY OrderlyInit, OneCreatorInit
<1>2. Known
  BY IdleKnows DEF Known, GroupInit
<1>3. \A u \in Person :
         /\ IsActive(u) <=> u \in Early
         /\ ~member[u].muted
         /\ member[u].row \in {"none", "active"}
  BY GroupsAssumption DEF GroupInit, IsActive, Absent
<1>4. Placed
  <2>1. \A u \in Person : Stands(Idle, u)
    BY <1>3 DEF Stands, GroupInit
  <2> QED BY <2>1 DEF Placed, GroupInit
<1>5. Dissolved
  BY DEF Dissolved, GroupInit
<1>6. Accompanied
  BY <1>3, GroupsAssumption DEF Accompanied, Attended
<1> QED BY <1>1, <1>2, <1>4, <1>5, <1>6 DEF GroupInv

LEMMA GroupInvStays == GroupInv /\ [GroupNext]_groupVars => GroupInv'
<1> SUFFICES ASSUME GroupInv, [GroupNext]_groupVars PROVE GroupInv'
  OBVIOUS
<1>1. Orderly' /\ Exclusive' /\ Known' /\ Dissolved' /\ Accompanied'
  BY OrderlyStays, ExclusiveStays, KnownStays, DissolvedStays, AccompaniedStays DEF GroupInv
<1>2. Placed'
  BY Steps, PlacedStays, CleansPlaced DEF GroupInv, Orderly
<1> QED BY <1>1, <1>2 DEF GroupInv

THEOREM GroupInvHolds == GroupSpec => []GroupInv
BY GroupInvInit, GroupInvStays, PTL DEF GroupSpec

\* About a user that is settled no request has anything left to do.
LEMMA SettledStands ==
    ASSUME GroupInv, NEW u \in Person, Settled(u)
    PROVE  Stands(Idle, u)
BY DEF GroupInv, Placed, Settled

\* Nobody hears a group or its threads that is not a member of it, nor after the disband
\* event was handled: groupExit, RemoveGroupMembers, blacklist, handleGroupDisbandEvent.
THEOREM SubscribersAreMembersHolds == GroupSpec => []SubscribersAreMembers
<1>1. GroupInv => SubscribersAreMembers
  <2> SUFFICES ASSUME GroupInv, NEW u \in channel \cup topic, Settled(u)
               PROVE  IsActive(u) /\ (live \/ event \in {"wait", "failed"} \/ cleaning)
    BY DEF SubscribersAreMembers
  <2>1. u \in Person /\ event \in {"none", "wait", "failed", "done"} /\ u \notin unsure
    BY DEF GroupInv, Orderly, GroupTypeOK, Settled
  <2>2. IsActive(u)
    BY <2>1, SettledStands DEF Stands, Idle, ChannelDue, TopicDue
  <2>3. live \/ event \in {"wait", "failed"}
    BY <2>1 DEF GroupInv, Dissolved
  <2> QED BY <2>2, <2>3
<1> QED BY <1>1, GroupInvHolds, PTL

\* A member that is not blocked hears the group, unless it was unblocked while it was muted:
\* addMembersTx, groupScanJoin, groupMemberInviteSure, blacklist.
THEOREM MembersAreSubscribedHolds == GroupSpec => []MembersAreSubscribed
<1>1. GroupInv => MembersAreSubscribed
  BY SettledStands DEF MembersAreSubscribed, Stands, Idle, Returning
<1> QED BY <1>1, GroupInvHolds, PTL

\* Whoever the table says is muted cannot speak: forbiddenWithGroupMember, blacklist and
\* CheckForbiddenLoop keep the deny list in step with it.
THEOREM MutedAreSilencedHolds == GroupSpec => []MutedAreSilenced
<1>1. GroupInv => MutedAreSilenced
  BY SettledStands DEF MutedAreSilenced, Stands, Idle
<1> QED BY <1>1, GroupInvHolds, PTL

\* A robot is in the group while the user it belongs to is, or after that user left as its
\* creator, or because the group was created with it: cascadeRemoveBotsInvitedByUIDTx.
THEOREM BotsFollowOwnerHolds == GroupSpec => []BotsFollowOwner
<1>1. GroupInv => BotsFollowOwner
  BY DEF GroupInv, Accompanied, Attended, BotsFollowOwner, Settled
<1> QED BY <1>1, GroupInvHolds, PTL

=============================================================================
