----------------------- MODULE MatterTransitionProofs -----------------------
(* Theorems about MatterTransition, for every family of matters and users. *)
EXTENDS MatterTransition, TLAPS

-----------------------------------------------------------------------------
(* Types of the operators a transition is built from. *)

\* A live parent is a matter, and its lead, like the next step's leader, is a
\* user or absent.
LEMMA FamilyTypes ==
    ASSUME TypeOK, NEW m \in Matter
    PROVE  /\ LiveParent(m) \in Matter \cup {None}
           /\ Creator[m] \in User
           /\ row[m] \in Row
           /\ row[m].leader \in User \cup {None}
           /\ LeadOf(m) \in User \cup {None}
           /\ NextLeader(m) \in User \cup {None}
<1>1. /\ LiveParent(m) \in Matter \cup {None}
      /\ Creator[m] \in User
      /\ row[m] \in Row
  BY FamilyAssumption DEF TypeOK, LiveParent
<1>2. row[m].leader \in User \cup {None}
  BY <1>1 DEF Row
<1>3. LeadOf(m) \in User \cup {None}
  BY <1>1, <1>2 DEF LeadOf
<1>4. NextSibling(m) \in Matter \cup {None}
  BY DEF NextSibling, LiveChildren
<1>5. NextLeader(m) \in User \cup {None}
  BY <1>4 DEF NextLeader, TypeOK, Row
<1> QED BY <1>1, <1>2, <1>3, <1>5

\* Ringing a user or nobody queues well-formed bells.
LEMMA RingType ==
    ASSUME NEW to \in User \cup {None}, NEW event \in Event
    PROVE  Ring(to, event) \subseteq Bell
BY DEF Ring, Bell

LEMMA HandBackBellsType ==
    ASSUME TypeOK, NEW m \in Matter
    PROVE  HandBackBells(m) \subseteq Bell
<1> DEFINE p == LiveParent(m)
<1>1. p \in Matter \cup {None} /\ None \notin Matter
  BY FamilyTypes, FamilyAssumption
<1>2. Ring(Creator[m], "handed_back") \subseteq Bell
  BY FamilyTypes, RingType DEF Event
<1>3. Homecoming(m) \subseteq Bell
  BY FamilyTypes, RingType DEF Homecoming, Event
<1>4. /\ Ring(NextLeader(m), "next_segment") \subseteq Bell
      /\ Ring(NextLeader(m), "verify") \subseteq Bell
  BY FamilyTypes, RingType DEF Event
<1>5. p # None => Ring(LeadOf(p), "child_handed_back") \subseteq Bell
  BY <1>1, FamilyTypes, RingType DEF Event
<1> QED BY <1>1, <1>2, <1>3, <1>4, <1>5 DEF HandBackBells

LEMMA TroubleBellsType ==
    ASSUME TypeOK, NEW m \in Matter, NEW event \in {"blocked", "cancelled"}
    PROVE  TroubleBells(m, event) \subseteq Bell
<1> DEFINE p == LiveParent(m)
<1>1. p \in Matter \cup {None} /\ None \notin Matter
  BY FamilyTypes, FamilyAssumption
<1>2. Ring(Creator[m], event) \subseteq Bell
  BY FamilyTypes, RingType DEF Event
<1>3. Homecoming(m) \subseteq Bell
  BY FamilyTypes, RingType DEF Homecoming, Event
<1>4. p # None => Ring(LeadOf(p), event) \subseteq Bell
  BY <1>1, FamilyTypes, RingType DEF Event
<1> QED BY <1>1, <1>2, <1>3, <1>4 DEF TroubleBells

\* Every route of the routing table rings users about known events.
LEMMA BellsType ==
    ASSUME TypeOK, NEW m \in Matter, NEW target \in Status, NEW by
    PROVE  Suppress(Bells(m, target), by) \subseteq Bell
<1>1. HandBackBells(m) \subseteq Bell
  BY HandBackBellsType
<1>2. /\ TroubleBells(m, "blocked") \subseteq Bell
      /\ TroubleBells(m, "cancelled") \subseteq Bell
  BY TroubleBellsType
<1>3. /\ Ring(row[m].leader, "cancelled") \subseteq Bell
      /\ Ring(row[m].leader, "feedback") \subseteq Bell
      /\ Ring(row[m].leader, "reflect") \subseteq Bell
      /\ Ring(row[m].leader, "done") \subseteq Bell
  BY FamilyTypes, RingType DEF Event
<1>4. UNION {Ring(u, "feedback") : u \in assignees[m]} \subseteq Bell
  BY RingType DEF TypeOK, Event
<1>5. Bells(m, target) \subseteq Bell
  BY <1>1, <1>2, <1>3, <1>4 DEF Bells
<1> QED BY <1>5 DEF Suppress

\* A transition writes well-formed rows.
LEMMA WrittenType ==
    ASSUME TypeOK, NEW m \in Matter, NEW target \in Status,
           NEW kind \in {"none", "agent", "system"}
    PROVE  Written(m, target, kind) \in [Matter -> Row]
<1> SUFFICES ASSUME NEW x \in Matter PROVE Written(m, target, kind)[x] \in Row
  BY DEF Written
<1>1. row[m] \in Row /\ row[x] \in Row
  BY DEF TypeOK
<1>2. [row[m] EXCEPT !.status = target, !.version = @ + 1, !.block = kind] \in Row
  <2>1. row[m].version + 1 \in Nat
    BY <1>1 DEF Row
  <2> QED BY <1>1, <2>1 DEF Row
<1>3. [row[x] EXCEPT !.eventsSeq = @ + 1] \in Row
  BY <1>1 DEF Row
<1> QED BY <1>1, <1>2, <1>3 DEF Written

LEMMA ApplyType ==
    ASSUME TypeOK, NEW m \in Matter, NEW target \in Status, NEW by \in User \cup {None},
           NEW op \in {"write", "system"}, NEW kind \in {"agent", "system"},
           NEW fenced \in BOOLEAN, Apply(m, target, by, op, kind, fenced)
    PROVE  row' \in [Matter -> Row] /\ last' \in Step
<1>1. row' \in [Matter -> Row]
  BY WrittenType DEF Apply
<1>2. Suppress(Bells(m, target), by) \in SUBSET Bell
  BY BellsType
<1>3. row[m].status \in Status
  BY DEF TypeOK, Row
<1>4. last' \in Step
  BY <1>2, <1>3 DEF Apply, Step
<1> QED BY <1>1, <1>4

-----------------------------------------------------------------------------
(* Type correctness. *)

LEMMA InitType == Init => TypeOK
BY FamilyAssumption DEF Init, TypeOK, Row, View, Step, Status

\* Every action keeps the types.
LEMMA NextType == TypeOK /\ [Next]_vars => TypeOK'
<1> SUFFICES ASSUME TypeOK, [Next]_vars PROVE TypeOK'
  OBVIOUS
<1> USE FamilyAssumption, InputAssumption
<1>1. ASSUME NEW u \in User, NEW m \in Matter, NEW target \in Target, Transition(u, m, target)
      PROVE  TypeOK'
  <2>1. PICK fenced \in BOOLEAN : Apply(m, target, u, "write", "agent", fenced)
    BY <1>1 DEF Transition
  <2>2. target \in Status
    OBVIOUS
  <2>3. row' \in [Matter -> Row] /\ last' \in Step
    BY <2>1, <2>2, ApplyType
  <2> QED BY <1>1, <2>3 DEF Transition, TypeOK
<1>2. ASSUME NEW u \in Reader, NEW m \in Matter, Read(u, m)
      PROVE  TypeOK'
  BY <1>2 DEF Read, TypeOK, Row, View
<1>3. ASSUME NEW m \in Matter, PrepareCreate(m)
      PROVE  TypeOK'
  BY <1>3 DEF PrepareCreate, Await, TypeOK, Request
<1>4. ASSUME NEW m \in Matter, NEW leader \in NewLeader, NEW team \in SUBSET Assignable,
             Insert(m, leader, team)
      PROVE  TypeOK'
  <2>1. row' \in [Matter -> Row]
    <3>1. row' = [row EXCEPT ![m].state = "live", ![m].leader = leader]
      BY <1>4 DEF Insert
    <3>2. row[m] \in Row /\ leader \in User \cup {None}
      BY DEF TypeOK
    <3>3. [row[m] EXCEPT !.state = "live", !.leader = leader] \in Row
      BY <3>2 DEF Row
    <3> QED BY <3>1, <3>3 DEF TypeOK
  <2>2. assignees' \in [Matter -> SUBSET User]
    BY <1>4 DEF Insert, TypeOK
  <2>3. pending' \subseteq Request
    BY <1>4 DEF Insert, TypeOK
  <2>4. UNION {Ring(u, "assigned") : u \in team \cup {leader}} \subseteq Bell
    BY RingType DEF Event
  <2>5. Suppress(UNION {Ring(u, "assigned") : u \in team \cup {leader}}, Creator[m])
           \in SUBSET Bell
    BY <2>4 DEF Suppress
  <2>6. last' \in Step
    BY <1>4, <2>5 DEF Insert, Step, Status
  <2> QED BY <1>4, <2>1, <2>2, <2>3, <2>6 DEF Insert, TypeOK
<1>5. ASSUME NEW u \in User, NEW m \in Matter, NEW leader \in NewLeader,
             ReadReassign(u, m, leader)
      PROVE  TypeOK'
  BY <1>5 DEF ReadReassign, Await, TypeOK, Request, Row
<1>6. ASSUME NEW r \in pending, UpdateLeader(r)
      PROVE  TypeOK'
  <2>1. r \in Request
    BY DEF TypeOK
  <2>2. r.m \in Matter /\ r.by \in User \cup {None}
        /\ r.who \in User \cup {None} /\ r.saw \in User \cup {None}
    BY <2>1 DEF Request
  <2>3. row' \in [Matter -> Row]
    <3>1. row' = [row EXCEPT ![r.m].leader = r.who, ![r.m].epoch = @ + 1,
                             ![r.m].version = @ + 1]
      BY <1>6 DEF UpdateLeader
    <3>2. [row[r.m] EXCEPT !.leader = r.who, !.epoch = @ + 1, !.version = @ + 1] \in Row
      <4>1. row[r.m] \in Row
        BY <2>2 DEF TypeOK
      <4>2. row[r.m].epoch + 1 \in Nat /\ row[r.m].version + 1 \in Nat
        BY <4>1 DEF Row
      <4> QED BY <2>2, <4>1, <4>2 DEF Row
    <3> QED BY <2>2, <3>1, <3>2 DEF TypeOK
  <2>4. Suppress(Ring(r.saw, "reassigned") \cup Ring(r.who, "assigned"), r.by)
           \in SUBSET Bell
    BY <2>2, RingType DEF Suppress, Event
  <2>5. row[r.m].status \in Status
    BY <2>2 DEF TypeOK, Row
  <2>6. last' \in Step
    BY <1>6, <2>2, <2>4, <2>5 DEF UpdateLeader, Step
  <2> QED BY <1>6, <2>3, <2>6 DEF UpdateLeader, TypeOK
<1>7. ASSUME NEW u \in Annotator, NEW m \in Matter, AddFeedback(u, m, row[m].leader)
      PROVE  TypeOK'
  <2>1. u \in User /\ row[m].leader \in User \cup {None} /\ row[m].status \in Status
    BY FamilyTypes DEF User, Row
  <2>2. pending' \subseteq Request
    BY <1>7, <2>1 DEF AddFeedback, Await, TypeOK, Request
  <2>3. Suppress(Ring(row[m].leader, "feedback"), u) \in SUBSET Bell
    BY <2>1, RingType DEF Suppress, Event
  <2>4. last' \in Step
    <3>1. CASE row[m].status = "review"
      BY <1>7, <3>1 DEF AddFeedback, TypeOK
    <3>2. CASE row[m].status # "review"
      <4>1. last' = [op |-> "feedback", by |-> u, m |-> m, from |-> row[m].status,
                     to |-> row[m].status, fenced |-> FALSE,
                     bells |-> Suppress(Ring(row[m].leader, "feedback"), u)]
        BY <1>7, <3>2 DEF AddFeedback
      <4> QED BY <2>1, <2>3, <4>1 DEF Step
    <3> QED BY <3>1, <3>2
  <2> QED BY <1>7, <2>2, <2>4 DEF AddFeedback, TypeOK
<1>8. ASSUME NEW r \in pending, SendBack(r)
      PROVE  TypeOK'
  <2>1. r.m \in Matter /\ r.by \in User \cup {None} /\ r.who \in User \cup {None}
    BY DEF TypeOK, Request
  <2>2. row[r.m].status \in Status
    BY <2>1 DEF TypeOK, Row
  <2>3. Suppress(Ring(r.who, "feedback"), r.by) \in SUBSET Bell
    BY <2>1, RingType DEF Suppress, Event
  <2>4. ASSUME Apply(r.m, "in_progress", r.by, "system", "system", FALSE)
        PROVE  row' \in [Matter -> Row] /\ last' \in Step
    BY <2>1, <2>4, ApplyType DEF Status
  <2>5. ASSUME UNCHANGED <<row, last>>
        PROVE  row' \in [Matter -> Row] /\ last' \in Step
    BY <2>5 DEF TypeOK
  <2>6. ASSUME last' = [op |-> "feedback", by |-> r.by, m |-> r.m, from |-> row[r.m].status,
                        to |-> row[r.m].status, fenced |-> FALSE,
                        bells |-> Suppress(Ring(r.who, "feedback"), r.by)],
               UNCHANGED row
        PROVE  row' \in [Matter -> Row] /\ last' \in Step
    BY <2>1, <2>2, <2>3, <2>6 DEF TypeOK, Step
  <2>7. row' \in [Matter -> Row] /\ last' \in Step
    BY <1>8, <2>4, <2>5, <2>6 DEF SendBack
  <2> QED BY <1>8, <2>7 DEF SendBack, TypeOK
<1>9. ASSUME NEW m \in Matter, ListSilent(m)
      PROVE  TypeOK'
  BY <1>9 DEF ListSilent, Await, TypeOK, Request
<1>10. ASSUME NEW r \in pending, BlockSilent(r)
       PROVE  TypeOK'
  <2>1. r.m \in Matter
    BY DEF TypeOK, Request
  <2>2. row' \in [Matter -> Row] /\ last' \in Step
    BY <1>10, <2>1, ApplyType DEF BlockSilent, TypeOK, Status
  <2> QED BY <1>10, <2>2 DEF BlockSilent, TypeOK
<1>11. ASSUME NEW u \in User, NEW m \in Matter, NEW who \in Assignable,
              ReadAssign(u, m, who) \/ ReadUnassign(u, m, who)
       PROVE  TypeOK'
  BY <1>11 DEF ReadAssign, ReadUnassign, Await, TypeOK, Request
<1>12. ASSUME NEW r \in pending, WriteAssignees(r)
       PROVE  TypeOK'
  <2>1. r.m \in Matter /\ r.who \in User \cup {None}
    BY DEF TypeOK, Request
  <2>2. r.who \in User
    BY <1>12 DEF WriteAssignees, TypeOK, Request
  <2> QED BY <1>12, <2>1, <2>2 DEF WriteAssignees, TypeOK
<1>13. ASSUME NEW u \in User, NEW m \in Matter, SoftDelete(u, m)
       PROVE  TypeOK'
  BY <1>13 DEF SoftDelete, TypeOK, Row
<1>14. CASE UNCHANGED vars
  BY <1>14 DEF vars, TypeOK
<1> QED BY <1>1, <1>2, <1>3, <1>4, <1>5, <1>6, <1>7, <1>8, <1>9, <1>10, <1>11, <1>12,
           <1>13, <1>14 DEF Next

\* Type correctness of the status machine.
THEOREM TypeCorrect == Spec => []TypeOK
BY InitType, NextType, PTL DEF Spec

-----------------------------------------------------------------------------
(* The fence and the compare-and-set. *)

\* What a reader holds was true of a live matter some time ago.
ViewsArePast ==
    \A u \in Reader : view[u].m # None =>
        LET now == row[view[u].m] IN
        /\ now.state # "absent"
        /\ view[u].version <= now.version
        /\ view[u].epoch <= now.epoch

\* The inductive invariant: on their own, VersionIsCurrent and EpochNamesLeader
\* say nothing of a view whose version is above the row's, which the next
\* transition could make current.
FencingInv == TypeOK /\ ViewsArePast /\ VersionIsCurrent /\ EpochNamesLeader

\* From `now` to `next` a row only moves forward: a change of status, leader or
\* epoch takes a new version, and a change of leader takes a new epoch.
Advances(now, next) ==
    now.state # "absent" =>
        /\ next.state # "absent"
        /\ now.epoch <= next.epoch
        /\ now.version <= next.version
        /\ next.version = now.version =>
              next.status = now.status /\ next.leader = now.leader /\ next.epoch = now.epoch
        /\ next.epoch = now.epoch => next.leader = now.leader

LEMMA SameRowAdvances == ASSUME NEW r \in Row PROVE Advances(r, r)
BY DEF Advances, Row

LEMMA ApplyAdvances ==
    ASSUME TypeOK, NEW m \in Matter, NEW target, NEW by, NEW op, NEW kind, NEW fenced,
           Apply(m, target, by, op, kind, fenced), NEW x \in Matter
    PROVE  Advances(row[x], row'[x])
<1>1. row[x] \in Row /\ row[x].version \in Nat /\ row[x].epoch \in Nat
  BY DEF TypeOK, Row
<1>2. CASE x = m
  <2>1. PICK k : row'[m] = [row[m] EXCEPT !.status = target, !.version = @ + 1, !.block = k]
    BY DEF Apply, Written
  <2>2. /\ row'[m].state = row[m].state /\ row'[m].leader = row[m].leader
        /\ row'[m].epoch = row[m].epoch /\ row'[m].version = row[m].version + 1
    BY <1>1, <1>2, <2>1 DEF Row
  <2> QED BY <1>1, <1>2, <2>2 DEF Advances
<1>3. CASE x # m
  <2>1. row'[x] = row[x] \/ row'[x] = [row[x] EXCEPT !.eventsSeq = @ + 1]
    BY <1>3 DEF Apply, Written
  <2> QED BY <1>1, <2>1 DEF Advances, Row
<1> QED BY <1>2, <1>3

LEMMA NextAdvances ==
    ASSUME TypeOK, [Next]_vars, NEW x \in Matter
    PROVE  Advances(row[x], row'[x])
<1> USE FamilyAssumption, InputAssumption
<1>0. row[x] \in Row /\ row[x].version \in Nat /\ row[x].epoch \in Nat
  BY DEF TypeOK, Row
<1>a. ASSUME UNCHANGED row PROVE Advances(row[x], row'[x])
  BY <1>a, <1>0, SameRowAdvances
<1>1. ASSUME NEW u \in User, NEW m \in Matter, NEW target \in Target, Transition(u, m, target)
      PROVE  Advances(row[x], row'[x])
  BY <1>1, ApplyAdvances DEF Transition
<1>2. ASSUME NEW u \in Reader, NEW m \in Matter, Read(u, m)
      PROVE  Advances(row[x], row'[x])
  BY <1>2, <1>a DEF Read
<1>3. ASSUME NEW m \in Matter, PrepareCreate(m)
      PROVE  Advances(row[x], row'[x])
  BY <1>3, <1>a DEF PrepareCreate
<1>4. ASSUME NEW m \in Matter, NEW leader \in NewLeader, NEW team \in SUBSET Assignable,
             Insert(m, leader, team)
      PROVE  Advances(row[x], row'[x])
  <2>1. row[m].state = "absent"
    BY <1>4 DEF Insert
  <2>2. row' = [row EXCEPT ![m].state = "live", ![m].leader = leader]
    BY <1>4 DEF Insert
  <2>3. x # m => row'[x] = row[x]
    BY <2>2 DEF TypeOK
  <2> QED BY <1>0, <2>1, <2>3, SameRowAdvances DEF Advances
<1>5. ASSUME NEW u \in User, NEW m \in Matter, NEW leader \in NewLeader,
             ReadReassign(u, m, leader)
      PROVE  Advances(row[x], row'[x])
  BY <1>5, <1>a DEF ReadReassign
<1>6. ASSUME NEW r \in pending, UpdateLeader(r)
      PROVE  Advances(row[x], row'[x])
  <2>1. row' = [row EXCEPT ![r.m].leader = r.who, ![r.m].epoch = @ + 1,
                           ![r.m].version = @ + 1]
    BY <1>6 DEF UpdateLeader
  <2>2. CASE x = r.m
    <3>1. /\ row'[x].state = row[x].state /\ row'[x].epoch = row[x].epoch + 1
          /\ row'[x].version = row[x].version + 1
      BY <1>0, <2>1, <2>2 DEF TypeOK, Row
    <3> QED BY <1>0, <3>1 DEF Advances
  <2>3. CASE x # r.m
    <3>1. row'[x] = row[x]
      BY <2>1, <2>3 DEF TypeOK
    <3> QED BY <1>0, <3>1, SameRowAdvances
  <2> QED BY <2>2, <2>3
<1>7. ASSUME NEW u \in Annotator, NEW m \in Matter, AddFeedback(u, m, row[m].leader)
      PROVE  Advances(row[x], row'[x])
  BY <1>7, <1>a DEF AddFeedback
<1>8. ASSUME NEW r \in pending, SendBack(r)
      PROVE  Advances(row[x], row'[x])
  <2>1. r.m \in Matter
    BY DEF TypeOK, Request
  <2> QED BY <1>8, <1>a, <2>1, ApplyAdvances DEF SendBack
<1>9. ASSUME NEW m \in Matter, ListSilent(m)
      PROVE  Advances(row[x], row'[x])
  BY <1>9, <1>a DEF ListSilent
<1>10. ASSUME NEW r \in pending, BlockSilent(r)
       PROVE  Advances(row[x], row'[x])
  <2>1. r.m \in Matter
    BY DEF TypeOK, Request
  <2> QED BY <1>10, <1>a, <2>1, ApplyAdvances DEF BlockSilent
<1>11. ASSUME NEW u \in User, NEW m \in Matter, NEW who \in Assignable,
              ReadAssign(u, m, who) \/ ReadUnassign(u, m, who)
       PROVE  Advances(row[x], row'[x])
  BY <1>11, <1>a DEF ReadAssign, ReadUnassign
<1>12. ASSUME NEW r \in pending, WriteAssignees(r)
       PROVE  Advances(row[x], row'[x])
  BY <1>12, <1>a DEF WriteAssignees
<1>13. ASSUME NEW u \in User, NEW m \in Matter, SoftDelete(u, m)
       PROVE  Advances(row[x], row'[x])
  <2>1. row' = [row EXCEPT ![m].state = "deleted"]
    BY <1>13 DEF SoftDelete
  <2>2. x # m => row'[x] = row[x]
    BY <2>1 DEF TypeOK
  <2>3. x = m => row'[x] = [row[x] EXCEPT !.state = "deleted"]
    BY <2>1 DEF TypeOK
  <2> QED BY <1>0, <2>2, <2>3, SameRowAdvances DEF Advances, Row
<1>14. CASE UNCHANGED vars
  BY <1>14, <1>a DEF vars
<1> QED BY <1>1, <1>2, <1>3, <1>4, <1>5, <1>6, <1>7, <1>8, <1>9, <1>10, <1>11, <1>12,
           <1>13, <1>14 DEF Next

\* Only Read changes what a reader holds, and Read changes no row.
LEMMA ViewsChangeByRead ==
    ASSUME [Next]_vars
    PROVE  \/ UNCHANGED view
           \/ \E u \in Reader, m \in Matter : Read(u, m)
BY DEF Next, vars, Transition, PrepareCreate, Insert, ReadReassign, UpdateLeader, AddFeedback,
       SendBack, ListSilent, BlockSilent, ReadAssign, ReadUnassign, WriteAssignees, SoftDelete

LEMMA InitFencing == Init => FencingInv
<1> SUFFICES ASSUME Init PROVE FencingInv
  OBVIOUS
<1>1. TypeOK
  BY InitType
<1>2. \A u \in Reader : view[u].m = None
  BY DEF Init
<1> QED BY <1>1, <1>2 DEF FencingInv, ViewsArePast, VersionIsCurrent, EpochNamesLeader

LEMMA NextFencing == FencingInv /\ [Next]_vars => FencingInv'
<1> SUFFICES ASSUME FencingInv, [Next]_vars PROVE FencingInv'
  OBVIOUS
<1>1. TypeOK /\ TypeOK'
  BY NextType DEF FencingInv
<1> SUFFICES ASSUME NEW u \in Reader, view'[u].m # None
             PROVE  LET v == view'[u]
                        now == row'[view'[u].m] IN
                    /\ now.state # "absent" /\ v.version <= now.version /\ v.epoch <= now.epoch
                    /\ v.version = now.version => /\ v.status = now.status
                                                 /\ v.leader = now.leader
                                                 /\ v.epoch = now.epoch
                    /\ v.epoch = now.epoch => v.leader = now.leader
  BY <1>1 DEF FencingInv, ViewsArePast, VersionIsCurrent, EpochNamesLeader
<1>2. CASE UNCHANGED view
  <2> DEFINE m == view[u].m
  <2>1. m \in Matter /\ view[u].version \in Nat /\ view[u].epoch \in Nat /\ view'[u] = view[u]
    BY <1>1, <1>2 DEF TypeOK, View
  <2>2. row[m].version \in Nat /\ row[m].epoch \in Nat
        /\ row'[m].version \in Nat /\ row'[m].epoch \in Nat
    BY <1>1, <2>1 DEF TypeOK, Row
  <2>3. row[m].state # "absent" /\ view[u].version <= row[m].version
        /\ view[u].epoch <= row[m].epoch
    BY <2>1 DEF FencingInv, ViewsArePast
  <2>4. view[u].version = row[m].version => /\ view[u].status = row[m].status
                                           /\ view[u].leader = row[m].leader
                                           /\ view[u].epoch = row[m].epoch
    BY <2>1 DEF FencingInv, VersionIsCurrent
  <2>5. view[u].epoch = row[m].epoch => view[u].leader = row[m].leader
    BY <2>1 DEF FencingInv, EpochNamesLeader
  <2>6. Advances(row[m], row'[m])
    BY <1>1, <2>1, NextAdvances
  <2> QED BY <2>1, <2>2, <2>3, <2>4, <2>5, <2>6 DEF Advances
<1>3. ASSUME NEW r \in Reader, NEW m \in Matter, Read(r, m)
      PROVE  LET v == view'[u]
                 now == row'[view'[u].m] IN
             /\ now.state # "absent" /\ v.version <= now.version /\ v.epoch <= now.epoch
             /\ v.version = now.version => /\ v.status = now.status
                                          /\ v.leader = now.leader
                                          /\ v.epoch = now.epoch
             /\ v.epoch = now.epoch => v.leader = now.leader
  <2>1. row' = row
    BY <1>3 DEF Read
  <2>2. CASE u = r
    <3>1. view'[u] = [m |-> m, status |-> row[m].status, leader |-> row[m].leader,
                      epoch |-> row[m].epoch, version |-> row[m].version]
      BY <1>1, <1>3, <2>2 DEF Read, TypeOK
    <3>2. row[m].state # "absent" /\ row[m].version \in Nat /\ row[m].epoch \in Nat
      BY <1>1, <1>3 DEF Read, Live, TypeOK, Row
    <3> QED BY <2>1, <3>1, <3>2
  <2>3. CASE u # r
    <3>1. view'[u] = view[u]
      BY <1>1, <1>3, <2>3 DEF Read, TypeOK
    <3> QED BY <2>1, <3>1 DEF FencingInv, ViewsArePast, VersionIsCurrent, EpochNamesLeader
  <2> QED BY <2>2, <2>3
<1> QED BY <1>2, <1>3, ViewsChangeByRead

\* The compare-and-set on the version is sound: a guard that still holds proves
\* that the status, the leader and the epoch are those the caller read.
THEOREM VersionSound == Spec => []VersionIsCurrent
<1>1. FencingInv => VersionIsCurrent
  BY DEF FencingInv
<1> QED BY <1>1, InitFencing, NextFencing, PTL DEF Spec

\* The fence token is sound: the epoch names one tenure of one leader.
THEOREM EpochSound == Spec => []EpochNamesLeader
<1>1. FencingInv => EpochNamesLeader
  BY DEF FencingInv
<1> QED BY <1>1, InitFencing, NextFencing, PTL DEF Spec

-----------------------------------------------------------------------------
(* Who writes statuses. *)

LEMMA WrittenStatus ==
    ASSUME TypeOK, NEW m \in Matter, NEW target, NEW kind, row' = Written(m, target, kind),
           NEW x \in Matter, row'[x].status # row[x].status
    PROVE  x = m /\ row'[m].status = target
<1>1. row[x] \in Row
  BY DEF TypeOK
<1>2. CASE x # m
  <2>1. row'[x] = row[x] \/ row'[x] = [row[x] EXCEPT !.eventsSeq = @ + 1]
    BY <1>2 DEF Written
  <2> QED BY <1>1, <2>1 DEF Row
<1>3. CASE x = m
  <2>1. row'[m] = [row[m] EXCEPT !.status = target, !.version = @ + 1, !.block = kind]
    BY DEF Written
  <2> QED BY <1>1, <1>3, <2>1 DEF Row
<1> QED BY <1>2, <1>3

\* A status changes in a caller's transition, or in the system's: the flip that
\* feedback derives and the watchdog's block.
LEMMA StatusWriters ==
    ASSUME TypeOK, [Next]_vars, NEW x \in Matter, row'[x].status # row[x].status
    PROVE  \/ \E u \in User, target \in Target :
                 Transition(u, x, target) /\ row'[x].status = target
           \/ row'[x].status \in {"in_progress", "blocked"} /\ ~last'.fenced
<1> USE FamilyAssumption, InputAssumption
<1>0. row[x] \in Row
  BY DEF TypeOK
<1>1. ASSUME NEW u \in User, NEW m \in Matter, NEW target \in Target, Transition(u, m, target)
      PROVE  x = m /\ row'[x].status = target
  <2>1. PICK kind : row' = Written(m, target, kind)
    BY <1>1 DEF Transition, Apply
  <2> QED BY <2>1, WrittenStatus
<1>2. ASSUME NEW r \in pending, SendBack(r)
      PROVE  row'[x].status \in {"in_progress", "blocked"} /\ ~last'.fenced
  <2>1. r.m \in Matter
    BY DEF TypeOK, Request
  <2>2. Apply(r.m, "in_progress", r.by, "system", "system", FALSE)
    BY <1>2 DEF SendBack
  <2>3. PICK kind : row' = Written(r.m, "in_progress", kind) /\ ~last'.fenced
    BY <2>2 DEF Apply
  <2>4. x = r.m /\ row'[r.m].status = "in_progress"
    BY <2>1, <2>3, WrittenStatus
  <2> QED BY <2>3, <2>4
<1>3. ASSUME NEW r \in pending, BlockSilent(r)
      PROVE  row'[x].status \in {"in_progress", "blocked"} /\ ~last'.fenced
  <2>1. r.m \in Matter
    BY DEF TypeOK, Request
  <2>2. Apply(r.m, "blocked", None, "system", "system", FALSE)
    BY <1>3 DEF BlockSilent
  <2>3. PICK kind : row' = Written(r.m, "blocked", kind) /\ ~last'.fenced
    BY <2>2 DEF Apply
  <2>4. x = r.m /\ row'[r.m].status = "blocked"
    BY <2>1, <2>3, WrittenStatus
  <2> QED BY <2>3, <2>4
<1>4. ASSUME NEW m \in Matter, NEW leader \in NewLeader, NEW team \in SUBSET Assignable,
             Insert(m, leader, team)
      PROVE  FALSE
  <2>1. row' = [row EXCEPT ![m].state = "live", ![m].leader = leader]
    BY <1>4 DEF Insert
  <2> QED BY <1>0, <2>1 DEF TypeOK, Row
<1>5. ASSUME NEW r \in pending, UpdateLeader(r)
      PROVE  FALSE
  <2>1. row' = [row EXCEPT ![r.m].leader = r.who, ![r.m].epoch = @ + 1,
                           ![r.m].version = @ + 1]
    BY <1>5 DEF UpdateLeader
  <2> QED BY <1>0, <2>1 DEF TypeOK, Row
<1>6. ASSUME NEW u \in User, NEW m \in Matter, SoftDelete(u, m)
      PROVE  FALSE
  <2>1. row' = [row EXCEPT ![m].state = "deleted"]
    BY <1>6 DEF SoftDelete
  <2> QED BY <1>0, <2>1 DEF TypeOK, Row
<1>7. ~UNCHANGED row
  OBVIOUS
<1>8. \/ \E u \in User, m \in Matter, target \in Target : Transition(u, m, target)
      \/ \E m \in Matter, leader \in NewLeader, team \in SUBSET Assignable :
            Insert(m, leader, team)
      \/ \E r \in pending : UpdateLeader(r) \/ SendBack(r) \/ BlockSilent(r)
      \/ \E u \in User, m \in Matter : SoftDelete(u, m)
  BY <1>7 DEF Next, vars, Read, PrepareCreate, ReadReassign, AddFeedback, ListSilent,
              ReadAssign, ReadUnassign, WriteAssignees
<1>9. CASE \E u \in User, m \in Matter, target \in Target : Transition(u, m, target)
  <2>1. PICK u \in User, m \in Matter, target \in Target : Transition(u, m, target)
    BY <1>9
  <2>2. x = m /\ row'[x].status = target
    BY <1>1, <2>1
  <2> QED BY <2>1, <2>2
<1>10. CASE \E r \in pending : SendBack(r)
  BY <1>2, <1>10
<1>11. CASE \E r \in pending : BlockSilent(r)
  BY <1>3, <1>11
<1> QED BY <1>4, <1>5, <1>6, <1>8, <1>9, <1>10, <1>11

\* Epoch fencing: whenever a bot that named its epoch, and is neither assigned nor
\* leading the parent, changes a status, it has led the matter since it read it.
THEOREM FenceHolds == Spec => FencedBotStillLeads
<1> DEFINE Fenced(m) ==
        (row'[m].status # row[m].status /\ last'.fenced)
        => LET b == last'.by IN
           (b \in Bot /\ b \notin assignees[m] /\ ~LeadsParent({b}, m))
              => view[b].m = m /\ view[b].leader = b /\ row[m].leader = b
<1>1. ASSUME FencingInv, [Next]_vars, NEW m \in Matter
      PROVE  Fenced(m)
  <2> SUFFICES ASSUME row'[m].status # row[m].status, last'.fenced,
                      last'.by \in Bot, last'.by \notin assignees[m],
                      ~LeadsParent({last'.by}, m)
               PROVE  /\ view[last'.by].m = m /\ view[last'.by].leader = last'.by
                      /\ row[m].leader = last'.by
    OBVIOUS
  <2>2. PICK u \in User, target \in Target : Transition(u, m, target)
    BY <1>1, StatusWriters DEF FencingInv
  <2>a. PICK epoch \in Seen(u, m, IF u \in Reader THEN view[u].epoch ELSE None) :
           Fence(u, m, epoch) /\ Apply(m, target, u, "write", "agent", epoch # None)
    BY <2>2 DEF Transition
  <2>3. Fence(u, m, epoch) /\ last'.by = u /\ last'.fenced = (epoch # None)
    BY <2>a DEF Apply
  <2>4. u \in Reader /\ view[u].m = m /\ epoch = view[u].epoch
    BY <2>3 DEF Seen
  <2>5. epoch = row[m].epoch /\ row[m].leader = u
    BY <2>3 DEF Fence, Responsible
  <2>6. m # None
    BY FamilyAssumption
  <2> QED BY <1>1, <2>3, <2>4, <2>5, <2>6 DEF FencingInv, EpochNamesLeader
<1>2. FencingInv /\ [Next]_vars => [\A m \in Matter : Fenced(m)]_vars
  BY <1>1
<1> QED BY <1>2, InitFencing, NextFencing, PTL DEF Spec, FencedBotStillLeads

\* No self-grading, for every family: the bot that leads a matter or is assigned
\* to it never completes it, nor does any bot complete a top-level matter.
THEOREM NobodyGradesItself == Spec => NoSelfAcceptance
<1> DEFINE Judged(m) ==
        Enters(m, "done")
          => /\ last'.by \in User
             /\ last'.by \in Bot => LiveParent(m) # None /\ ~Responsible(last'.by, m)
<1>1. ASSUME TypeOK, [Next]_vars, NEW m \in Matter, Enters(m, "done")
      PROVE  /\ last'.by \in User
             /\ last'.by \in Bot => LiveParent(m) # None /\ ~Responsible(last'.by, m)
  <2>1. PICK u \in User : Transition(u, m, "done")
    BY <1>1, StatusWriters DEF Enters
  <2>a. PICK epoch : /\ Fence(u, m, epoch) /\ Authorized(u, m, "done")
                     /\ Apply(m, "done", u, "write", "agent", epoch # None)
    BY <2>1 DEF Transition
  <2>2. last'.by = u /\ MayAccept(u, m) /\ Fence(u, m, epoch)
    BY <2>a DEF Apply, Authorized
  <2>3. ASSUME u \in Bot PROVE LiveParent(m) # None /\ ~Responsible(u, m)
    <3>1. ~Responsible(u, m)
      BY <2>2, <2>3 DEF MayAccept
    <3>2. LiveParent(m) # None
      BY <2>2, <2>3, <3>1 DEF Fence, LeadsParent
    <3> QED BY <3>1, <3>2
  <2> QED BY <2>2, <2>3
<1>2. TypeOK /\ [Next]_vars => [\A m \in Matter : Judged(m)]_vars
  BY <1>1
<1> QED BY <1>2, InitType, NextType, PTL DEF Spec, NoSelfAcceptance

-----------------------------------------------------------------------------
(* What a transition writes besides the status. *)

\* The actions that write the matters table.
LEMMA RowWriters ==
    ASSUME TypeOK, [Next]_vars, ~UNCHANGED row
    PROVE  \/ \E u \in User, m \in Matter, target \in Target : Transition(u, m, target)
           \/ \E m \in Matter, leader \in NewLeader, team \in SUBSET Assignable :
                 Insert(m, leader, team)
           \/ \E r \in pending : UpdateLeader(r) \/ SendBack(r) \/ BlockSilent(r)
           \/ \E u \in User, m \in Matter : SoftDelete(u, m)
BY DEF Next, vars, Read, PrepareCreate, ReadReassign, AddFeedback, ListSilent,
       ReadAssign, ReadUnassign, WriteAssignees

\* Only an insertion makes a row live, and none but a transition or the system's
\* writes move a status.
LEMMA LifeAndStatus ==
    ASSUME TypeOK, [Next]_vars, NEW x \in Matter
    PROVE  \/ row'[x].state = row[x].state
           \/ /\ row[x].state = "absent" /\ row'[x].state = "live"
              /\ row'[x].status = row[x].status /\ last'.op = "insert"
           \/ row'[x].state = "deleted"
<1> USE FamilyAssumption, InputAssumption
<1>0. row[x] \in Row
  BY DEF TypeOK
<1>a. ASSUME NEW m \in Matter, NEW target, NEW by, NEW op, NEW kind, NEW fenced,
             Apply(m, target, by, op, kind, fenced)
      PROVE  row'[x].state = row[x].state
  <2>1. PICK k : row' = Written(m, target, k)
    BY <1>a DEF Apply
  <2> QED BY <1>0, <2>1 DEF Written, Row
<1>1. CASE UNCHANGED row
  BY <1>1
<1>2. ASSUME NEW u \in User, NEW m \in Matter, NEW target \in Target, Transition(u, m, target)
      PROVE  row'[x].state = row[x].state
  BY <1>2, <1>a DEF Transition
<1>3. ASSUME NEW m \in Matter, NEW leader \in NewLeader, NEW team \in SUBSET Assignable,
             Insert(m, leader, team)
      PROVE  \/ row'[x].state = row[x].state
             \/ /\ row[x].state = "absent" /\ row'[x].state = "live"
                /\ row'[x].status = row[x].status /\ last'.op = "insert"
  <2>1. /\ row[m].state = "absent"
        /\ row' = [row EXCEPT ![m].state = "live", ![m].leader = leader]
        /\ last'.op = "insert"
    BY <1>3 DEF Insert
  <2>2. CASE x = m
    BY <1>0, <2>1, <2>2 DEF TypeOK, Row
  <2>3. CASE x # m
    BY <2>1, <2>3 DEF TypeOK
  <2> QED BY <2>2, <2>3
<1>4. ASSUME NEW r \in pending, UpdateLeader(r)
      PROVE  row'[x].state = row[x].state
  <2>1. row' = [row EXCEPT ![r.m].leader = r.who, ![r.m].epoch = @ + 1,
                           ![r.m].version = @ + 1]
    BY <1>4 DEF UpdateLeader
  <2> QED BY <1>0, <2>1 DEF TypeOK, Row
<1>5. ASSUME NEW r \in pending, SendBack(r) \/ BlockSilent(r)
      PROVE  row'[x].state = row[x].state
  <2>1. r.m \in Matter
    BY DEF TypeOK, Request
  <2>2. CASE SendBack(r)
    BY <1>a, <2>1, <2>2 DEF SendBack
  <2>3. CASE BlockSilent(r)
    BY <1>a, <2>1, <2>3 DEF BlockSilent
  <2> QED BY <1>5, <2>2, <2>3
<1>6. ASSUME NEW u \in User, NEW m \in Matter, SoftDelete(u, m)
      PROVE  row'[x].state = row[x].state \/ row'[x].state = "deleted"
  <2>1. row' = [row EXCEPT ![m].state = "deleted"]
    BY <1>6 DEF SoftDelete
  <2> QED BY <1>0, <2>1 DEF TypeOK, Row
<1>7. CASE ~UNCHANGED row
  BY <1>2, <1>3, <1>4, <1>5, <1>6, <1>7, RowWriters
<1> QED BY <1>1, <1>7

\* A transition writes a reason with every block and clears it otherwise.
LEMMA ApplyBlocks ==
    ASSUME TypeOK, BlockReasonMatches, NEW m \in Matter, NEW target \in Status, NEW by, NEW op,
           NEW kind \in {"agent", "system"}, NEW fenced,
           Apply(m, target, by, op, kind, fenced)
    PROVE  BlockReasonMatches'
<1> SUFFICES ASSUME NEW x \in Matter
             PROVE  (row'[x].block # "none") <=> (row'[x].status = "blocked")
  BY DEF BlockReasonMatches
<1> DEFINE k == IF target = "blocked" THEN kind ELSE "none"
<1>1. row' = Written(m, target, k)
  BY DEF Apply
<1>2. row[x] \in Row /\ ((row[x].block # "none") <=> (row[x].status = "blocked"))
  BY DEF TypeOK, BlockReasonMatches
<1>3. (k # "none") <=> (target = "blocked")
  OBVIOUS
<1> HIDE DEF k
<1>4. CASE x = m
  <2>1. row'[x] = [row[x] EXCEPT !.status = target, !.version = @ + 1, !.block = k]
    BY <1>1, <1>4 DEF Written
  <2>2. row'[x].status = target /\ row'[x].block = k
    BY <1>2, <2>1 DEF Row
  <2> QED BY <1>3, <2>2
<1>5. CASE x # m
  <2>1. row'[x] = row[x] \/ row'[x] = [row[x] EXCEPT !.eventsSeq = @ + 1]
    BY <1>1, <1>5 DEF Written
  <2>2. row'[x].status = row[x].status /\ row'[x].block = row[x].block
    BY <1>2, <2>1 DEF Row
  <2> QED BY <1>2, <2>2
<1> QED BY <1>4, <1>5

LEMMA NextBlocks == TypeOK /\ BlockReasonMatches /\ [Next]_vars => BlockReasonMatches'
<1> SUFFICES ASSUME TypeOK, BlockReasonMatches, [Next]_vars PROVE BlockReasonMatches'
  OBVIOUS
<1> USE FamilyAssumption, InputAssumption
<1>0. /\ \A x \in Matter : row[x] \in Row
      /\ \A x \in Matter : (row[x].block # "none") <=> (row[x].status = "blocked")
  BY DEF TypeOK, BlockReasonMatches
<1>1. CASE UNCHANGED row
  BY <1>1 DEF BlockReasonMatches
<1>2. ASSUME NEW u \in User, NEW m \in Matter, NEW target \in Target, Transition(u, m, target)
      PROVE  BlockReasonMatches'
  <2>1. target \in Status
    OBVIOUS
  <2> QED BY <1>2, <2>1, ApplyBlocks DEF Transition
<1>3. ASSUME NEW m \in Matter, NEW leader \in NewLeader, NEW team \in SUBSET Assignable,
             Insert(m, leader, team)
      PROVE  BlockReasonMatches'
  <2>1. row' = [row EXCEPT ![m].state = "live", ![m].leader = leader]
    BY <1>3 DEF Insert
  <2>2. \A x \in Matter : row'[x].status = row[x].status /\ row'[x].block = row[x].block
    BY <1>0, <2>1 DEF TypeOK, Row
  <2> QED BY <1>0, <2>2 DEF BlockReasonMatches
<1>4. ASSUME NEW r \in pending, UpdateLeader(r)
      PROVE  BlockReasonMatches'
  <2>1. row' = [row EXCEPT ![r.m].leader = r.who, ![r.m].epoch = @ + 1,
                           ![r.m].version = @ + 1]
    BY <1>4 DEF UpdateLeader
  <2>2. \A x \in Matter : row'[x].status = row[x].status /\ row'[x].block = row[x].block
    BY <1>0, <2>1 DEF TypeOK, Row
  <2> QED BY <1>0, <2>2 DEF BlockReasonMatches
<1>5. ASSUME NEW r \in pending, SendBack(r) \/ BlockSilent(r)
      PROVE  BlockReasonMatches'
  <2>1. r.m \in Matter
    BY DEF TypeOK, Request
  <2>2. "in_progress" \in Status /\ "blocked" \in Status
    BY DEF Status
  <2>3. CASE SendBack(r)
    BY <1>1, <2>1, <2>2, <2>3, ApplyBlocks DEF SendBack
  <2>4. CASE BlockSilent(r)
    BY <1>1, <2>1, <2>2, <2>4, ApplyBlocks DEF BlockSilent
  <2> QED BY <1>5, <2>3, <2>4
<1>6. ASSUME NEW u \in User, NEW m \in Matter, SoftDelete(u, m)
      PROVE  BlockReasonMatches'
  <2>1. row' = [row EXCEPT ![m].state = "deleted"]
    BY <1>6 DEF SoftDelete
  <2>2. \A x \in Matter : row'[x].status = row[x].status /\ row'[x].block = row[x].block
    BY <1>0, <2>1 DEF TypeOK, Row
  <2> QED BY <1>0, <2>2 DEF BlockReasonMatches
<1>7. CASE ~UNCHANGED row
  BY <1>2, <1>3, <1>4, <1>5, <1>6, <1>7, RowWriters
<1> QED BY <1>1, <1>7

\* A block reason is stored exactly while the matter is blocked, whoever writes the row.
THEOREM BlockReasonSound == Spec => []BlockReasonMatches
<1>1. Init => BlockReasonMatches
  BY DEF Init, BlockReasonMatches
<1> QED BY <1>1, InitType, NextType, NextBlocks, PTL DEF Spec

-----------------------------------------------------------------------------
(* Hand-backs. *)

\* A bell rung for somebody else than the caller survives the suppression.
LEMMA RingReaches ==
    ASSUME NEW judge \in User, NEW event, NEW bells, NEW by, Ring(judge, event) \subseteq bells
    PROVE  judge = by \/ \E b \in Suppress(bells, by) : b.to = judge
<1> DEFINE b == [to |-> judge, event |-> event]
<1>1. b \in Ring(judge, event)
  BY FamilyAssumption DEF Ring
<1>2. judge # by => b \in Suppress(bells, by)
  BY <1>1 DEF Suppress
<1> QED BY <1>2

LEMMA HandBackRings ==
    ASSUME TypeOK, NEW m \in Matter, NEW by
    PROVE  \E judge \in User :
              /\ \/ LiveParent(m) = None /\ judge = Creator[m]
                 \/ LiveParent(m) # None /\ judge = LeadOf(LiveParent(m))
                 \/ /\ LiveParent(m) # None /\ Mode[LiveParent(m)] = "critic"
                    /\ judge = NextLeader(m)
              /\ judge = by \/ \E b \in Suppress(HandBackBells(m), by) : b.to = judge
<1> DEFINE p == LiveParent(m)
<1>1. CASE p = None
  <2>1. Creator[m] \in User
    BY FamilyTypes
  <2>2. Ring(Creator[m], "handed_back") \subseteq HandBackBells(m)
    BY <1>1 DEF HandBackBells
  <2> QED BY <1>1, <2>1, <2>2, RingReaches
<1>2. CASE p # None
  <2>1. p \in Matter /\ None \notin User
    BY <1>2, FamilyTypes, FamilyAssumption
  <2>2. LeadOf(p) \in User
    BY <2>1, FamilyTypes DEF LeadOf
  <2>3. CASE Mode[p] = "critic" /\ NextLeader(m) # None
    <3>1. NextLeader(m) \in User
      BY <2>3, FamilyTypes
    <3>2. Ring(NextLeader(m), "verify") \subseteq HandBackBells(m)
      BY <1>2, <2>3 DEF HandBackBells
    <3> QED BY <1>2, <2>3, <3>1, <3>2, RingReaches
  <2>4. CASE ~(Mode[p] = "critic" /\ NextLeader(m) # None)
    <3>1. Ring(LeadOf(p), "child_handed_back") \subseteq HandBackBells(m)
      BY <1>2, <2>4 DEF HandBackBells
    <3> QED BY <1>2, <2>2, <3>1, RingReaches
  <2> QED BY <2>3, <2>4
<1> QED BY <1>1, <1>2

\* Whoever must judge a hand-back is rung or handed it back, in every family and mode.
THEOREM JudgesAreRung == Spec => HandBackIsHeard
<1> DEFINE Heard(m) ==
        Enters(m, "review")
          => \E judge \in User :
                /\ \/ LiveParent(m) = None /\ judge = Creator[m]
                   \/ LiveParent(m) # None /\ judge = LeadOf(LiveParent(m))
                   \/ /\ LiveParent(m) # None /\ Mode[LiveParent(m)] = "critic"
                      /\ judge = NextLeader(m)
                /\ judge = last'.by \/ \E b \in last'.bells : b.to = judge
<1>1. ASSUME TypeOK, [Next]_vars, NEW m \in Matter, Enters(m, "review")
      PROVE  Heard(m)
  <2>1. PICK u \in User : Transition(u, m, "review")
    BY <1>1, StatusWriters DEF Enters
  <2>2. PICK fenced : Apply(m, "review", u, "write", "agent", fenced)
    BY <2>1 DEF Transition
  <2>3. last'.by = u /\ last'.bells = Suppress(Bells(m, "review"), u)
    BY <2>2 DEF Apply
  <2>4. Bells(m, "review") = HandBackBells(m)
    BY DEF Bells
  <2> QED BY <1>1, <2>3, <2>4, HandBackRings
<1>2. TypeOK /\ [Next]_vars => [\A m \in Matter : Heard(m)]_vars
  BY <1>1
<1> QED BY <1>2, InitType, NextType, PTL DEF Spec, HandBackIsHeard

-----------------------------------------------------------------------------
(* Completed parents. *)

\* A matter that is not yet inserted has the status it will be inserted with.
AbsentIsOpen == \A m \in Matter : row[m].state = "absent" => row[m].status = "open"

LEMMA NextAbsent == TypeOK /\ AbsentIsOpen /\ [Next]_vars => AbsentIsOpen'
<1> SUFFICES ASSUME TypeOK, AbsentIsOpen, [Next]_vars, NEW x \in Matter,
                    row'[x].state = "absent"
             PROVE  row'[x].status = "open"
  BY DEF AbsentIsOpen
<1>1. row[x].state = "absent" /\ row[x].status = "open"
  BY LifeAndStatus DEF AbsentIsOpen
<1>2. ~Live(x)
  BY <1>1 DEF Live
<1>3. CASE UNCHANGED row
  BY <1>1, <1>3
<1>4. ASSUME NEW m \in Matter, NEW target, NEW by, NEW op, NEW kind, NEW fenced,
             Apply(m, target, by, op, kind, fenced)
      PROVE  row'[x].status = "open"
  <2>1. x # m
    BY <1>2, <1>4 DEF Apply
  <2>2. row'[x].status = row[x].status
    BY <1>4, <2>1, WrittenStatus DEF Apply
  <2> QED BY <1>1, <2>2
<1> USE InputAssumption
<1>5. ASSUME NEW u \in User, NEW m \in Matter, NEW target \in Target, Transition(u, m, target)
      PROVE  row'[x].status = "open"
  BY <1>4, <1>5 DEF Transition
<1>6. ASSUME NEW r \in pending, SendBack(r) \/ BlockSilent(r)
      PROVE  row'[x].status = "open"
  <2>1. r.m \in Matter
    BY DEF TypeOK, Request
  <2> QED BY <1>3, <1>4, <1>6, <2>1 DEF SendBack, BlockSilent
<1>7. ASSUME \/ \E m \in Matter, leader \in NewLeader, team \in SUBSET Assignable :
                   Insert(m, leader, team)
             \/ \E r \in pending : UpdateLeader(r)
             \/ \E u \in User, m \in Matter : SoftDelete(u, m)
      PROVE  row'[x].status = "open"
  <2>1. row[x] \in Row
    BY DEF TypeOK
  <2>2. ASSUME NEW m \in Matter, NEW leader, NEW team, Insert(m, leader, team)
        PROVE  row'[x].status = row[x].status
    <3>1. row' = [row EXCEPT ![m].state = "live", ![m].leader = leader]
      BY <2>2 DEF Insert
    <3> QED BY <2>1, <3>1 DEF TypeOK, Row
  <2>3. ASSUME NEW r \in pending, UpdateLeader(r)
        PROVE  row'[x].status = row[x].status
    <3>1. row' = [row EXCEPT ![r.m].leader = r.who, ![r.m].epoch = @ + 1,
                             ![r.m].version = @ + 1]
      BY <2>3 DEF UpdateLeader
    <3> QED BY <2>1, <3>1 DEF TypeOK, Row
  <2>4. ASSUME NEW u \in User, NEW m \in Matter, SoftDelete(u, m)
        PROVE  row'[x].status = row[x].status
    <3>1. row' = [row EXCEPT ![m].state = "deleted"]
      BY <2>4 DEF SoftDelete
    <3> QED BY <2>1, <3>1 DEF TypeOK, Row
  <2> QED BY <1>1, <1>7, <2>2, <2>3, <2>4
<1>8. CASE ~UNCHANGED row
  BY <1>5, <1>6, <1>7, <1>8, RowWriters
<1> QED BY <1>3, <1>8

LEMMA SettledStep ==
    ASSUME TypeOK, AbsentIsOpen, [Next]_vars, NEW m \in Matter, ~Unfinished(m), Unfinished(m)'
    PROVE  \E c \in Matter :
              /\ Parent[c] = m
              /\ \/ ~Live(c) /\ last'.op = "insert"
                 \/ row[c].status \in Terminal /\ row'[c].status \notin Terminal
<1> USE FamilyAssumption, InputAssumption
<1>1. PICK c \in Matter : /\ Parent[c] = m /\ row'[c].state = "live"
                          /\ row'[c].status \notin Terminal
  BY DEF Unfinished, LiveChildren, Live
<1>2. row'[m].state = "live" /\ row'[m].status = "done"
  BY DEF Unfinished, Live
<1>3. Live(m)
  <2>1. row[m].state \in {"absent", "live"}
    BY <1>2, LifeAndStatus DEF TypeOK, Row
  <2>2. CASE row[m].state = "absent"
    BY <1>2, <2>2, LifeAndStatus DEF AbsentIsOpen
  <2> QED BY <2>1, <2>2 DEF Live
<1>4. CASE row[m].status = "done"
  <2>1. c \notin LiveChildren(m) \/ row[c].status \in Terminal
    BY <1>3, <1>4 DEF Unfinished
  <2>2. CASE row[c].status \in Terminal
    BY <1>1, <2>2
  <2>3. CASE c \notin LiveChildren(m)
    <3>1. row[c].state # "live"
      BY <1>1, <2>3 DEF LiveChildren, Live
    <3>2. last'.op = "insert"
      BY <1>1, <3>1, LifeAndStatus
    <3> QED BY <1>1, <3>1, <3>2 DEF Live
  <2> QED BY <2>1, <2>2, <2>3
<1>5. CASE row[m].status # "done"
  <2>1. PICK u \in User : Transition(u, m, "done")
    BY <1>2, <1>5, StatusWriters
  <2>2. PICK fenced : Apply(m, "done", u, "write", "agent", fenced)
    BY <2>1 DEF Transition
  <2>3. PICK k : row' = Written(m, "done", k)
    BY <2>2 DEF Apply
  <2>4. ChildrenTerminal(m)
    BY <2>2 DEF Apply
  <2>5. c # m
    BY <1>1
  <2>6. row'[c].status = row[c].status
    BY <2>3, <2>5, WrittenStatus
  <2>7. row'[c].state = row[c].state
    <3>1. row[c] \in Row
      BY DEF TypeOK
    <3> QED BY <2>3, <2>5, <3>1 DEF Written, Row
  <2>8. c \in LiveChildren(m)
    BY <1>1, <2>7 DEF LiveChildren, Live
  <2> QED BY <1>1, <2>4, <2>6, <2>8 DEF ChildrenTerminal
<1> QED BY <1>4, <1>5

\* A completed parent acquires unfinished work only by a creation under it or by a
\* child that leaves a terminal status: the check of the children and the write are one.
THEOREM SettledParents == Spec => DoneParentStaysSettled
<1>1. Init => AbsentIsOpen
  BY DEF Init, AbsentIsOpen
<1>2. TypeOK /\ AbsentIsOpen /\ [Next]_vars =>
        [\A m \in Matter : (~Unfinished(m) /\ Unfinished(m)')
          => \E c \in Matter :
                /\ Parent[c] = m
                /\ \/ ~Live(c) /\ last'.op = "insert"
                   \/ row[c].status \in Terminal /\ row'[c].status \notin Terminal]_vars
  BY SettledStep
<1> QED BY <1>1, <1>2, InitType, NextType, NextAbsent, PTL DEF Spec, DoneParentStaysSettled

=============================================================================
