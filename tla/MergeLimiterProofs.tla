-------------------------- MODULE MergeLimiterProofs --------------------------
(***************************************************************************)
(* Theorems about MergeJoin, for every set of children, callers and        *)
(* bounds, and about RateLimiter, for every set of callers and every       *)
(* cooldown.  The two share neither state nor a name: the second part      *)
(* begins where it says so.                                                *)
(***************************************************************************)
EXTENDS MergeJoin, RateLimiter, TLAPS

-----------------------------------------------------------------------------
(* Types. *)

LEMMA InitMergeType == MergeInit => MergeTypeOK
<1> SUFFICES ASSUME MergeInit PROVE MergeTypeOK
  OBVIOUS
<1>1. status \in [Child -> Status]
  BY DEF MergeInit, Status
<1>2. /\ events \in 0..MaxEvents /\ processed \in 0..MaxEvents
  BY MergeAssumption DEF MergeInit
<1>3. inflight \in BOOLEAN
  BY Zenon DEF MergeInit
<1> QED BY <1>1, <1>2, <1>3 DEF MergeInit, MergeTypeOK

LEMMA NextMergeType == MergeTypeOK /\ [MergeNext]_mergeVars => MergeTypeOK'
<1> SUFFICES ASSUME MergeTypeOK, [MergeNext]_mergeVars PROVE MergeTypeOK'
  OBVIOUS
<1> USE MergeAssumption
<1>1. ASSUME NEW c \in Child, Create(c) \/ Delete(c)
      PROVE  MergeTypeOK'
  BY <1>1 DEF Create, Delete, MergeTypeOK, Status
<1>2. ASSUME NEW c \in Child, NEW to \in {"waiting", "handed_back", "cancelled"},
             ChildMoves(c, to)
      PROVE  MergeTypeOK'
  BY <1>2 DEF ChildMoves, MergeTypeOK, Status
<1>3. ASSUME NEW u \in User, Reassign(u) \/ Get(u)
      PROVE  MergeTypeOK'
  BY <1>3 DEF Reassign, Get, MergeTypeOK, matter
<1>4. ASSUME NEW u \in User, TreeMatter(u)
      PROVE  MergeTypeOK'
  <2>1. [by |-> u, at |-> "matter", view |-> [events |-> events, listed |-> status]]
          \in TreeRequest
    BY DEF MergeTypeOK, TreeRequest, View
  <2> QED BY <1>4, <2>1 DEF TreeMatter, MergeTypeOK, matter
<1>5. ASSUME NEW t \in trees, TreeChildren(t)
      PROVE  MergeTypeOK'
  <2>1. t \in TreeRequest
    BY DEF MergeTypeOK
  <2>2. [t EXCEPT !.at = "children", !.view.listed = status] \in TreeRequest
    BY <2>1 DEF MergeTypeOK, TreeRequest, View
  <2> QED BY <1>5, <2>2 DEF TreeChildren, MergeTypeOK, matter
<1>6. ASSUME NEW t \in trees, TreeAnswer(t)
      PROVE  MergeTypeOK'
  BY <1>6 DEF TreeAnswer, MergeTypeOK, TreeRequest, matter
<1>7. ASSUME NEW u \in User, NEW v \in shown, JoinAllow(u, v)
      PROVE  MergeTypeOK'
  <2>1. [by |-> u, at |-> "allowed", seq |-> v.events, pending |-> FALSE,
         target |-> leader] \in JoinRequest
    BY DEF MergeTypeOK, JoinRequest, View
  <2> QED BY <1>7, <2>1 DEF JoinAllow, MergeTypeOK, matter
<1>8. ASSUME NEW j \in joins, JoinFresh(j)
      PROVE  MergeTypeOK'
  <2>1. j \in JoinRequest
    BY DEF MergeTypeOK
  <2>2. ASSUME NEW p \in BOOLEAN
        PROVE  [j EXCEPT !.at = "fresh", !.pending = p, !.target = leader] \in JoinRequest
    BY <2>1 DEF MergeTypeOK, JoinRequest
  <2>3. (events > j.seq) \in BOOLEAN
    OBVIOUS
  <2>4. PICK p \in BOOLEAN :
          joins' = (joins \ {j}) \cup {[j EXCEPT !.at = "fresh", !.pending = p, !.target = leader]}
    BY <1>8, <2>3, Zenon DEF JoinFresh
  <2>5. joins' \subseteq JoinRequest
    BY <2>2, <2>4 DEF MergeTypeOK
  <2>6. UNCHANGED <<matter, bells, trees, shown>>
    BY <1>8 DEF JoinFresh
  <2> QED BY <2>5, <2>6 DEF MergeTypeOK, matter
<1>9. ASSUME NEW j \in joins, JoinWrite(j)
      PROVE  MergeTypeOK'
  <2>1. j \in JoinRequest
    BY DEF MergeTypeOK
  <2>2. [j EXCEPT !.at = "written"] \in JoinRequest
    BY <2>1 DEF JoinRequest
  <2>3. Written(j) \in 0..MaxEvents /\ j.pending \in BOOLEAN
    BY <2>1 DEF Written, Greater, MergeTypeOK, JoinRequest
  <2> QED BY <1>9, <2>2, <2>3 DEF JoinWrite, MergeTypeOK
<1>10. ASSUME NEW j \in joins, JoinRing(j)
       PROVE  MergeTypeOK'
  <2>1. j \in JoinRequest
    BY DEF MergeTypeOK
  <2>2. [j EXCEPT !.at = "rung"] \in JoinRequest /\ j.target \in User
    BY <2>1 DEF JoinRequest
  <2> QED BY <1>10, <2>2 DEF JoinRing, MergeTypeOK, matter
<1>11. ASSUME NEW j \in joins, JoinAnswer(j)
       PROVE  MergeTypeOK'
  BY <1>11 DEF JoinAnswer, MergeTypeOK, matter
<1>12. CASE Crash
  BY <1>12 DEF Crash, MergeTypeOK, matter
<1>13. CASE UNCHANGED mergeVars
  BY <1>13 DEF mergeVars, MergeTypeOK
<1> QED BY <1>1, <1>2, <1>3, <1>4, <1>5, <1>6, <1>7, <1>8, <1>9, <1>10, <1>11, <1>12, <1>13
        DEF MergeNext

-----------------------------------------------------------------------------
(* The inductive invariant. *)

\* The counter a tree carries was read no later than its children, and if it is
\* still the parent's counter then no listed child has moved.
Current(v) ==
    v.events = events
        => \A c \in Child : Listed(v.listed[c]) => status[c] \in {v.listed[c], "deleted"}

\* Nothing carries a counter from the future; a join reports a counter of a tree.
MergeInv ==
    /\ MergeTypeOK
    /\ \A t \in trees : t.view.events <= events /\ (t.at = "children" => Current(t.view))
    /\ \A v \in shown : v.events <= events /\ Current(v)
    /\ \A j \in joins : \E v \in shown : j.seq = v.events
    /\ ProcessedWasShown

LEMMA InitMerge == MergeInit => MergeInv
BY InitMergeType DEF MergeInit, MergeInv, ProcessedWasShown

\* What the steps of the parent and its children leave true of any tree.
LEMMA CurrentStays ==
    ASSUME MergeTypeOK, [MergeNext]_mergeVars, NEW v \in View, v.events <= events
    PROVE  v.events <= events' /\ (Current(v) => Current(v)')
<1> USE MergeAssumption
<1>0. v.events \in Nat /\ events \in Nat
  BY DEF MergeTypeOK, View
<1>1. ASSUME NEW c \in Child, Create(c)
      PROVE  v.events <= events' /\ (Current(v) => Current(v)')
  BY <1>0, <1>1 DEF Create, Current, Listed, MergeTypeOK
<1>2. ASSUME NEW c \in Child, Delete(c)
      PROVE  v.events <= events' /\ (Current(v) => Current(v)')
  BY <1>0, <1>2 DEF Delete, Current, MergeTypeOK
<1>3. ASSUME NEW c \in Child, NEW to \in {"waiting", "handed_back", "cancelled"},
             ChildMoves(c, to)
      PROVE  v.events <= events' /\ (Current(v) => Current(v)')
  BY <1>0, <1>3 DEF ChildMoves, Current
<1>4. CASE UNCHANGED <<events, status>>
  BY <1>0, <1>4 DEF Current
<1>5. \/ \E c \in Child : Create(c) \/ Delete(c)
      \/ \E c \in Child, to \in {"waiting", "handed_back", "cancelled"} : ChildMoves(c, to)
      \/ UNCHANGED <<events, status>>
  BY DEF MergeNext, mergeVars, matter, Reassign, Get, TreeMatter, TreeChildren, TreeAnswer, JoinAllow,
         JoinFresh, JoinWrite, JoinRing, JoinAnswer, Crash
<1> QED BY <1>1, <1>2, <1>3, <1>4, <1>5

\* Trees under way: read just now, joined by their children, or as they were.
LEMMA TreesStep ==
    ASSUME MergeTypeOK, [MergeNext]_mergeVars
    PROVE  \A t \in trees' :
             \/ t \in trees
             \/ t.view \in View /\ t.at = "matter" /\ t.view.events = events /\ UNCHANGED matter
             \/ \E s \in trees : /\ t.view.events = s.view.events
                                 /\ t.view.listed = status /\ UNCHANGED matter
<1>1. ASSUME NEW u \in User, TreeMatter(u)
      PROVE  \A t \in trees' : \/ t \in trees
                               \/ /\ t.view \in View /\ t.at = "matter"
                                  /\ t.view.events = events /\ UNCHANGED matter
  BY <1>1 DEF TreeMatter, MergeTypeOK, View
<1>2. ASSUME NEW s \in trees, TreeChildren(s)
      PROVE  \A t \in trees' : \/ t \in trees
                               \/ /\ t.view.events = s.view.events
                                  /\ t.view.listed = status /\ UNCHANGED matter
  <2>1. s \in TreeRequest
    BY DEF MergeTypeOK
  <2>2. trees' = (trees \ {s}) \cup {[s EXCEPT !.at = "children", !.view.listed = status]}
    BY <1>2 DEF TreeChildren
  <2>3. /\ [s EXCEPT !.at = "children", !.view.listed = status].view.events = s.view.events
        /\ [s EXCEPT !.at = "children", !.view.listed = status].view.listed = status
    BY <2>1 DEF TreeRequest, View
  <2> QED BY <1>2, <2>2, <2>3 DEF TreeChildren
<1>3. CASE trees' \subseteq trees
  BY <1>3
<1>4. \/ \E u \in User : TreeMatter(u)
      \/ \E t \in trees : TreeChildren(t)
      \/ trees' \subseteq trees
  BY DEF MergeNext, mergeVars, Create, Delete, ChildMoves, Reassign, Get, TreeAnswer, JoinAllow,
         JoinFresh, JoinWrite, JoinRing, JoinAnswer, Crash
<1> QED BY <1>1, <1>2, <1>3, <1>4

\* Joins under way report what they reported, or the counter of a tree.
LEMMA JoinsStep ==
    ASSUME MergeTypeOK, [MergeNext]_mergeVars
    PROVE  \A j \in joins' : \/ \E i \in joins : j.seq = i.seq
                             \/ \E v \in shown : j.seq = v.events
<1>1. ASSUME NEW u \in User, NEW v \in shown, JoinAllow(u, v)
      PROVE  \A j \in joins' : j \in joins \/ j.seq = v.events
  BY <1>1 DEF JoinAllow
<1>2. ASSUME NEW i \in joins, JoinFresh(i) \/ JoinWrite(i) \/ JoinRing(i)
      PROVE  \A j \in joins' : j \in joins \/ j.seq = i.seq
  <2>1. i \in JoinRequest
    BY DEF MergeTypeOK
  <2>2. CASE JoinFresh(i)
    BY <2>1, <2>2 DEF JoinFresh, JoinRequest
  <2>3. CASE JoinWrite(i) \/ JoinRing(i)
    BY <2>1, <2>3 DEF JoinWrite, JoinRing, JoinRequest
  <2> QED BY <1>2, <2>2, <2>3
<1>3. CASE joins' \subseteq joins
  BY <1>3
<1>4. \/ \E u \in User, v \in shown : JoinAllow(u, v)
      \/ \E i \in joins : JoinFresh(i) \/ JoinWrite(i) \/ JoinRing(i)
      \/ joins' \subseteq joins
  BY DEF MergeNext, mergeVars, Create, Delete, ChildMoves, Reassign, Get, TreeMatter, TreeChildren,
         TreeAnswer, JoinAnswer, Crash
<1> QED BY <1>1, <1>2, <1>3, <1>4

\* Trees are shown for good, and only when their children have been read.
LEMMA ShownStep ==
    ASSUME MergeTypeOK, [MergeNext]_mergeVars
    PROVE  /\ shown \subseteq shown'
           /\ \A v \in shown' : \/ v \in shown
                                \/ \E t \in trees : t.at = "children" /\ t.view = v
<1>1. ASSUME NEW t \in trees, TreeAnswer(t)
      PROVE  shown' = shown \cup {t.view} /\ t.at = "children"
  BY <1>1 DEF TreeAnswer
<1>2. (\E t \in trees : TreeAnswer(t)) \/ UNCHANGED shown
  BY DEF MergeNext, mergeVars, Create, Delete, ChildMoves, Reassign, Get, TreeMatter, TreeChildren,
         JoinAllow, JoinFresh, JoinWrite, JoinRing, JoinAnswer, Crash
<1> QED BY <1>1, <1>2

\* The watermark only moves when a join writes it, and then never back.
LEMMA ProcessedStep ==
    ASSUME MergeTypeOK, [MergeNext]_mergeVars
    PROVE  /\ processed' >= processed
           /\ processed' = processed \/ \E j \in joins : processed' = j.seq
<1>1. ASSUME NEW j \in joins, JoinWrite(j)
      PROVE  processed' >= processed /\ processed' \in {processed, j.seq}
  BY <1>1, MergeAssumption DEF JoinWrite, Written, Greater, MergeTypeOK, JoinRequest
<1>2. (\E j \in joins : JoinWrite(j)) \/ UNCHANGED processed
  BY DEF MergeNext, mergeVars, matter, Create, Delete, ChildMoves, Reassign, Get, TreeMatter,
         TreeChildren, TreeAnswer, JoinAllow, JoinFresh, JoinRing, JoinAnswer, Crash
<1>3. processed \in Nat
  BY MergeAssumption DEF MergeTypeOK
<1> QED BY <1>1, <1>2, <1>3

LEMMA NextMerge == MergeInv /\ [MergeNext]_mergeVars => MergeInv'
<1> SUFFICES ASSUME MergeInv, [MergeNext]_mergeVars PROVE MergeInv'
  OBVIOUS
<1>0. MergeTypeOK /\ MergeTypeOK'
  BY NextMergeType DEF MergeInv
<1>1. \A v \in shown : v.events <= events' /\ Current(v)'
  BY <1>0, CurrentStays DEF MergeInv, MergeTypeOK
<1>2. \A t \in trees : t.view \in View
                       /\ t.view.events <= events' /\ (t.at = "children" => Current(t.view)')
  <2> SUFFICES ASSUME NEW t \in trees
               PROVE  /\ t.view \in View /\ t.view.events <= events'
                      /\ t.at = "children" => Current(t.view)'
    OBVIOUS
  <2> DEFINE v == t.view
  <2>1. v \in View
    BY <1>0 DEF MergeTypeOK, TreeRequest
  <2> QED BY <1>0, <2>1, CurrentStays DEF MergeInv
<1>3. \A t \in trees' : t.view.events <= events' /\ (t.at = "children" => Current(t.view)')
  <2> SUFFICES ASSUME NEW t \in trees'
               PROVE  t.view.events <= events' /\ (t.at = "children" => Current(t.view)')
    OBVIOUS
  <2>1. CASE t \in trees
    BY <1>2, <2>1
  <2>2. CASE t.at = "matter" /\ t.view.events = events /\ UNCHANGED matter
    BY <1>0, <2>2, MergeAssumption DEF matter, MergeTypeOK
  <2>3. CASE \E s \in trees : /\ t.view.events = s.view.events
                              /\ t.view.listed = status /\ UNCHANGED matter
    BY <1>2, <2>3 DEF matter, Current
  <2> QED BY <1>0, <2>1, <2>2, <2>3, TreesStep
<1>4. \A v \in shown' : v.events <= events' /\ Current(v)'
  BY <1>0, <1>1, <1>2, ShownStep
<1>5. \A j \in joins' : \E v \in shown' : j.seq = v.events
  BY <1>0, JoinsStep, ShownStep DEF MergeInv
<1>6. ProcessedWasShown'
  <2>1. CASE processed' = processed
    BY <1>0, <2>1, ShownStep DEF MergeInv, ProcessedWasShown
  <2>2. ASSUME NEW j \in joins, processed' = j.seq
        PROVE  ProcessedWasShown'
    <3>1. PICK v \in shown : j.seq = v.events
      BY DEF MergeInv
    <3>2. v \in shown' /\ v.events \in Nat
      BY <1>0, ShownStep, MergeAssumption DEF MergeTypeOK, View
    <3> QED BY <2>2, <3>1, <3>2 DEF ProcessedWasShown
  <2> QED BY <1>0, <2>1, <2>2, ProcessedStep
<1> QED BY <1>0, <1>3, <1>4, <1>5, <1>6 DEF MergeInv

-----------------------------------------------------------------------------

\* A tree whose counter is still the parent's is right about every child it lists.
THEOREM TreesAreTrue == MergeSpec => []TreeStaysTrue
<1>1. MergeInv => TreeStaysTrue
  BY DEF MergeInv, TreeStaysTrue, Current
<1> QED BY <1>1, InitMerge, NextMerge, PTL DEF MergeSpec

\* No event counts as processed that no tree has shown.
THEOREM ProcessedIsShown == MergeSpec => []ProcessedWasShown
<1>1. MergeInv => ProcessedWasShown
  BY DEF MergeInv
<1> QED BY <1>1, InitMerge, NextMerge, PTL DEF MergeSpec

\* Joins may overtake one another: the watermark never moves back.
THEOREM WatermarkAdvances == MergeSpec => WatermarkNeverBack
<1>1. MergeInv /\ [MergeNext]_mergeVars => [processed' >= processed]_mergeVars
  BY ProcessedStep DEF MergeInv
<1> QED BY <1>1, InitMerge, NextMerge, PTL DEF MergeSpec, WatermarkNeverBack

-----------------------------------------------------------------------------
(* RateLimiter. *)

-----------------------------------------------------------------------------
(* The inductive invariant. *)

\* A call under way began within the grace.
CallsAreShort == \A c \in Caller : call[c].at # "idle" => clock <= call[c].now + Grace

\* The entry is no older than any call that was allowed; without an entry, all of
\* them are older than the cooldown and the grace together.
EntryIsLatest ==
    \A g \in grants :
        IF last = Absent THEN g.now + Cooldown + Grace < clock ELSE g.now <= last

LimiterInv == TypeOK /\ CallsAreShort /\ EntryIsLatest /\ CooldownHolds

LEMMA InitInv == Init => LimiterInv
BY RateLimiterAssumption
   DEF Init, LimiterInv, TypeOK, CallsAreShort, EntryIsLatest, CooldownHolds, Call, Idle, Entry, Time

-----------------------------------------------------------------------------
(* A call that is allowed when every earlier one is a cooldown older. *)

LEMMA GrantKeepsInv ==
    ASSUME LimiterInv, NEW c \in Caller, call[c].at # "idle", Granted(c), clock' = clock,
           \A g \in grants : g.now + Cooldown <= call[c].now
    PROVE  LimiterInv'
<1> USE RateLimiterAssumption DEF LimiterInv, Granted, Time, Entry
<1> DEFINE n == call[c].now
           h == [by |-> c, now |-> n]
<1>1. n \in Time
  BY DEF TypeOK, Call
<1>2. Idle \in Call
  BY DEF Idle, Call
<1>3. TypeOK'
  <2>1. call' \in [Caller -> Call]
    BY <1>2 DEF TypeOK
  <2>2. last' \in Entry /\ clock' \in Time /\ beaten' \subseteq Caller
    BY <1>1 DEF TypeOK
  <2>3. grants' \subseteq [by: Caller, now: Time]
    BY <1>1 DEF TypeOK
  <2>4. \A d \in Caller : call'[d].at = "swap" => call'[d].prev + Cooldown <= call'[d].now
    BY DEF TypeOK, Idle
  <2> QED BY <2>1, <2>2, <2>3, <2>4 DEF TypeOK
<1>4. CallsAreShort'
  BY DEF CallsAreShort, TypeOK, Idle
<1>5. /\ grants' = grants \cup {h}
      /\ \A g \in grants : g.now \in Nat /\ g.now + Cooldown <= n
      /\ n \in Nat /\ h.now = n /\ last' = n
  BY <1>1 DEF TypeOK
<1>6. EntryIsLatest'
  BY <1>5 DEF EntryIsLatest
<1>7. CooldownHolds'
  BY <1>5 DEF CooldownHolds
<1> QED BY <1>3, <1>4, <1>6, <1>7

-----------------------------------------------------------------------------
(* Every step. *)

LEMMA NextInv == LimiterInv /\ [Next]_vars => LimiterInv'
<1> SUFFICES ASSUME LimiterInv, [Next]_vars PROVE LimiterInv'
  OBVIOUS
<1> USE RateLimiterAssumption DEF Time, Entry
<1>0. /\ TypeOK /\ CallsAreShort /\ EntryIsLatest /\ CooldownHolds
      /\ \A g \in grants : g.now \in Nat
      /\ \A c \in Caller : call[c] \in Call
  BY DEF LimiterInv, TypeOK
<1>1. CASE UNCHANGED vars
  BY <1>0, <1>1 DEF vars, LimiterInv, TypeOK, CallsAreShort, EntryIsLatest, CooldownHolds
<1>2. CASE Tick
  <2>1. /\ clock' = clock + 1 /\ clock \in Nat
        /\ UNCHANGED <<last, call, grants, beaten>>
    BY <1>0, <1>2 DEF Tick, TypeOK
  <2>2. TypeOK'
    BY <1>0, <1>2, <2>1 DEF Tick, TypeOK
  <2>3. CallsAreShort'
    BY <1>0, <1>2, <2>1 DEF Tick, CallsAreShort, TypeOK, Call
  <2>4. EntryIsLatest'
    BY <1>0, <2>1 DEF EntryIsLatest
  <2>5. CooldownHolds'
    BY <1>0, <2>1 DEF CooldownHolds
  <2> QED BY <2>2, <2>3, <2>4, <2>5 DEF LimiterInv
<1>3. ASSUME NEW c \in Caller, Begin(c)
      PROVE  LimiterInv'
  <2> DEFINE b == [at |-> "load", now |-> clock, prev |-> Absent]
  <2>1. /\ call' = [call EXCEPT ![c] = b]
        /\ UNCHANGED <<clock, last, grants>>
        /\ beaten' \subseteq Caller
        /\ b \in Call
    BY <1>0, <1>3 DEF Begin, TypeOK, Call
  <2>2. TypeOK'
    BY <1>0, <2>1 DEF TypeOK
  <2>3. CallsAreShort'
    BY <1>0, <2>1 DEF CallsAreShort, TypeOK
  <2>4. EntryIsLatest' /\ CooldownHolds'
    BY <1>0, <2>1 DEF EntryIsLatest, CooldownHolds
  <2> QED BY <2>2, <2>3, <2>4 DEF LimiterInv
<1>4. ASSUME NEW c \in Caller, Refused(c), clock' = clock
      PROVE  LimiterInv'
  <2>1. /\ call' = [call EXCEPT ![c] = Idle]
        /\ UNCHANGED <<clock, last, grants, beaten>>
        /\ Idle \in Call
    BY <1>4 DEF Refused, Idle, Call
  <2>2. TypeOK'
    BY <1>0, <2>1 DEF TypeOK, Idle
  <2>3. CallsAreShort'
    BY <1>0, <2>1 DEF CallsAreShort, TypeOK, Idle
  <2>4. EntryIsLatest' /\ CooldownHolds'
    BY <1>0, <2>1 DEF EntryIsLatest, CooldownHolds
  <2> QED BY <2>2, <2>3, <2>4 DEF LimiterInv
<1>5. ASSUME NEW c \in Caller, Load(c)
      PROVE  LimiterInv'
  <2>0. call[c].at = "load" /\ clock' = clock /\ call[c].now \in Nat /\ clock \in Nat
    BY <1>0, <1>5 DEF Load, Call, TypeOK
  <2>1. CASE last = Absent /\ Granted(c)
    <3>1. \A g \in grants : g.now + Cooldown + Grace < clock
      BY <1>0, <2>1 DEF EntryIsLatest
    <3>2. clock <= call[c].now + Grace
      BY <1>0, <2>0 DEF CallsAreShort
    <3>3. \A g \in grants : g.now + Cooldown <= call[c].now
      BY <1>0, <2>0, <3>1, <3>2
    <3> QED BY <2>0, <2>1, <3>3, GrantKeepsInv
  <2>2. CASE Refused(c)
    BY <1>4, <2>0, <2>2
  <2>3. CASE /\ last # Absent /\ ~Cooling(c)
             /\ call' = [call EXCEPT ![c] = [at |-> "swap", now |-> call[c].now, prev |-> last]]
             /\ UNCHANGED <<last, grants, beaten>>
    <3> DEFINE s == [at |-> "swap", now |-> call[c].now, prev |-> last]
    <3>1. s \in Call /\ s.prev + Cooldown <= s.now
      BY <1>0, <2>0, <2>3 DEF Call, TypeOK, Cooling
    <3>2. call' = [call EXCEPT ![c] = s]
      BY <2>3
    <3>3. s.now = call[c].now
      OBVIOUS
    <3> HIDE DEF s
    <3>4. TypeOK'
      BY <1>0, <2>0, <2>3, <3>1, <3>2 DEF TypeOK
    <3>5. CallsAreShort'
      BY <1>0, <2>0, <3>2, <3>3 DEF CallsAreShort, TypeOK
    <3>6. EntryIsLatest' /\ CooldownHolds'
      BY <1>0, <2>0, <2>3 DEF EntryIsLatest, CooldownHolds
    <3> QED BY <3>4, <3>5, <3>6 DEF LimiterInv
  <2> QED BY <1>5, <2>1, <2>2, <2>3 DEF Load
<1>6. ASSUME NEW c \in Caller, Swap(c)
      PROVE  LimiterInv'
  <2>0. call[c].at = "swap" /\ clock' = clock /\ call[c].now \in Nat
    BY <1>0, <1>6 DEF Swap, Call
  <2>1. CASE Unchanged(c) /\ Granted(c)
    <3>1. last + Cooldown <= call[c].now
      BY <1>0, <2>0, <2>1 DEF Unchanged, TypeOK
    <3>2. CASE last = Absent
      <4>1. /\ \A g \in grants : g.now + Cooldown + Grace < clock
            /\ clock <= call[c].now + Grace /\ clock \in Nat
        BY <1>0, <2>0, <3>2 DEF EntryIsLatest, CallsAreShort, TypeOK
      <4>2. \A g \in grants : g.now + Cooldown <= call[c].now
        BY <1>0, <2>0, <4>1
      <4> QED BY <2>0, <2>1, <4>2, GrantKeepsInv
    <3>3. CASE last # Absent
      <4>1. /\ \A g \in grants : g.now <= last
            /\ last \in Nat
        BY <1>0, <3>3 DEF EntryIsLatest, TypeOK
      <4>2. \A g \in grants : g.now + Cooldown <= call[c].now
        BY <1>0, <2>0, <3>1, <4>1
      <4> QED BY <2>0, <2>1, <4>2, GrantKeepsInv
    <3> QED BY <3>2, <3>3
  <2>2. CASE Refused(c)
    BY <1>4, <2>0, <2>2
  <2> QED BY <1>6, <2>1, <2>2 DEF Swap
<1>7. CASE Evict
  <2>1. /\ last \in Nat /\ last + Cooldown + Grace < clock /\ clock \in Nat
        /\ last # Absent
    BY <1>0, <1>7 DEF Evict, Stale, TypeOK
  <2>2. last' = Absent /\ UNCHANGED <<clock, call, grants, beaten>>
    BY <1>7 DEF Evict
  <2>3. EntryIsLatest'
    BY <1>0, <2>1, <2>2 DEF EntryIsLatest
  <2>4. TypeOK' /\ CallsAreShort' /\ CooldownHolds'
    BY <1>0, <2>2 DEF TypeOK, CallsAreShort, CooldownHolds
  <2> QED BY <2>3, <2>4 DEF LimiterInv
<1> QED BY <1>1, <1>2, <1>3, <1>5, <1>6, <1>7 DEF Next

\* Every reachable state is well typed, and a call swaps only an entry that is past its
\* cooldown.
THEOREM TypeCorrect == Spec => []TypeOK
<1>1. Init => LimiterInv
  BY InitInv
<1>2. LimiterInv /\ [Next]_vars => LimiterInv'
  BY NextInv
<1>3. LimiterInv => TypeOK
  BY DEF LimiterInv
<1> QED BY <1>1, <1>2, <1>3, PTL DEF Spec

\* A call allowed by the limiter is a cooldown away from every other allowed one, for
\* every cooldown and however many callers race with the sweep, as long as no call
\* stays under way for longer than the grace.
THEOREM CooldownIsKept == Spec => []CooldownHolds
<1>1. Init => LimiterInv
  BY InitInv
<1>2. LimiterInv /\ [Next]_vars => LimiterInv'
  BY NextInv
<1>3. LimiterInv => CooldownHolds
  BY DEF LimiterInv
<1> QED BY <1>1, <1>2, <1>3, PTL DEF Spec

-----------------------------------------------------------------------------
(* Who is refused. *)

\* The entry is the time of a call that was allowed.
EntryIsGranted == last # Absent => \E g \in grants : g.now = last

\* The entry a call has loaded is still there or was swept, unless the call was beaten.
LoadedStays ==
    \A c \in Caller :
        call[c].at = "swap" => last \in {call[c].prev, Absent} \/ c \in beaten

RefusalInv == EntryIsGranted /\ LoadedStays

LEMMA GrantKeepsRefusalInv ==
    ASSUME TypeOK, RefusalInv, NEW c \in Caller, call[c].at # "idle", Granted(c)
    PROVE  RefusalInv'
<1>1. /\ last' = call[c].now
      /\ [by |-> c, now |-> call[c].now] \in grants'
      /\ call' = [call EXCEPT ![c] = Idle]
      /\ beaten' = beaten \cup {d \in Caller \ {c} : call[d].at # "idle"}
  BY DEF Granted
<1>2. EntryIsGranted'
  BY <1>1 DEF EntryIsGranted
<1>3. LoadedStays'
  <2> SUFFICES ASSUME NEW d \in Caller, call'[d].at = "swap"
               PROVE  d \in beaten'
    BY DEF LoadedStays
  <2>1. d # c /\ call'[d] = call[d]
    BY <1>1 DEF TypeOK, Idle
  <2> QED BY <1>1, <2>1
<1> QED BY <1>2, <1>3 DEF RefusalInv

LEMMA NextRefusalInv == TypeOK /\ RefusalInv /\ [Next]_vars => RefusalInv'
<1> SUFFICES ASSUME TypeOK, RefusalInv, [Next]_vars PROVE RefusalInv'
  OBVIOUS
<1> USE DEF RefusalInv, EntryIsGranted, LoadedStays
<1>1. CASE UNCHANGED <<last, call, grants, beaten>>
  BY <1>1
<1>2. ASSUME NEW c \in Caller, Begin(c)
      PROVE  RefusalInv'
  BY <1>2 DEF Begin, TypeOK
<1>3. ASSUME NEW c \in Caller, Refused(c)
      PROVE  RefusalInv'
  BY <1>3 DEF Refused, Idle, TypeOK
<1>4. ASSUME NEW c \in Caller, Load(c)
      PROVE  RefusalInv'
  <2>1. CASE Granted(c)
    BY <1>4, <2>1, GrantKeepsRefusalInv DEF Load
  <2>2. CASE Refused(c)
    BY <1>3, <2>2
  <2>3. CASE /\ call' = [call EXCEPT ![c] = [at |-> "swap", now |-> call[c].now, prev |-> last]]
             /\ UNCHANGED <<last, grants, beaten>>
    BY <2>3 DEF TypeOK
  <2> QED BY <1>4, <2>1, <2>2, <2>3 DEF Load
<1>5. ASSUME NEW c \in Caller, Swap(c)
      PROVE  RefusalInv'
  BY <1>3, <1>5, GrantKeepsRefusalInv DEF Swap
<1>6. CASE Evict
  BY <1>6 DEF Evict
<1> QED BY <1>1, <1>2, <1>4, <1>5, <1>6 DEF Next, vars, Tick

LEMMA RefusalStep ==
    ASSUME TypeOK, RefusalInv, [Next]_vars, NEW c \in Caller,
           call[c].at # "idle", call'[c].at = "idle", grants' = grants
    PROVE  \/ c \in beaten
           \/ \E g \in grants : call[c].now < g.now + Cooldown
           \/ call[c].at = "swap" /\ last = Absent
<1> USE RateLimiterAssumption
<1>1. PICK d \in Caller : Begin(d) \/ Load(d) \/ Swap(d)
  BY DEF Next, vars, Tick, Evict
<1>2. \A e \in Caller \ {d} : call'[e] = call[e]
  BY <1>1 DEF Begin, Load, Swap, Granted, Refused, TypeOK
<1>3. d = c
  BY <1>2
<1>4. /\ call[c].now \in Nat /\ Cooldown \in Nat \ {0}
      /\ last # Absent => last \in Nat
  BY DEF TypeOK, Call, Time, Entry
<1>5. Load(c) \/ Swap(c)
  BY <1>1, <1>3 DEF Begin
\* A second call of one caller at one moment leaves the set of grants as it is.
<1>6. CASE Granted(c)
  <2> DEFINE g == [by |-> c, now |-> call[c].now]
  <2>1. g \in grants /\ g.now = call[c].now
    BY <1>6 DEF Granted
  <2> QED BY <1>4, <2>1
<1>7. CASE Load(c) /\ ~Granted(c)
  <2>1. last # Absent /\ Cooling(c)
    <3>1. ~(call' = [call EXCEPT ![c] = [at |-> "swap", now |-> call[c].now, prev |-> last]])
      BY DEF TypeOK
    <3> QED BY <1>7, <3>1 DEF Load
  <2>2. PICK g \in grants : g.now = last
    BY <2>1 DEF RefusalInv, EntryIsGranted
  <2>3. call[c].now < g.now + Cooldown
    BY <1>4, <2>1, <2>2 DEF Cooling
  <2> QED BY <2>3
<1>8. CASE Swap(c) /\ ~Granted(c)
  <2>1. call[c].at = "swap" /\ last # call[c].prev
    BY <1>8 DEF Swap, Unchanged
  <2> QED BY <2>1 DEF RefusalInv, LoadedStays
<1> QED BY <1>5, <1>6, <1>7, <1>8

\* A refused call was beaten by another one, came within a cooldown of an allowed one,
\* or lost its entry to the sweep, for every number of callers and every cooldown.
THEOREM RefusalsAreDeserved == Spec => RefusedBecauseBeaten
<1>1. Init => RefusalInv
  BY DEF Init, RefusalInv, EntryIsGranted, LoadedStays, Idle
<1>2. TypeOK /\ RefusalInv /\ [Next]_vars => RefusalInv'
  BY NextRefusalInv
<1>3. TypeOK /\ RefusalInv /\ [Next]_vars =>
        [\A c \in Caller :
          (call[c].at # "idle" /\ call'[c].at = "idle" /\ grants' = grants)
              => \/ c \in beaten
                 \/ \E g \in grants : call[c].now < g.now + Cooldown
                 \/ call[c].at = "swap" /\ last = Absent]_vars
  BY RefusalStep
<1>4. Spec => []TypeOK
  BY TypeCorrect
<1> QED BY <1>1, <1>2, <1>3, <1>4, PTL DEF Spec, RefusedBecauseBeaten

=============================================================================
