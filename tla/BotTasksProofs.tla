---------------------------- MODULE BotTasksProofs ----------------------------
(* Theorems about BotTasks, for every set of tasks and executors. *)
EXTENDS BotTasks, TLAPS

-----------------------------------------------------------------------------
(* The inductive invariant. *)

\* A task in an executor's hands carries that executor's token.
HeldIsStamped ==
    \A e \in Executor : \A t \in Holds(e) : row[t].token = e

\* A write-back under way has the result of the row, of which nothing was told yet
\* while the entry is still to be written.
WorkMatchesRow ==
    \A w \in work :
        w.at # "announce" =>
            /\ row[w.task].status = w.result
            /\ w.at \in {"lookup", "write"} => entries[<<w.task, w.result>>] = 0

\* A run has one write-back, which is at one statement.
OneWriteBack ==
    \A v, w \in work :
        (v.task = w.task /\ v.at # "announce" /\ w.at # "announce") => v = w

BotTasksInv ==
    /\ TypeOK
    /\ HeldIsStamped
    /\ WorkMatchesRow
    /\ OneWriteBack
    /\ TimelineTellsResult

LEMMA InitInv == Init => BotTasksInv
<1> SUFFICES ASSUME Init PROVE BotTasksInv
  OBVIOUS
<1> USE DEF Init
<1>1. TypeOK
  <2>1. entries \in [Task \X Result -> 0..2]
    OBVIOUS
  <2>2. row \in [Task -> Row]
    BY DEF Row
  <2>3. todo \in [Executor -> SUBSET Task] /\ got \in [Executor -> SUBSET Task]
    OBVIOUS
  <2>4. known \in [Executor -> SUBSET Task] /\ work \subseteq Work
    OBVIOUS
  <2>5. rung \subseteq Task \X {"bot", "waiting"}
    OBVIOUS
  <2>6. gone \in BOOLEAN
    BY Zenon
  <2>7. failures \in 0..MaxFailures /\ crashes \in 0..MaxCrashes
    BY BotTasksAssumption
  <2> QED BY <2>1, <2>2, <2>3, <2>4, <2>5, <2>6, <2>7, Zenon DEF TypeOK
<1>2. HeldIsStamped
  BY DEF HeldIsStamped, Holds
<1>3. WorkMatchesRow /\ OneWriteBack
  BY DEF WorkMatchesRow, OneWriteBack
<1>4. TimelineTellsResult
  <2> SUFFICES ASSUME NEW t \in Task, NEW r \in Result
               PROVE  entries[<<t, r>>] <= IF row[t].status = r THEN 1 ELSE 0
    BY DEF TimelineTellsResult
  <2>1. <<t, r>> \in Task \X Result
    OBVIOUS
  <2> QED BY <2>1
<1> QED BY <1>1, <1>2, <1>3, <1>4 DEF BotTasksInv

-----------------------------------------------------------------------------
(* Type correctness. *)

LEMMA NextType == TypeOK /\ [Next]_vars => TypeOK'
<1> SUFFICES ASSUME TypeOK, [Next]_vars PROVE TypeOK'
  OBVIOUS
<1> USE DEF TypeOK, claims, matter
<1>1. CASE UNCHANGED vars
  BY <1>1 DEF vars
<1>2. ASSUME NEW t \in Task, Create(t)
      PROVE  TypeOK'
  BY <1>2 DEF Create, Row, Work
<1>3. ASSUME NEW e \in Executor, Select(e) \/ ClaimAnswer(e) \/ ClaimFails(e)
      PROVE  TypeOK'
  <2>1. CASE Select(e)
    BY <2>1 DEF Select
  <2>2. CASE ClaimAnswer(e)
    BY <2>2 DEF ClaimAnswer
  <2>3. CASE ClaimFails(e)
    BY <2>3, BotTasksAssumption DEF ClaimFails
  <2> QED BY <1>3, <2>1, <2>2, <2>3
<1>4. ASSUME NEW e \in Executor, NEW t \in Task, Flip(e, t)
      PROVE  TypeOK'
  BY <1>4 DEF Flip, Claimed, Row
<1>5. ASSUME NEW e \in Executor, NEW t \in Task, NEW r \in Result, Ack(e, t, r)
      PROVE  TypeOK'
  <2>1. [row[t] EXCEPT !.status = r] \in Row
    BY <1>5 DEF Ack, Ackable, Row, Result
  <2>2. row' \in [Task -> Row]
    BY <1>5, <2>1 DEF Ack
  <2> QED BY <1>5, <2>2 DEF Ack, Work
<1>6. ASSUME NEW w \in work, Announce(w) \/ LookUp(w) \/ Write(w) \/ Report(w) \/ WorkFails(w)
      PROVE  TypeOK'
  <2>1. w \in Work
    OBVIOUS
  <2>2. CASE Announce(w)
    BY <2>1, <2>2 DEF Announce, Work
  <2>3. CASE LookUp(w)
    BY <2>1, <2>3 DEF LookUp, Work
  <2>4. CASE Write(w)
    <3> DEFINE k == <<w.task, w.result>>
               n == IF entries[k] < 2 THEN entries[k] + 1 ELSE 2
    <3>1. k \in Task \X Result /\ [w EXCEPT !.at = "report"] \in Work
      BY <2>1, <2>4 DEF Write, Work
    <3>2. entries[k] \in 0..2
      BY <3>1
    <3>3. n \in 0..2
      BY <3>2
    <3>4. entries' = [entries EXCEPT ![k] = n]
      BY <2>4 DEF Write
    <3> HIDE DEF k, n
    <3>5. entries' \in [Task \X Result -> 0..2]
      BY <3>3, <3>4
    <3> QED BY <2>4, <3>1, <3>5 DEF Write
  <2>5. CASE Report(w)
    BY <2>1, <2>5 DEF Report, Work
  <2>6. CASE WorkFails(w)
    BY <2>1, <2>6, BotTasksAssumption DEF WorkFails, Work
  <2> QED BY <1>6, <2>2, <2>3, <2>4, <2>5, <2>6
<1>7. CASE Delete
  BY <1>7 DEF Delete
<1>8. CASE Crash
  BY <1>8, BotTasksAssumption DEF Crash
<1> QED BY <1>1, <1>2, <1>3, <1>4, <1>5, <1>6, <1>7, <1>8 DEF Next

-----------------------------------------------------------------------------
(* Claiming. *)

LEMMA NextHeld == TypeOK /\ HeldIsStamped /\ [Next]_vars => HeldIsStamped'
<1> SUFFICES ASSUME TypeOK, HeldIsStamped, [Next]_vars PROVE HeldIsStamped'
  OBVIOUS
<1> USE DEF TypeOK, HeldIsStamped, Holds
<1>1. CASE UNCHANGED <<row, got, known>>
  BY <1>1
<1>2. ASSUME NEW t \in Task, Create(t)
      PROVE  HeldIsStamped'
  <2>1. row[t].token = Nobody
    BY <1>2 DEF Create, Row, Result
  <2>2. \A e \in Executor : t \notin Holds(e)
    BY <2>1, BotTasksAssumption
  <2> QED BY <1>2, <2>2 DEF Create, claims
<1>3. ASSUME NEW e \in Executor, Select(e) \/ ClaimAnswer(e) \/ ClaimFails(e)
      PROVE  HeldIsStamped'
  <2>1. row' = row /\ \A x \in Executor : Holds(x)' \subseteq Holds(x)
    BY <1>3 DEF Select, ClaimAnswer, ClaimFails
  <2> QED BY <2>1
<1>4. ASSUME NEW e \in Executor, NEW t \in Task, Flip(e, t)
      PROVE  HeldIsStamped'
  <2>1. CASE Claimable(t)
    <3>1. row[t].token = Nobody
      BY <2>1 DEF Claimable, Row, Result
    <3>2. \A x \in Executor : t \notin Holds(x)
      BY <3>1, BotTasksAssumption
    <3>3. /\ row' = [row EXCEPT ![t] = Claimed(e)]
          /\ got' = [got EXCEPT ![e] = @ \cup {t}]
          /\ known' = known
      BY <1>4, <2>1 DEF Flip
    <3> QED BY <3>2, <3>3 DEF Claimed
  <2>2. CASE ~Claimable(t)
    BY <1>4, <2>2 DEF Flip
  <2> QED BY <2>1, <2>2
<1>5. ASSUME NEW e \in Executor, NEW t \in Task, NEW r \in Result, Ack(e, t, r)
      PROVE  HeldIsStamped'
  <2>1. row' = [row EXCEPT ![t] = [row[t] EXCEPT !.status = r]]
    BY <1>5 DEF Ack
  <2>2. [row[t] EXCEPT !.status = r].token = row[t].token
    BY DEF Row
  <2>3. \A x \in Task : row'[x].token = row[x].token
    BY <2>1, <2>2
  <2> QED BY <1>5, <2>3 DEF Ack, claims
<1>6. CASE Crash
  BY <1>6 DEF Crash
<1>7. \/ UNCHANGED <<row, got, known>>
      \/ \E t \in Task : Create(t)
      \/ \E e \in Executor : Select(e) \/ ClaimAnswer(e) \/ ClaimFails(e)
      \/ \E e \in Executor, t \in Task : Flip(e, t)
      \/ \E e \in Executor, t \in Task, r \in Result : Ack(e, t, r)
      \/ Crash
  BY DEF Next, vars, claims, Announce, LookUp, Write, Report, WorkFails, Delete
<1> QED BY <1>1, <1>2, <1>3, <1>4, <1>5, <1>6, <1>7

-----------------------------------------------------------------------------
(* Writing back. *)

WriteBackInv == WorkMatchesRow /\ OneWriteBack /\ TimelineTellsResult

LEMMA NextWriteBack == TypeOK /\ WriteBackInv /\ [Next]_vars => WriteBackInv'
<1> SUFFICES ASSUME TypeOK, WriteBackInv, [Next]_vars PROVE WriteBackInv'
  OBVIOUS
<1> USE DEF WriteBackInv, WorkMatchesRow, OneWriteBack, TimelineTellsResult
<1>0. /\ work \subseteq Work
      /\ row \in [Task -> Row]
      /\ entries \in [Task \X Result -> 0..2]
  BY DEF TypeOK
<1>1. ASSUME UNCHANGED <<row, entries>>, work' \subseteq work
      PROVE  WriteBackInv'
  BY <1>1
<1>2. ASSUME NEW t \in Task, Create(t)
      PROVE  WriteBackInv'
  <2> DEFINE a == [task |-> t, at |-> "announce", result |-> "none"]
  <2>1. /\ work' = work \cup {a}
        /\ row' = [row EXCEPT ![t] = [status |-> "queued", token |-> Nobody]]
        /\ entries' = entries
        /\ row[t].status = "none"
    BY <1>2 DEF Create, matter
  <2>2. \A w \in work : w.at # "announce" => w.task # t
    BY <1>0, <2>1 DEF Work, Result
  <2>3. WorkMatchesRow'
    BY <1>0, <2>1, <2>2
  <2>4. OneWriteBack'
    BY <2>1
  <2>5. \A r \in Result : entries[<<t, r>>] <= 0
    BY <2>1 DEF Result
  <2>6. TimelineTellsResult'
    BY <1>0, <2>1, <2>5 DEF Result
  <2> QED BY <2>3, <2>4, <2>6
<1>3. ASSUME NEW e \in Executor, NEW t \in Task, Flip(e, t), Claimable(t)
      PROVE  WriteBackInv'
  <2>1. /\ work' = work
        /\ row' = [row EXCEPT ![t] = Claimed(e)]
        /\ entries' = entries
        /\ row[t].status = "queued"
    BY <1>3 DEF Flip, Claimable, matter
  <2>2. \A w \in work : w.at # "announce" => w.task # t
    BY <1>0, <2>1 DEF Work, Result
  <2>3. WorkMatchesRow'
    BY <1>0, <2>1, <2>2
  <2>4. \A r \in Result : entries[<<t, r>>] <= 0
    BY <2>1 DEF Result
  <2>5. TimelineTellsResult'
    BY <1>0, <2>1, <2>4 DEF Result, Claimed
  <2> QED BY <2>1, <2>3, <2>5
<1>4. ASSUME NEW e \in Executor, NEW t \in Task, NEW r \in Result, Ack(e, t, r)
      PROVE  WriteBackInv'
  <2> DEFINE a == [task |-> t, at |-> "lookup", result |-> r]
  <2>1. /\ work' = work \cup {a}
        /\ row' = [row EXCEPT ![t] = [row[t] EXCEPT !.status = r]]
        /\ entries' = entries
        /\ row[t].status = "dispatched"
    BY <1>4 DEF Ack, Ackable, matter
  <2>2. \A w \in work : w.at # "announce" => w.task # t
    BY <1>0, <2>1 DEF Work, Result
  <2>3. \A s \in Result : entries[<<t, s>>] = 0
    <3> SUFFICES ASSUME NEW s \in Result PROVE entries[<<t, s>>] = 0
      OBVIOUS
    <3>1. entries[<<t, s>>] <= 0
      BY <2>1 DEF Result
    <3>2. entries[<<t, s>>] \in 0..2
      BY <1>0
    <3> QED BY <3>1, <3>2
  <2>4. row'[t].status = r /\ \A x \in Task : x # t => row'[x] = row[x]
    BY <1>0, <2>1 DEF Row
  <2>5. WorkMatchesRow'
    BY <1>0, <2>1, <2>2, <2>3, <2>4 DEF Work
  <2>6. OneWriteBack'
    BY <2>1, <2>2
  <2>7. TimelineTellsResult'
    <3> SUFFICES ASSUME NEW x \in Task, NEW s \in Result
                 PROVE  entries[<<x, s>>] <= IF row'[x].status = s THEN 1 ELSE 0
      BY <2>1
    <3>1. CASE x = t
      BY <2>3, <3>1
    <3>2. CASE x # t
      BY <2>4, <3>2
    <3> QED BY <3>1, <3>2
  <2> QED BY <2>5, <2>6, <2>7
<1>5. ASSUME NEW w \in work, w.at \in {"lookup", "write"},
             UNCHANGED <<row, entries>>,
             work' \subseteq (work \ {w}) \cup {[w EXCEPT !.at = "write"], [w EXCEPT !.at = "report"]},
             [w EXCEPT !.at = "write"] \in work' => [w EXCEPT !.at = "report"] \notin work'
      PROVE  WriteBackInv'
  <2> DEFINE v == [w EXCEPT !.at = "write"]
             u == [w EXCEPT !.at = "report"]
  <2>1. /\ v.task = w.task /\ v.at = "write" /\ v.result = w.result
        /\ u.task = w.task /\ u.at = "report" /\ u.result = w.result
    BY <1>0 DEF Work
  <2>5. /\ work' \subseteq (work \ {w}) \cup {v, u}
        /\ v \in work' => u \notin work'
    BY <1>5
  <2>6. row[w.task].status = w.result /\ entries[<<w.task, w.result>>] = 0
    BY <1>5
  <2>3. \A x \in work : x.at # "announce" /\ x.task = w.task => x = w
    BY <1>5
  <2> HIDE DEF v, u
  <2>2. WorkMatchesRow'
    <3> SUFFICES ASSUME NEW x \in work', x.at # "announce"
                 PROVE  /\ row[x.task].status = x.result
                        /\ x.at \in {"lookup", "write"} => entries[<<x.task, x.result>>] = 0
      BY <1>5
    <3>1. CASE x \in work
      BY <3>1
    <3>2. CASE x \in {v, u}
      BY <2>1, <2>6, <3>2
    <3> QED BY <2>5, <3>1, <3>2
  <2>4. OneWriteBack'
    <3> SUFFICES ASSUME NEW x \in work', NEW y \in work',
                        x.task = y.task, x.at # "announce", y.at # "announce"
                 PROVE  x = y
      OBVIOUS
    <3>1. CASE x \in work \ {w} /\ y \in work \ {w}
      BY <3>1
    <3>2. CASE x \in {v, u} /\ y \in {v, u}
      BY <2>5, <3>2
    <3>3. CASE x \in work \ {w} /\ y \in {v, u}
      BY <2>1, <2>3, <3>3
    <3>4. CASE x \in {v, u} /\ y \in work \ {w}
      BY <2>1, <2>3, <3>4
    <3> QED BY <2>5, <3>1, <3>2, <3>3, <3>4
  <2> QED BY <1>5, <2>2, <2>4
<1>6. ASSUME NEW w \in work, Write(w)
      PROVE  WriteBackInv'
  <2> DEFINE u == [w EXCEPT !.at = "report"]
             k == <<w.task, w.result>>
  <2>1. w \in Work /\ w.at = "write" /\ w.task \in Task /\ w.result \in Result
    BY <1>0, <1>6 DEF Write, Work
  <2>2. u.task = w.task /\ u.at = "report" /\ u.result = w.result
    BY <2>1 DEF Work
  <2>3. entries[k] = 0 /\ row[w.task].status = w.result
    BY <2>1
  <2>4. /\ entries' = [entries EXCEPT ![k] = 1]
        /\ row' = row
        /\ work' = (work \ {w}) \cup {u}
    BY <1>6, <2>3 DEF Write
  <2>5. \A x \in work : x.at # "announce" /\ x.task = w.task => x = w
    BY <2>1
  <2>6. WorkMatchesRow'
    <3> SUFFICES ASSUME NEW x \in work', x.at # "announce"
                 PROVE  /\ row[x.task].status = x.result
                        /\ x.at \in {"lookup", "write"} => entries'[<<x.task, x.result>>] = 0
      BY <2>4
    <3>1. CASE x = u
      BY <2>2, <2>3, <3>1
    <3>2. CASE x \in work /\ x # w
      <4>1. x.task # w.task
        BY <2>5, <3>2
      <4>2. x \in Work /\ x.task \in Task /\ x.result \in Result
        BY <1>0, <3>2 DEF Work
      <4>3. entries'[<<x.task, x.result>>] = entries[<<x.task, x.result>>]
        BY <1>0, <2>4, <4>1, <4>2
      <4> QED BY <3>2, <4>3
    <3> QED BY <2>4, <3>1, <3>2
  <2>7. OneWriteBack'
    <3> SUFFICES ASSUME NEW x \in work', NEW y \in work',
                        x.task = y.task, x.at # "announce", y.at # "announce"
                 PROVE  x = y
      OBVIOUS
    <3> HIDE DEF u
    <3>1. CASE x \in work \ {w} /\ y \in work \ {w}
      BY <3>1
    <3>2. CASE x = u /\ y \in work \ {w}
      BY <2>2, <2>5, <3>2
    <3>3. CASE x \in work \ {w} /\ y = u
      BY <2>2, <2>5, <3>3
    <3> QED BY <2>4, <3>1, <3>2, <3>3
  <2>8. TimelineTellsResult'
    <3> SUFFICES ASSUME NEW x \in Task, NEW s \in Result
                 PROVE  entries'[<<x, s>>] <= IF row[x].status = s THEN 1 ELSE 0
      BY <2>4
    <3>0. <<x, s>> \in Task \X Result /\ k \in Task \X Result
      BY <2>1
    <3>1. CASE <<x, s>> = k
      <4>1. entries'[<<x, s>>] = 1
        BY <1>0, <2>4, <3>0, <3>1
      <4>2. x = w.task /\ s = w.result
        BY <3>1
      <4> QED BY <2>3, <4>1, <4>2
    <3>2. CASE <<x, s>> # k
      <4>1. entries'[<<x, s>>] = entries[<<x, s>>]
        BY <1>0, <2>4, <3>0, <3>2
      <4> QED BY <4>1
    <3> QED BY <3>1, <3>2
  <2> QED BY <2>6, <2>7, <2>8
<1>7. ASSUME NEW w \in work, LookUp(w)
      PROVE  WriteBackInv'
  <2>1. [w EXCEPT !.at = "report"] \notin work \/ [w EXCEPT !.at = "report"] = w
    BY <1>0, <1>7 DEF LookUp, Work
  <2>2. w.at = "lookup" /\ [w EXCEPT !.at = "report"] # [w EXCEPT !.at = "write"]
    BY <1>0, <1>7 DEF LookUp, Work
  <2> QED BY <1>5, <1>7, <2>1, <2>2 DEF LookUp, matter
<1>8. ASSUME NEW w \in work, WorkFails(w)
      PROVE  WriteBackInv'
  <2>1. CASE w.at = "write"
    <3>1. [w EXCEPT !.at = "write"] = w
      BY <1>0, <2>1 DEF Work
    <3>2. [w EXCEPT !.at = "report"] # w
      BY <1>0, <2>1 DEF Work
    <3> QED BY <1>5, <1>8, <2>1, <3>1, <3>2 DEF WorkFails, matter
  <2>2. CASE w.at # "write"
    BY <1>1, <1>8, <2>2 DEF WorkFails, matter
  <2> QED BY <2>1, <2>2
<1>9. \/ UNCHANGED <<row, entries>> /\ work' \subseteq work
      \/ \E t \in Task : Create(t)
      \/ \E e \in Executor, t \in Task : Flip(e, t) /\ Claimable(t)
      \/ \E e \in Executor, t \in Task, r \in Result : Ack(e, t, r)
      \/ \E w \in work : LookUp(w) \/ Write(w) \/ WorkFails(w)
  BY DEF Next, vars, matter, Select, ClaimAnswer, ClaimFails, Flip, Announce, Report, Delete, Crash
<1> QED BY <1>1, <1>2, <1>3, <1>4, <1>6, <1>7, <1>8, <1>9

-----------------------------------------------------------------------------
(* The theorems. *)

LEMMA SpecInv == Spec => []BotTasksInv
<1>1. Init => BotTasksInv
  BY InitInv
<1>2. BotTasksInv /\ [Next]_vars => BotTasksInv'
  BY NextType, NextHeld, NextWriteBack DEF BotTasksInv, WriteBackInv
<1> QED BY <1>1, <1>2, PTL DEF Spec

\* Every reachable state of the queue is well typed: a row has a token exactly when it
\* left the queue.
THEOREM TypeCorrect == Spec => []TypeOK
<1>1. BotTasksInv => TypeOK
  BY DEF BotTasksInv
<1> QED BY <1>1, SpecInv, PTL

\* Claims that race for the same ids never give a task to two executors.
THEOREM ClaimsExclude == Spec => []OneHolder
<1>1. BotTasksInv => OneHolder
  BY DEF BotTasksInv, HeldIsStamped, OneHolder
<1> QED BY <1>1, SpecInv, PTL

\* The timeline tells one result of a run, and it is the queue's, whatever is
\* acknowledged again and wherever a write-back stops.
THEOREM TimelineSound == Spec => []TimelineTellsResult
<1>1. BotTasksInv => TimelineTellsResult
  BY DEF BotTasksInv
<1> QED BY <1>1, SpecInv, PTL

-----------------------------------------------------------------------------
(* The refinement. *)

\* What a claim has flipped and not answered yet is dispatched, and its executor was not
\* told of it before.
GotIsFresh ==
    \A e \in Executor : \A t \in got[e] : row[t].status = "dispatched" /\ t \notin known[e]

LEMMA NextFresh ==
    TypeOK /\ HeldIsStamped /\ GotIsFresh /\ [Next]_vars => GotIsFresh'
<1> SUFFICES ASSUME TypeOK, HeldIsStamped, GotIsFresh, [Next]_vars PROVE GotIsFresh'
  OBVIOUS
<1> USE DEF GotIsFresh
<1>0. /\ row \in [Task -> Row]
      /\ got \in [Executor -> SUBSET Task] /\ known \in [Executor -> SUBSET Task]
  BY DEF TypeOK
<1>1. CASE UNCHANGED <<row, got, known>>
  BY <1>1
<1>2. ASSUME NEW t \in Task, Create(t)
      PROVE  GotIsFresh'
  BY <1>0, <1>2 DEF Create, claims
<1>3. ASSUME NEW e \in Executor, ClaimAnswer(e) \/ ClaimFails(e)
      PROVE  GotIsFresh'
  BY <1>0, <1>3 DEF ClaimAnswer, ClaimFails
<1>4. ASSUME NEW e \in Executor, NEW t \in Task, Flip(e, t), Claimable(t)
      PROVE  GotIsFresh'
  <2>1. row[t].token = Nobody
    BY <1>0, <1>4 DEF Claimable, Row, Result
  <2>2. \A x \in Executor : t \notin got[x] /\ t \notin known[x]
    BY <2>1, BotTasksAssumption DEF HeldIsStamped, Holds
  <2>3. /\ row' = [row EXCEPT ![t] = Claimed(e)]
        /\ got' = [got EXCEPT ![e] = @ \cup {t}]
        /\ known' = known
    BY <1>4 DEF Flip
  <2> QED BY <1>0, <2>2, <2>3 DEF Claimed
<1>5. ASSUME NEW e \in Executor, NEW t \in Task, NEW r \in Result, Ack(e, t, r)
      PROVE  GotIsFresh'
  <2>1. t \in known[e] /\ row[t].token = e /\ UNCHANGED <<got, known>>
        /\ row' = [row EXCEPT ![t] = [row[t] EXCEPT !.status = r]]
    BY <1>5 DEF Ack, Ackable, claims
  <2>2. \A x \in Executor : t \notin got[x]
    BY <2>1 DEF HeldIsStamped, Holds
  <2> QED BY <1>0, <2>1, <2>2
<1>6. CASE Crash
  BY <1>0, <1>6 DEF Crash
<1>7. \/ UNCHANGED <<row, got, known>>
      \/ \E t \in Task : Create(t)
      \/ \E e \in Executor : ClaimAnswer(e) \/ ClaimFails(e)
      \/ \E e \in Executor, t \in Task : Flip(e, t) /\ Claimable(t)
      \/ \E e \in Executor, t \in Task, r \in Result : Ack(e, t, r)
      \/ Crash
  BY DEF Next, vars, claims, Select, Flip, Announce, LookUp, Write, Report, WorkFails, Delete
<1> QED BY <1>1, <1>2, <1>3, <1>4, <1>5, <1>6, <1>7

LEMMA InitMaps == Init => Ledger!LedgerInit
<1> SUFFICES ASSUME Init PROVE Ledger!LedgerInit
  OBVIOUS
<1>1. \A t \in Task : ~\E e \in Executor : t \in Holds(e)
  BY DEF Init, Holds
<1>2. holder = [t \in Task |-> Nobody]
  BY <1>1 DEF holder
<1>3. [t \in Task |-> row[t].status] = [t \in Task |-> "none"]
  BY DEF Init
<1>4. entries = [k \in Task \X Result |-> 0]
  BY DEF Init
<1> QED BY <1>2, <1>3, <1>4 DEF Ledger!LedgerInit, Ledger!Result, Result

\* A step that leaves rows, holders and entries alone is a stutter of the ledger.
LEMMA Stutters ==
    ASSUME row' = row, entries' = entries, holder' = holder
    PROVE  UNCHANGED Ledger!ledger
  BY DEF Ledger!ledger

LEMMA HoldersStay ==
    ASSUME row' = row, \A e \in Executor : Holds(e)' = Holds(e)
    PROVE  holder' = holder
  BY DEF holder

LEMMA StepMaps ==
    BotTasksInv /\ GotIsFresh /\ [Next]_vars => [Ledger!LedgerNext]_(Ledger!ledger)
<1> SUFFICES ASSUME BotTasksInv, GotIsFresh, [Next]_vars
             PROVE  [Ledger!LedgerNext]_(Ledger!ledger)
  OBVIOUS
<1> DEFINE st == [t \in Task |-> row[t].status]
<1>0. /\ row \in [Task -> Row] /\ entries \in [Task \X Result -> 0..2]
      /\ got \in [Executor -> SUBSET Task] /\ known \in [Executor -> SUBSET Task]
      /\ work \subseteq Work
  BY DEF BotTasksInv, TypeOK
<1>s. HeldIsStamped
  BY DEF BotTasksInv
<1>h. \A t \in Task, e \in Executor : t \in Holds(e) => holder[t] = e /\ holder[t] # Nobody
  BY <1>s, BotTasksAssumption DEF HeldIsStamped, holder
<1>1. ASSUME NEW t \in Task, Create(t)
      PROVE  Ledger!Post(t)
  <2>1. /\ row[t].status = "none" /\ UNCHANGED <<got, known, entries>>
        /\ row' = [row EXCEPT ![t] = [status |-> "queued", token |-> Nobody]]
    BY <1>1 DEF Create, claims, matter
  <2>2. row[t].token = Nobody
    BY <1>0, <2>1 DEF Row, Result
  <2>3. \A x \in Task : row'[x].token = row[x].token
    BY <1>0, <2>1, <2>2
  <2>4. holder' = holder
    BY <2>1, <2>3 DEF holder, Holds
  <2>5. st' = [st EXCEPT ![t] = "queued"]
    BY <1>0, <2>1
  <2> QED BY <2>1, <2>4, <2>5 DEF Ledger!Post
<1>2. ASSUME NEW e \in Executor, NEW t \in Task, Flip(e, t), Claimable(t)
      PROVE  Ledger!Take(t, e)
  <2>1. /\ row[t].status = "queued" /\ UNCHANGED <<known, entries>>
        /\ row' = [row EXCEPT ![t] = Claimed(e)]
        /\ got' = [got EXCEPT ![e] = @ \cup {t}]
    BY <1>2 DEF Flip, Claimable, matter
  <2>2. row[t].token = Nobody
    BY <1>0, <2>1 DEF Row, Result
  <2>3. \A x \in Executor : t \notin Holds(x)
    BY <1>s, <2>2, BotTasksAssumption DEF HeldIsStamped
  <2>4. holder[t] = Nobody
    BY <2>3 DEF holder
  <2>5. \A x \in Task : x # t => row'[x] = row[x]
    BY <1>0, <2>1
  <2>6. \A x \in Task, f \in Executor : x # t => (x \in Holds(f)' <=> x \in Holds(f))
    BY <1>0, <2>1 DEF Holds
  <2>7. t \in Holds(e)' /\ row'[t].token = e
    BY <1>0, <2>1 DEF Holds, Claimed
  <2>8. holder' = [holder EXCEPT ![t] = e]
    BY <2>5, <2>6, <2>7 DEF holder
  <2>9. st' = [st EXCEPT ![t] = "dispatched"]
    BY <1>0, <2>1 DEF Claimed
  <2> QED BY <2>1, <2>4, <2>8, <2>9 DEF Ledger!Take
<1>3. ASSUME NEW e \in Executor, Select(e) \/ ClaimAnswer(e)
      PROVE  UNCHANGED Ledger!ledger
  <2>1. row' = row /\ entries' = entries
    BY <1>3 DEF Select, ClaimAnswer, matter
  <2>2. \A x \in Executor : Holds(x)' = Holds(x)
    BY <1>0, <1>3 DEF Select, ClaimAnswer, Holds
  <2> QED BY <2>1, <2>2, HoldersStay, Stutters
<1>4. ASSUME UNCHANGED <<row, known, entries>>,
             \A x \in Executor : got'[x] = got[x] \/ got'[x] = {}
      PROVE  \E S \in SUBSET Task : Ledger!Lose(S)
  <2> DEFINE S == UNION {got[x] : x \in {y \in Executor : got'[y] = {}}}
  <2>1. S \in SUBSET Task
    BY <1>0
  <2>2. \A t \in S : row[t].status = "dispatched" /\ holder[t] # Nobody
    BY <1>0, <1>h DEF GotIsFresh, Holds
  <2>3. ASSUME NEW t \in S
        PROVE  \A x \in Executor : t \notin Holds(x)'
    <3>1. PICK y \in Executor : t \in got[y] /\ got'[y] = {}
      OBVIOUS
    <3>2. t \notin known[y] /\ t \in Holds(y)
      BY <3>1 DEF GotIsFresh, Holds
    <3>3. \A x \in Executor : t \in Holds(x) => x = y
      BY <1>s, <3>2 DEF HeldIsStamped
    <3> QED BY <1>4, <3>1, <3>2, <3>3 DEF Holds
  <2>4. ASSUME NEW t \in Task, t \notin S
        PROVE  \A x \in Executor : t \in Holds(x)' <=> t \in Holds(x)
    BY <1>4, <2>4 DEF Holds
  <2>5. holder' = [t \in Task |-> IF t \in S THEN Nobody ELSE holder[t]]
    <3>1. ASSUME NEW t \in Task
          PROVE  holder'[t] = IF t \in S THEN Nobody ELSE holder[t]
      <4>1. CASE t \in S
        BY <2>3, <4>1 DEF holder
      <4>2. CASE t \notin S
        BY <1>4, <2>4, <4>2 DEF holder
      <4> QED BY <4>1, <4>2
    <3> QED BY <3>1 DEF holder
  <2>6. \A t \in S : st[t] = "dispatched"
    BY <2>1, <2>2
  <2> HIDE DEF S
  <2>7. st' = st
    BY <1>4
  <2> QED BY <1>4, <2>1, <2>2, <2>5, <2>6, <2>7 DEF Ledger!Lose
<1>5. ASSUME NEW e \in Executor, NEW t \in Task, NEW r \in Result, Ack(e, t, r)
      PROVE  Ledger!Settle(t, r)
  <2>1. /\ t \in Holds(e) /\ row[t].status = "dispatched"
        /\ row' = [row EXCEPT ![t] = [row[t] EXCEPT !.status = r]]
        /\ UNCHANGED <<got, known, entries>>
    BY <1>5 DEF Ack, Ackable, Holds, claims, matter
  <2>2. \A x \in Task : row'[x].token = row[x].token
    BY <1>0, <2>1 DEF Row
  <2>3. holder' = holder
    BY <2>1, <2>2 DEF holder, Holds
  <2>4. st' = [st EXCEPT ![t] = r]
    BY <1>0, <2>1 DEF Row
  <2> QED BY <1>h, <2>1, <2>3, <2>4 DEF Ledger!Settle
<1>6. ASSUME NEW w \in work, Write(w)
      PROVE  Ledger!Tell(w.task, w.result) /\ w.task \in Task /\ w.result \in Result
  <2>1. /\ w.at = "write" /\ w.task \in Task /\ w.result \in Result
        /\ UNCHANGED <<row, got, known>>
    BY <1>0, <1>6 DEF Write, Work, claims
  <2>2. row[w.task].status = w.result /\ entries[<<w.task, w.result>>] = 0
    BY <2>1 DEF BotTasksInv, WorkMatchesRow
  <2>3. \A s \in Result : entries[<<w.task, s>>] = 0
    <3> SUFFICES ASSUME NEW s \in Result, s # w.result PROVE entries[<<w.task, s>>] = 0
      BY <2>2
    <3>1. entries[<<w.task, s>>] <= 0
      BY <2>1, <2>2 DEF BotTasksInv, TimelineTellsResult
    <3>2. entries[<<w.task, s>>] \in 0..2
      BY <1>0, <2>1
    <3> QED BY <3>1, <3>2
  <2>4. entries' = [entries EXCEPT ![<<w.task, w.result>>] = 1]
    BY <1>6, <2>2 DEF Write
  <2>5. holder' = holder /\ st' = st
    BY <2>1 DEF holder, Holds
  <2> QED BY <2>1, <2>2, <2>3, <2>4, <2>5 DEF Ledger!Tell, Ledger!Result, Result
<1>7. ASSUME UNCHANGED <<row, got, known, entries>>
      PROVE  UNCHANGED Ledger!ledger
  BY <1>7, Stutters DEF holder, Holds
<1>8. \/ UNCHANGED <<row, got, known, entries>>
      \/ \E t \in Task : Create(t)
      \/ \E e \in Executor : Select(e) \/ ClaimAnswer(e) \/ ClaimFails(e)
      \/ \E e \in Executor, t \in Task : Flip(e, t) /\ Claimable(t)
      \/ \E e \in Executor, t \in Task, r \in Result : Ack(e, t, r)
      \/ \E w \in work : Write(w)
      \/ Crash
  BY DEF Next, vars, claims, matter, Flip, Announce, LookUp, Report, WorkFails, Delete
<1>9. ASSUME NEW e \in Executor, ClaimFails(e)
      PROVE  \E S \in SUBSET Task : Ledger!Lose(S)
  <2>1. UNCHANGED <<row, known, entries>> /\ got' = [got EXCEPT ![e] = {}]
    BY <1>9 DEF ClaimFails, matter
  <2> QED BY <1>0, <1>4, <2>1
<1>10. CASE Crash
  <2>1. UNCHANGED <<row, known, entries>> /\ got' = [x \in Executor |-> {}]
    BY <1>10 DEF Crash, matter
  <2>2. \E S \in SUBSET Task : Ledger!Lose(S)
    BY <1>4, <2>1
  <2> QED BY <2>2 DEF Ledger!LedgerNext
<1> HIDE DEF st
<1> QED BY <1>1, <1>2, <1>3, <1>5, <1>6, <1>7, <1>8, <1>9, <1>10
        DEF Ledger!LedgerNext, Ledger!Result, Result

\* The queue keeps the promise of the ledger for every set of tasks and executors,
\* whatever fails or crashes between its statements.
THEOREM QueueImplementsLedger == Spec => ImplementsLedger
<1>1. Init => GotIsFresh
  BY DEF Init, GotIsFresh
<1>2. BotTasksInv /\ GotIsFresh /\ [Next]_vars => GotIsFresh'
  BY NextFresh DEF BotTasksInv
<1>3. Spec => []GotIsFresh
  BY <1>1, <1>2, SpecInv, PTL DEF Spec
<1> QED BY <1>3, SpecInv, InitMaps, StepMaps, PTL DEF Spec, ImplementsLedger, Ledger!LedgerSpec

-----------------------------------------------------------------------------
(* Without failures nothing is lost. *)

LEMMA StaysDisturbed == TypeOK /\ [Next]_vars /\ Undisturbed' => Undisturbed
<1> SUFFICES ASSUME TypeOK, [Next]_vars, Undisturbed' PROVE Undisturbed
  OBVIOUS
<1>1. failures \in Nat /\ crashes \in Nat
  BY BotTasksAssumption DEF TypeOK
<1>2. \/ UNCHANGED <<failures, crashes>>
      \/ failures' = failures + 1
      \/ crashes' = crashes + 1
  BY DEF Next, vars, Create, Select, ClaimAnswer, ClaimFails, Flip, Ack, Announce, LookUp, Write,
         Report, WorkFails, Delete, Crash
<1> QED BY <1>1, <1>2 DEF Undisturbed

\* What the executors hold only grows, and a task that is dispatched is in a hand.
LEMMA NextDispatched == TypeOK /\ DispatchedIsHeld /\ [Next]_vars => DispatchedIsHeld'
<1> SUFFICES ASSUME TypeOK, DispatchedIsHeld, [Next]_vars, Undisturbed'
             PROVE  \A t \in Task : row'[t].status = "dispatched" => \E e \in Executor : t \in Holds(e)'
  BY DEF DispatchedIsHeld
<1>0. /\ row \in [Task -> Row]
      /\ got \in [Executor -> SUBSET Task] /\ known \in [Executor -> SUBSET Task]
      /\ failures \in Nat /\ crashes \in Nat /\ failures' = 0 /\ crashes' = 0
  BY BotTasksAssumption DEF TypeOK, Undisturbed
<1>1. \A t \in Task : row[t].status = "dispatched" => \E e \in Executor : t \in Holds(e)
  BY StaysDisturbed DEF DispatchedIsHeld
<1>2. ASSUME \A t \in Task : row'[t].status = "dispatched" => row[t].status = "dispatched",
             \A e \in Executor : Holds(e) \subseteq Holds(e)'
      PROVE  \A t \in Task : row'[t].status = "dispatched" => \E e \in Executor : t \in Holds(e)'
  BY <1>1, <1>2
<1>3. ASSUME NEW t \in Task, Create(t)
      PROVE  /\ \A x \in Task : row'[x].status = "dispatched" => row[x].status = "dispatched"
             /\ \A e \in Executor : Holds(e) \subseteq Holds(e)'
  BY <1>0, <1>3 DEF Create, claims, Holds
<1>4. ASSUME NEW e \in Executor, Select(e) \/ ClaimAnswer(e)
      PROVE  /\ row' = row
             /\ \A x \in Executor : Holds(x) \subseteq Holds(x)'
  BY <1>0, <1>4 DEF Select, ClaimAnswer, Holds
<1>5. ASSUME NEW e \in Executor, NEW t \in Task, Flip(e, t), Claimable(t)
      PROVE  \A x \in Task : row'[x].status = "dispatched" => \E f \in Executor : x \in Holds(f)'
  <2>1. /\ row' = [row EXCEPT ![t] = Claimed(e)] /\ known' = known
        /\ got' = [got EXCEPT ![e] = @ \cup {t}]
    BY <1>5 DEF Flip
  <2>2. t \in Holds(e)' /\ \A f \in Executor : Holds(f) \subseteq Holds(f)'
    BY <1>0, <2>1 DEF Holds
  <2>3. \A x \in Task : x # t => row'[x] = row[x]
    BY <1>0, <2>1
  <2> QED BY <1>1, <2>2, <2>3
<1>6. ASSUME NEW e \in Executor, NEW t \in Task, NEW r \in Result, Ack(e, t, r)
      PROVE  /\ \A x \in Task : row'[x].status = "dispatched" => row[x].status = "dispatched"
             /\ \A f \in Executor : Holds(f) \subseteq Holds(f)'
  <2>1. row' = [row EXCEPT ![t] = [row[t] EXCEPT !.status = r]] /\ UNCHANGED <<got, known>>
        /\ row[t].status = "dispatched"
    BY <1>6 DEF Ack, Ackable, claims
  <2> QED BY <1>0, <2>1 DEF Holds
<1>7. ~(\E e \in Executor : ClaimFails(e)) /\ ~Crash
  BY <1>0 DEF ClaimFails, Crash
<1>8. CASE UNCHANGED <<row, got, known>>
  BY <1>2, <1>8 DEF Holds
<1>9. \/ UNCHANGED <<row, got, known>>
      \/ \E t \in Task : Create(t)
      \/ \E e \in Executor : Select(e) \/ ClaimAnswer(e)
      \/ \E e \in Executor, t \in Task : Flip(e, t) /\ Claimable(t)
      \/ \E e \in Executor, t \in Task, r \in Result : Ack(e, t, r)
  BY <1>7 DEF Next, vars, claims, Flip, Announce, LookUp, Write, Report, WorkFails, Delete
<1> QED BY <1>2, <1>3, <1>4, <1>5, <1>6, <1>8, <1>9

\* A task that left the queue is held by an executor, unless a claim failed or crashed.
THEOREM NoTaskIsOrphaned == Spec => []DispatchedIsHeld
<1>1. Init => DispatchedIsHeld
  BY DEF Init, DispatchedIsHeld
<1>2. BotTasksInv /\ DispatchedIsHeld /\ [Next]_vars => DispatchedIsHeld'
  BY NextDispatched DEF BotTasksInv
<1> QED BY <1>1, <1>2, SpecInv, PTL DEF Spec

\* A write-back that has only the ring left has made its entry.
ReportsWritten ==
    Undisturbed => \A w \in work : w.at = "report" => entries[<<w.task, w.result>>] > 0

\* No entry is taken back.
LEMMA EntriesGrow ==
    ASSUME TypeOK, [Next]_vars, NEW k \in Task \X Result
    PROVE  entries'[k] >= entries[k] /\ \A w \in work : Write(w) /\ k = <<w.task, w.result>> => entries'[k] > 0
<1>0. entries[k] \in 0..2
  BY DEF TypeOK
<1>1. ASSUME NEW w \in work, Write(w)
      PROVE  entries'[k] >= entries[k] /\ (k = <<w.task, w.result>> => entries'[k] > 0)
  <2> DEFINE j == <<w.task, w.result>>
             n == IF entries[j] < 2 THEN entries[j] + 1 ELSE 2
  <2>1. entries' = [entries EXCEPT ![j] = n]
    BY <1>1 DEF Write
  <2>2. CASE k = j
    <3>1. entries'[k] = IF entries[k] < 2 THEN entries[k] + 1 ELSE 2
      BY <2>1, <2>2 DEF TypeOK
    <3> QED BY <1>0, <3>1
  <2> HIDE DEF n, j
  <2>3. CASE k # j
    <3>1. entries'[k] = entries[k]
      BY <2>1, <2>3 DEF TypeOK
    <3> QED BY <1>0, <2>3, <3>1 DEF j
  <2> QED BY <2>2, <2>3
<1>2. (\E w \in work : Write(w)) \/ entries' = entries
  BY DEF Next, vars, matter, Create, Select, ClaimAnswer, ClaimFails, Flip, Ack, Announce, LookUp,
         Report, WorkFails, Delete, Crash
<1> QED BY <1>0, <1>1, <1>2

LEMMA NextReports == TypeOK /\ ReportsWritten /\ [Next]_vars => ReportsWritten'
<1> SUFFICES ASSUME TypeOK, ReportsWritten, [Next]_vars, Undisturbed', NEW v \in work', v.at = "report"
             PROVE  entries'[<<v.task, v.result>>] > 0
  BY DEF ReportsWritten
<1>0. work \subseteq Work /\ work' \subseteq Work /\ failures \in Nat /\ failures' = 0
  BY NextType, BotTasksAssumption DEF TypeOK, Undisturbed
<1>1. <<v.task, v.result>> \in Task \X Result
  BY <1>0 DEF Work
<1>2. CASE v \in work
  <2>1. entries[<<v.task, v.result>>] > 0
    BY <1>2, StaysDisturbed DEF ReportsWritten
  <2>2. entries[<<v.task, v.result>>] \in 0..2 /\ entries'[<<v.task, v.result>>] \in 0..2
    BY <1>1, NextType DEF TypeOK
  <2> QED BY <1>1, <2>1, <2>2, EntriesGrow
<1>3. CASE v \notin work
  <2>1. PICK w \in work : Write(w) /\ v = [w EXCEPT !.at = "report"]
    <3>1. ~ \E w \in work : WorkFails(w)
      BY <1>0 DEF WorkFails
    <3>2. \A w \in work : [w EXCEPT !.at = "write"].at = "write"
      BY <1>0 DEF Work
    <3>3. ASSUME NEW w \in work, LookUp(w)
          PROVE  FALSE
      BY <1>3, <3>2, <3>3 DEF LookUp
    <3>4. ASSUME NEW t \in Task, Create(t)
          PROVE  FALSE
      BY <1>3, <3>4 DEF Create
    <3>5. ASSUME NEW e \in Executor, NEW t \in Task, NEW r \in Result, Ack(e, t, r)
          PROVE  FALSE
      BY <1>3, <3>5 DEF Ack
    <3>6. ASSUME work' \subseteq work
          PROVE  FALSE
      BY <1>3, <3>6
    <3>7. \/ work' \subseteq work
          \/ \E t \in Task : Create(t)
          \/ \E e \in Executor, t \in Task, r \in Result : Ack(e, t, r)
          \/ \E w \in work : LookUp(w) \/ Write(w)
      BY <3>1 DEF Next, vars, Select, ClaimAnswer, ClaimFails, Flip, Announce, Report, Delete, Crash
    <3>8. PICK w \in work : Write(w)
      BY <3>3, <3>4, <3>5, <3>6, <3>7
    <3>9. v = [w EXCEPT !.at = "report"]
      BY <1>3, <3>8 DEF Write
    <3> QED BY <3>8, <3>9
  <2>2. v.task = w.task /\ v.result = w.result
    BY <1>0, <2>1 DEF Work
  <2> QED BY <1>1, <2>1, <2>2, EntriesGrow
<1> QED BY <1>2, <1>3

\* A settled run whose matter lives has a write-back under way or its entry.
LEMMA NextAcked ==
    TypeOK /\ WorkMatchesRow /\ ReportsWritten /\ AckedIsWritten /\ [Next]_vars => AckedIsWritten'
<1> DEFINE Told(t) == gone \/ Underway(t) \/ entries[<<t, row[t].status>>] > 0
<1> SUFFICES ASSUME TypeOK, WorkMatchesRow, ReportsWritten, AckedIsWritten, [Next]_vars, Undisturbed',
                    NEW t \in Task, row'[t].status \in Result
             PROVE  Told(t)'
  BY DEF AckedIsWritten
<1>0. /\ row \in [Task -> Row] /\ entries \in [Task \X Result -> 0..2] /\ work \subseteq Work
      /\ failures \in Nat /\ crashes \in Nat /\ failures' = 0 /\ crashes' = 0
  BY BotTasksAssumption DEF TypeOK, Undisturbed
<1>1. row[t].status \in Result => Told(t)
  BY StaysDisturbed DEF AckedIsWritten
<1>2. ASSUME UNCHANGED <<row, gone, entries>>,
             \A w \in work : w.at # "announce" => \E v \in work' : v.task = w.task /\ v.at # "announce"
      PROVE  Told(t)'
  BY <1>1, <1>2 DEF Underway
<1>3. ASSUME NEW s \in Task, Create(s)
      PROVE  Told(t)'
  <2>1. t # s
    BY <1>0, <1>3 DEF Create, Result
  <2>2. row'[t] = row[t] /\ UNCHANGED <<gone, entries>> /\ work \subseteq work'
    BY <1>0, <1>3, <2>1 DEF Create, matter
  <2> QED BY <1>1, <2>2 DEF Underway
<1>4. ASSUME NEW e \in Executor, NEW s \in Task, Flip(e, s), Claimable(s)
      PROVE  Told(t)'
  <2>1. t # s
    BY <1>0, <1>4 DEF Flip, Claimed, Result
  <2>2. row'[t] = row[t] /\ UNCHANGED <<gone, entries, work>>
    BY <1>0, <1>4, <2>1 DEF Flip, matter
  <2> QED BY <1>1, <2>2 DEF Underway
<1>5. ASSUME NEW e \in Executor, NEW s \in Task, NEW r \in Result, Ack(e, s, r)
      PROVE  Told(t)'
  <2> DEFINE a == [task |-> s, at |-> "lookup", result |-> r]
  <2>1. /\ work' = work \cup {a} /\ UNCHANGED <<gone, entries>>
        /\ row' = [row EXCEPT ![s] = [row[s] EXCEPT !.status = r]]
    BY <1>5 DEF Ack, matter
  <2>2. CASE t = s
    <3>1. a \in work' /\ a.task = t /\ a.at # "announce"
      BY <2>1, <2>2
    <3>2. Underway(t)'
      BY <3>1 DEF Underway
    <3> QED BY <3>2
  <2>3. CASE t # s
    <3>1. row'[t] = row[t]
      BY <1>0, <2>1, <2>3
    <3> QED BY <1>1, <2>1, <3>1 DEF Underway
  <2> QED BY <2>2, <2>3
<1>6. ASSUME NEW w \in work, Announce(w)
      PROVE  Told(t)'
  BY <1>2, <1>6 DEF Announce, claims
<1>7. ASSUME NEW w \in work, LookUp(w)
      PROVE  Told(t)'
  <2>1. CASE gone
    BY <1>7, <2>1 DEF LookUp, matter
  <2>2. CASE ~gone
    <3>1. /\ [w EXCEPT !.at = "write"] \in work' /\ work \ {w} \subseteq work'
          /\ UNCHANGED <<row, gone, entries>>
      BY <1>7, <2>2 DEF LookUp, matter
    <3>2. [w EXCEPT !.at = "write"].task = w.task /\ [w EXCEPT !.at = "write"].at = "write"
      BY <1>0 DEF Work
    <3> QED BY <1>2, <3>1, <3>2
  <2> QED BY <2>1, <2>2
<1>8. ASSUME NEW w \in work, Write(w)
      PROVE  Told(t)'
  <2>1. /\ [w EXCEPT !.at = "report"] \in work' /\ work \ {w} \subseteq work'
        /\ UNCHANGED <<row, gone>> /\ w.at = "write"
    BY <1>8 DEF Write
  <2>2. [w EXCEPT !.at = "report"].task = w.task /\ [w EXCEPT !.at = "report"].at = "report"
    BY <1>0 DEF Work
  <2>3. \A v \in work : v.at # "announce" => \E u \in work' : u.task = v.task /\ u.at # "announce"
    BY <2>1, <2>2
  <2>4. Underway(t) => Underway(t)'
    BY <2>3 DEF Underway
  <2>5. <<t, row[t].status>> \in Task \X Result
    BY <2>1
  <2>6. entries[<<t, row[t].status>>] > 0 => entries'[<<t, row[t].status>>] > 0
    <3>1. entries[<<t, row[t].status>>] \in 0..2 /\ entries'[<<t, row[t].status>>] \in 0..2
      BY <2>5, NextType DEF TypeOK
    <3> QED BY <2>5, <3>1, EntriesGrow
  <2> QED BY <1>1, <2>1, <2>4, <2>6
\* When the ring is all that is left, the entry has been written.
<1>9. ASSUME NEW w \in work, Report(w)
      PROVE  Told(t)'
  <2>1. UNCHANGED <<row, gone, entries>> /\ work' = work \ {w} /\ w.at = "report"
    BY <1>9 DEF Report, claims
  <2>2. entries[<<w.task, w.result>>] > 0 /\ row[w.task].status = w.result
    BY <2>1, StaysDisturbed DEF ReportsWritten, WorkMatchesRow
  <2>3. CASE w.task = t
    BY <2>1, <2>2, <2>3
  <2>4. CASE w.task # t
    BY <1>1, <2>1, <2>4 DEF Underway
  <2> QED BY <2>3, <2>4
<1>10. CASE Delete
  BY <1>10 DEF Delete
<1>11. CASE UNCHANGED <<row, gone, entries, work>>
  BY <1>2, <1>11
<1>12. ~(\E e \in Executor : ClaimFails(e)) /\ ~(\E w \in work : WorkFails(w)) /\ ~Crash
  BY <1>0 DEF ClaimFails, WorkFails, Crash
<1> HIDE DEF Told
<1>13. \/ UNCHANGED <<row, gone, entries, work>>
       \/ \E s \in Task : Create(s)
       \/ \E e \in Executor, s \in Task : Flip(e, s) /\ Claimable(s)
       \/ \E e \in Executor, s \in Task, r \in Result : Ack(e, s, r)
       \/ \E w \in work : Announce(w) \/ LookUp(w) \/ Write(w) \/ Report(w)
       \/ Delete
  BY <1>12 DEF Next, vars, matter, Select, ClaimAnswer, Flip
<1> QED BY <1>3, <1>4, <1>5, <1>6, <1>7, <1>8, <1>9, <1>10, <1>11, <1>13

\* What was acknowledged comes to the timeline of its matter, unless the matter was deleted,
\* a statement failed or the process crashed.
THEOREM NoResultIsLost == Spec => []AckedIsWritten
<1>1. Init => AckedIsWritten /\ ReportsWritten
  BY DEF Init, AckedIsWritten, ReportsWritten, Result
<1>2. BotTasksInv /\ ReportsWritten /\ AckedIsWritten /\ [Next]_vars => ReportsWritten' /\ AckedIsWritten'
  BY NextReports, NextAcked DEF BotTasksInv
<1> QED BY <1>1, <1>2, SpecInv, PTL DEF Spec
=============================================================================
