---------------------------- MODULE OutboxProofs ----------------------------
(* Theorems about Outbox, for every table, matter, user and bound. *)
EXTENDS Outbox, TLAPS

-----------------------------------------------------------------------------
(* Types. *)

LEMMA MoreBounds == ASSUME NEW n \in 0..Cap PROVE More(n) \in 0..Cap /\ n <= More(n)
BY RingAssumption DEF More

\* The rows an enqueue or a park writes.
LEMMA EnqueueType ==
    ASSUME TypeOK, NEW m \in Matter, NEW to \in User, NEW event \in RowEvent,
           NEW cause \in Id \cup {Nothing}, Enqueue(m, to, event, cause)
    PROVE  row' \in [Id -> Row]
<1>1. PICK r \in Id :
         row' = [row EXCEPT ![r] = [state |-> "pending", matter |-> m, target |-> to,
                                    event |-> event, cause |-> cause, retry |-> 0,
                                    due |-> TRUE]]
  BY RingAssumption DEF Enqueue
<1>2. [state |-> "pending", matter |-> m, target |-> to, event |-> event, cause |-> cause,
       retry |-> 0, due |-> TRUE] \in Row
  BY RingAssumption DEF Row
<1> QED BY <1>1, <1>2 DEF TypeOK

LEMMA ConsumedType ==
    ASSUME TypeOK, NEW rows PROVE Consumed(rows) \in [Id -> Row]
<1> SUFFICES ASSUME NEW r \in Id PROVE Consumed(rows)[r] \in Row
  BY DEF Consumed
<1>1. row[r] \in Row
  BY DEF TypeOK
<1>2. [row[r] EXCEPT !.state = "consumed"] \in Row
  BY <1>1 DEF Row
<1> QED BY <1>1, <1>2 DEF Consumed

LEMMA MarkedType ==
    ASSUME TypeOK, NEW r \in Id, NEW retry \in 0..Cap
    PROVE  MarkedDelivered(r) \in [Id -> Row] /\ MarkedFailed(r, retry) \in [Id -> Row]
<1>1. row[r] \in Row /\ row[r].retry \in 0..Cap
  BY DEF TypeOK, Row
<1>2. More(row[r].retry) \in 0..Cap
  BY <1>1, MoreBounds
<1>3. [row[r] EXCEPT !.state = "delivered", !.retry = More(@), !.due = FALSE] \in Row
  BY <1>1, <1>2 DEF Row
<1>4. [row[r] EXCEPT !.state = IF retry >= MaxRetries THEN "dead" ELSE "pending",
                     !.retry = retry, !.due = FALSE] \in Row
  BY <1>1 DEF Row
<1> QED BY <1>3, <1>4 DEF MarkedDelivered, MarkedFailed, TypeOK

LEMMA InitType == Init => TypeOK
BY RingAssumption DEF Init, TypeOK, Absent, Idle, Row, Hand, RowEvent

\* Every action keeps the types; a mark is made of the row in hand.
LEMMA NextType ==
    ASSUME TypeOK, [Next]_vars, hand.at # "idle" => hand.id \in Id
    PROVE  TypeOK'
<1> USE RingAssumption
<1>1. ASSUME NEW m \in Matter, NEW u \in User, NEW event \in {"ring", "homecoming"},
             RingInTransition(m, u, event)
      PROVE  TypeOK'
  <2>1. row' \in [Id -> Row]
    BY <1>1, EnqueueType DEF RingInTransition, RowEvent
  <2> QED BY <1>1, <2>1 DEF RingInTransition, TypeOK, requests, dispatcher, faults
<1>2. ASSUME NEW m \in Matter, NEW u \in User, ReadToRing(m, u)
      PROVE  TypeOK'
  BY <1>2 DEF ReadToRing, TypeOK, table, dispatcher, faults
<1>3. ASSUME NEW m \in Matter, NEW u \in User, EnqueueStandalone(m, u)
      PROVE  TypeOK'
  <2>1. row' \in [Id -> Row]
    BY <1>3, EnqueueType DEF EnqueueStandalone, RowEvent
  <2> QED BY <1>3, <2>1 DEF EnqueueStandalone, TypeOK, dispatcher, faults
<1>4. ASSUME NEW m \in Matter, Delete(m)
      PROVE  TypeOK'
  BY <1>4 DEF Delete, TypeOK, dispatcher, faults
<1>5. ASSUME NEW m \in Matter, Park(m)
      PROVE  TypeOK'
  <2>1. row' \in [Id -> Row]
    BY <1>5, ConsumedType DEF Park
  <2> QED BY <1>5, <2>1 DEF Park, TypeOK, dispatcher, faults
<1>6. ASSUME NEW u \in User, NEW m \in Matter, ReadMatter(u, m)
      PROVE  TypeOK'
  BY <1>6 DEF ReadMatter, TypeOK, Look, table, dispatcher, faults
<1>7. ASSUME NEW look \in reading, ConsumeDoorbells(look)
      PROVE  TypeOK'
  <2>1. row' \in [Id -> Row]
    BY <1>7, ConsumedType DEF ConsumeDoorbells
  <2> QED BY <1>7, <2>1 DEF ConsumeDoorbells, TypeOK, dispatcher, faults
<1>8. ASSUME NEW r \in Id, Elapse(r)
      PROVE  TypeOK'
  <2>1. row' \in [Id -> Row]
    BY <1>8 DEF Elapse, TypeOK, Row
  <2> QED BY <1>8, <2>1 DEF Elapse, TypeOK, requests, dispatcher, faults
<1>9. ASSUME Scan
      PROVE  TypeOK'
  <2>1. PICK rows \in SUBSET Id : batch' = {[id |-> r, retry |-> row[r].retry] : r \in rows}
    BY <1>9 DEF Scan
  <2>2. batch' \subseteq [id: Id, retry: 0..Cap]
    BY <2>1 DEF TypeOK, Row
  <2> QED BY <1>9, <2>2 DEF Scan, TypeOK, table, requests, faults
<1>10. ASSUME NEW entry \in batch, NEW ok \in BOOLEAN, Send(entry, ok)
       PROVE  TypeOK'
  <2>1. entry.id \in Id /\ entry.retry \in 0..Cap
    BY DEF TypeOK
  <2>2. hand' \in Hand
    BY <1>10, <2>1 DEF Send, Hand
  <2>3. sent[entry.id].delivered \in 0..Cap /\ sent[entry.id].refused \in 0..Cap
    BY <2>1 DEF TypeOK
  <2>4. More(sent[entry.id].delivered) \in 0..Cap /\ More(sent[entry.id].refused) \in 0..Cap
    BY <2>3, MoreBounds
  <2>5. sent' \in [Id -> [delivered: 0..Cap, refused: 0..Cap]]
    <3>1. CASE ok
      <4>1. sent' = [sent EXCEPT ![entry.id].delivered = More(@)]
        BY <1>10, <3>1 DEF Send
      <4> QED BY <2>1, <2>4, <4>1 DEF TypeOK
    <3>2. CASE ~ok
      <4>1. sent' = [sent EXCEPT ![entry.id].refused = More(@)]
        BY <1>10, <3>2 DEF Send
      <4> QED BY <2>1, <2>4, <4>1 DEF TypeOK
    <3> QED BY <3>1, <3>2
  <2> QED BY <1>10, <2>2, <2>5 DEF Send, TypeOK, table, requests, faults
<1>11. ASSUME Mark
       PROVE  TypeOK'
  <2>1. hand.id \in Id /\ hand.retry \in 0..Cap
    BY <1>11 DEF Mark, TypeOK, Hand
  <2>2. More(hand.retry) \in 0..Cap
    BY <2>1, MoreBounds
  <2>3. row' \in [Id -> Row]
    BY <1>11, <2>1, <2>2, ConsumedType, MarkedType DEF Mark
  <2>4. hand' \in Hand
    <3>1. Idle \in Hand /\ [hand EXCEPT !.at = "dead"] \in Hand
      BY DEF TypeOK, Hand, Idle
    <3> QED BY <1>11, <3>1 DEF Mark
  <2> QED BY <1>11, <2>3, <2>4 DEF Mark, TypeOK, requests, faults
<1>12. ASSUME MarkLost
       PROVE  TypeOK'
  <2>1. hand' \in Hand
    BY <1>12 DEF MarkLost, Hand, Idle, TypeOK
  <2>2. lost' \in 0..MaxLost
    BY <1>12 DEF MarkLost, TypeOK
  <2> QED BY <1>12, <2>1, <2>2 DEF MarkLost, TypeOK, table, requests
<1>13. ASSUME Escalate
       PROVE  TypeOK'
  <2>1. hand' \in Hand /\ hand.id \in Id
    BY <1>13 DEF Escalate, Hand, Idle
  <2>2. row' \in [Id -> Row]
    <3>1. CASE row[hand.id].matter \in live
      BY <1>13, <2>1, <3>1, EnqueueType DEF Escalate, RowEvent, TypeOK
    <3>2. CASE row[hand.id].matter \notin live
      BY <1>13, <3>2 DEF Escalate, TypeOK
    <3> QED BY <3>1, <3>2
  <2> QED BY <1>13, <2>1, <2>2 DEF Escalate, TypeOK, requests, faults
<1>14. ASSUME Crash
       PROVE  TypeOK'
  BY <1>14 DEF Crash, TypeOK, Idle, Hand, table
<1>15. CASE UNCHANGED vars
  BY <1>15 DEF vars, TypeOK
<1> QED BY <1>1, <1>2, <1>3, <1>4, <1>5, <1>6, <1>7, <1>8, <1>9, <1>10, <1>11, <1>12,
           <1>13, <1>14, <1>15 DEF Next

-----------------------------------------------------------------------------
(* The inductive invariant. *)

\* A counter never runs ahead of the attempts made, not even the one that the
\* scan or the hand has copied.
CountsAttempts ==
    /\ \A r \in Id : row[r].retry <= Attempts(r)
    /\ \A entry \in batch : entry.retry <= Attempts(entry.id)
    /\ hand.at = "sent" => /\ More(hand.retry) <= Attempts(hand.id)
                           /\ More(row[hand.id].retry) <= Attempts(hand.id)
    /\ hand.at = "dead" => Attempts(hand.id) >= MaxRetries

\* The dispatcher only holds rows that exist.
HoldsRows ==
    /\ \A entry \in batch : row[entry.id].state # "absent"
    /\ hand.at # "idle" => hand.id \in Id /\ row[hand.id].state # "absent"

OutboxInv ==
    /\ TypeOK
    /\ HoldsRows
    /\ CountsAttempts
    /\ GivesUpAfterRetries

\* A step writes a row in one of these ways: it enqueues it, its time comes, it is
\* consumed, or the dispatcher marks the row in its hand.
RowStep(r) ==
    \/ row'[r] = row[r]
    \/ /\ row[r].state = "absent"
       /\ row'[r].state = "pending" /\ row'[r].retry = 0
       /\ row'[r].cause = Nothing \/ (hand.at = "dead" /\ row'[r].cause = hand.id)
    \/ /\ row'[r].cause = row[r].cause
       /\ row[r].state # "absent"
       /\ row'[r].retry = row[r].retry
       /\ row'[r].state \in {row[r].state, "consumed"}
    \/ /\ row'[r].cause = row[r].cause
       /\ hand.at = "sent" /\ hand.id = r /\ hand' # hand
       /\ row'[r].state = "delivered" /\ row'[r].retry = More(row[r].retry)
    \/ /\ row'[r].cause = row[r].cause
       /\ hand.at = "sent" /\ hand.id = r /\ hand' # hand
       /\ row'[r].state = IF More(hand.retry) >= MaxRetries THEN "dead" ELSE "pending"
       /\ row'[r].retry = More(hand.retry)

LEMMA EnqueueStep ==
    ASSUME TypeOK, NEW m \in Matter, NEW to, NEW event, NEW cause,
           cause = Nothing \/ (hand.at = "dead" /\ cause = hand.id),
           Enqueue(m, to, event, cause), NEW r \in Id
    PROVE  RowStep(r)
<1>1. PICK new \in Id :
         /\ row[new].state = "absent"
         /\ row' = [row EXCEPT ![new] = [state |-> "pending", matter |-> m, target |-> to,
                                         event |-> event, cause |-> cause, retry |-> 0,
                                         due |-> TRUE]]
  BY RingAssumption DEF Enqueue
<1> QED BY <1>1 DEF RowStep, TypeOK

LEMMA ConsumedStep ==
    ASSUME TypeOK, NEW rows, \A r \in rows : row[r].state # "absent",
           row' = Consumed(rows), NEW r \in Id
    PROVE  RowStep(r)
<1>1. row[r] \in Row
  BY DEF TypeOK
<1>2. CASE r \in rows
  <2>1. row'[r] = [row[r] EXCEPT !.state = "consumed"]
    BY <1>2 DEF Consumed
  <2> QED BY <1>1, <1>2, <2>1 DEF RowStep, Row
<1>3. CASE r \notin rows
  BY <1>3 DEF RowStep, Consumed
<1> QED BY <1>2, <1>3

LEMMA NextRowStep ==
    ASSUME TypeOK, HoldsRows, [Next]_vars, NEW r \in Id
    PROVE  RowStep(r)
<1>0. row[r] \in Row
  BY DEF TypeOK
<1>a. ASSUME UNCHANGED row PROVE RowStep(r)
  BY <1>a DEF RowStep
<1>1. ASSUME NEW m \in Matter, NEW u \in User, NEW event, RingInTransition(m, u, event)
      PROVE  RowStep(r)
  BY <1>1, EnqueueStep DEF RingInTransition
<1>2. ASSUME NEW m \in Matter, NEW u \in User, ReadToRing(m, u)
      PROVE  RowStep(r)
  BY <1>2, <1>a DEF ReadToRing, table
<1>3. ASSUME NEW m \in Matter, NEW u \in User, EnqueueStandalone(m, u)
      PROVE  RowStep(r)
  BY <1>3, EnqueueStep DEF EnqueueStandalone
<1>4. ASSUME NEW m \in Matter, Delete(m)
      PROVE  RowStep(r)
  BY <1>4, <1>a DEF Delete
<1>5. ASSUME NEW m \in Matter, Park(m)
      PROVE  RowStep(r)
  BY <1>5, ConsumedStep DEF Park, RowsOf
<1>6. ASSUME NEW u \in User, NEW m \in Matter, ReadMatter(u, m)
      PROVE  RowStep(r)
  BY <1>6, <1>a DEF ReadMatter, table
<1>7. ASSUME NEW look \in reading, ConsumeDoorbells(look)
      PROVE  RowStep(r)
  BY <1>7, ConsumedStep DEF ConsumeDoorbells, Consumable, RowsOf
<1>8. ASSUME NEW x \in Id, Elapse(x)
      PROVE  RowStep(r)
  <2>1. CASE r = x
    BY <1>0, <1>8, <2>1 DEF Elapse, RowStep, Ringing, TypeOK, Row
  <2>2. CASE r # x
    BY <1>8, <2>2 DEF Elapse, RowStep, TypeOK
  <2> QED BY <2>1, <2>2
<1>9. ASSUME Scan
      PROVE  RowStep(r)
  BY <1>9, <1>a DEF Scan, table
<1>10. ASSUME NEW entry \in batch, NEW ok \in BOOLEAN, Send(entry, ok)
       PROVE  RowStep(r)
  BY <1>10, <1>a DEF Send, table
<1>11. ASSUME Mark
       PROVE  RowStep(r)
  <2>1. /\ hand.at = "sent" /\ hand.id \in Id /\ row[hand.id].state # "absent"
        /\ hand' # hand
    BY <1>11 DEF Mark, HoldsRows, Idle, TypeOK, Hand
  <2>2. CASE row' = Consumed({hand.id})
    BY <2>1, <2>2, ConsumedStep
  <2>3. CASE hand.ok /\ row' = MarkedDelivered(hand.id)
    <3>1. CASE r = hand.id
      <4>1. row'[r] = [row[r] EXCEPT !.state = "delivered", !.retry = More(@), !.due = FALSE]
        BY <2>3, <3>1 DEF MarkedDelivered, TypeOK
      <4> QED BY <1>0, <2>1, <2>3, <3>1, <4>1 DEF RowStep, Row
    <3>2. CASE r # hand.id
      BY <2>3, <3>2 DEF MarkedDelivered, TypeOK, RowStep
    <3> QED BY <3>1, <3>2
  <2>4. CASE row' = MarkedFailed(hand.id, More(hand.retry))
    <3>1. CASE r = hand.id
      <4>1. row'[r] = [row[r] EXCEPT !.state = IF More(hand.retry) >= MaxRetries
                                               THEN "dead" ELSE "pending",
                                     !.retry = More(hand.retry), !.due = FALSE]
        BY <2>4, <3>1 DEF MarkedFailed, TypeOK
      <4> QED BY <1>0, <2>1, <3>1, <4>1 DEF RowStep, Row
    <3>2. CASE r # hand.id
      BY <2>4, <3>2 DEF MarkedFailed, TypeOK, RowStep
    <3> QED BY <3>1, <3>2
  <2> QED BY <1>11, <2>2, <2>3, <2>4 DEF Mark
<1>12. ASSUME MarkLost
       PROVE  RowStep(r)
  BY <1>12, <1>a DEF MarkLost, table
<1>13. ASSUME Escalate
       PROVE  RowStep(r)
  <2> DEFINE m == row[hand.id].matter
  <2>1. CASE m \in live /\ Creator[m] # row[hand.id].target
    <3>1. m \in Matter /\ hand.at = "dead" /\ Enqueue(m, Creator[m], "escalation", hand.id)
      BY <1>13, <2>1 DEF Escalate, TypeOK
    <3> QED BY <3>1, EnqueueStep
  <2>2. CASE ~(m \in live /\ Creator[m] # row[hand.id].target)
    BY <1>13, <2>2, <1>a DEF Escalate
  <2> QED BY <2>1, <2>2
<1>14. ASSUME Crash
       PROVE  RowStep(r)
  BY <1>14, <1>a DEF Crash, table
<1>15. CASE UNCHANGED vars
  BY <1>15, <1>a DEF vars
<1> QED BY <1>1, <1>2, <1>3, <1>4, <1>5, <1>6, <1>7, <1>8, <1>9, <1>10, <1>11, <1>12,
           <1>13, <1>14, <1>15 DEF Next

\* No step takes an attempt back.
LEMMA AttemptsGrow ==
    ASSUME TypeOK, [Next]_vars, NEW r \in Id
    PROVE  /\ Attempts(r) \in Nat /\ Attempts(r)' \in Nat
           /\ Attempts(r) <= Attempts(r)'
<1>1. sent[r].delivered \in 0..Cap /\ sent[r].refused \in 0..Cap
  BY DEF TypeOK
<1>2. More(sent[r].delivered) \in 0..Cap /\ sent[r].delivered <= More(sent[r].delivered)
  BY <1>1, MoreBounds
<1>3. More(sent[r].refused) \in 0..Cap /\ sent[r].refused <= More(sent[r].refused)
  BY <1>1, MoreBounds
<1>4. Attempts(r) \in Nat
  BY <1>1, RingAssumption DEF Attempts
<1>5. CASE UNCHANGED sent
  BY <1>4, <1>5 DEF Attempts
<1>6. ASSUME NEW entry \in batch, NEW ok \in BOOLEAN, Send(entry, ok)
      PROVE  Attempts(r)' \in Nat /\ Attempts(r) <= Attempts(r)'
  <2>1. CASE ok
    <3>1. sent' = [sent EXCEPT ![entry.id].delivered = More(@)]
      BY <1>6, <2>1 DEF Send
    <3>2. /\ sent'[r].delivered \in {sent[r].delivered, More(sent[r].delivered)}
          /\ sent'[r].refused = sent[r].refused
      BY <3>1 DEF TypeOK
    <3> QED BY <1>1, <1>2, <3>2, RingAssumption DEF Attempts
  <2>2. CASE ~ok
    <3>1. sent' = [sent EXCEPT ![entry.id].refused = More(@)]
      BY <1>6, <2>2 DEF Send
    <3>2. /\ sent'[r].refused \in {sent[r].refused, More(sent[r].refused)}
          /\ sent'[r].delivered = sent[r].delivered
      BY <3>1 DEF TypeOK
    <3> QED BY <1>1, <1>3, <3>2, RingAssumption DEF Attempts
  <2> QED BY <2>1, <2>2
<1>7. (\E entry \in batch, ok \in BOOLEAN : Send(entry, ok)) \/ UNCHANGED sent
  BY DEF Next, vars, RingInTransition, ReadToRing, EnqueueStandalone, Delete, Park, ReadMatter,
         ConsumeDoorbells, Elapse, Scan, Mark, MarkLost, Escalate, Crash
<1> QED BY <1>4, <1>5, <1>6, <1>7

\* A send is an attempt more than any count known before it.
LEMMA SendCounts ==
    ASSUME TypeOK, NEW entry \in batch, NEW ok \in BOOLEAN, Send(entry, ok),
           NEW n \in 0..Cap, n <= Attempts(entry.id)
    PROVE  More(n) <= Attempts(entry.id)'
<1> DEFINE r == entry.id
<1>1. r \in Id
  BY DEF TypeOK
<1>2. sent[r].delivered \in 0..Cap /\ sent[r].refused \in 0..Cap
  BY <1>1 DEF TypeOK
<1>3. CASE ok
  <2>1. sent' = [sent EXCEPT ![r].delivered = More(@)]
    BY <1>3 DEF Send
  <2>2. sent'[r].delivered = More(sent[r].delivered) /\ sent'[r].refused = sent[r].refused
    BY <1>1, <2>1 DEF TypeOK
  <2> QED BY <1>2, <2>2, RingAssumption DEF Attempts, More
<1>4. CASE ~ok
  <2>1. sent' = [sent EXCEPT ![r].refused = More(@)]
    BY <1>4 DEF Send
  <2>2. sent'[r].refused = More(sent[r].refused) /\ sent'[r].delivered = sent[r].delivered
    BY <1>1, <2>1 DEF TypeOK
  <2> QED BY <1>2, <2>2, RingAssumption DEF Attempts, More
<1> QED BY <1>3, <1>4

\* What the dispatcher holds after a step: what it held, rows just scanned, the row
\* just sent, or the row that has just used up its retries.
LEMMA NextDispatch ==
    ASSUME TypeOK, [Next]_vars
    PROVE  /\ \A entry \in batch' :
                 \/ entry \in batch
                 \/ /\ entry.id \in Id /\ row[entry.id].state # "absent"
                    /\ entry.retry = row[entry.id].retry
           /\ \/ hand' = hand
              \/ hand'.at = "idle"
              \/ \E entry \in batch, ok \in BOOLEAN : Send(entry, ok)
              \/ /\ hand.at = "sent" /\ hand'.at = "dead"
                 /\ hand'.id = hand.id /\ More(hand.retry) >= MaxRetries
<1>1. CASE UNCHANGED dispatcher
  BY <1>1 DEF dispatcher
<1>2. CASE Scan
  BY <1>2 DEF Scan, IsDue, Ringing
<1>3. ASSUME NEW entry \in batch, NEW ok \in BOOLEAN, Send(entry, ok)
      PROVE  batch' \subseteq batch
  BY <1>3 DEF Send
<1>4. CASE Mark
  BY <1>4 DEF Mark, Idle, TypeOK, Hand
<1>5. CASE MarkLost
  BY <1>5 DEF MarkLost, Idle, TypeOK, Hand
<1>6. CASE Escalate \/ Crash
  BY <1>6 DEF Escalate, Crash, Idle
<1>7. \/ UNCHANGED dispatcher \/ Scan \/ Mark \/ MarkLost \/ Escalate \/ Crash
      \/ \E entry \in batch, ok \in BOOLEAN : Send(entry, ok)
  BY DEF Next, vars, dispatcher, RingInTransition, ReadToRing, EnqueueStandalone, Delete, Park,
         ReadMatter, ConsumeDoorbells, Elapse
<1> QED BY <1>1, <1>2, <1>3, <1>4, <1>5, <1>6, <1>7

LEMMA InitOutbox == Init => OutboxInv
<1> SUFFICES ASSUME Init PROVE OutboxInv
  OBVIOUS
<1>1. TypeOK
  BY InitType
<1>2. HoldsRows
  BY DEF Init, HoldsRows, Idle
<1>3. CountsAttempts
  BY RingAssumption DEF Init, CountsAttempts, Absent, Idle, Attempts
<1>4. GivesUpAfterRetries
  BY RingAssumption DEF Init, GivesUpAfterRetries, Absent
<1> QED BY <1>1, <1>2, <1>3, <1>4 DEF OutboxInv

LEMMA NextOutbox == OutboxInv /\ [Next]_vars => OutboxInv'
<1> SUFFICES ASSUME OutboxInv, [Next]_vars PROVE OutboxInv'
  OBVIOUS
<1> USE RingAssumption
<1>0. TypeOK /\ HoldsRows /\ CountsAttempts /\ GivesUpAfterRetries
  BY DEF OutboxInv
<1>1. TypeOK'
  BY <1>0, NextType DEF HoldsRows
<1>2. \A r \in Id : RowStep(r)
  BY <1>0, NextRowStep
<1>3. \A r \in Id : Attempts(r) \in Nat /\ Attempts(r)' \in Nat /\ Attempts(r) <= Attempts(r)'
  BY <1>0, AttemptsGrow
<1>4. \A r \in Id : row[r].state # "absent" => row'[r].state # "absent"
  BY <1>2 DEF RowStep
<1>5. \A entry \in batch : entry.id \in Id /\ entry.retry \in 0..Cap
  BY <1>0 DEF TypeOK
<1>6. \A r \in Id : row[r].retry \in 0..Cap /\ row'[r].retry \in 0..Cap
  BY <1>0, <1>1 DEF TypeOK, Row
<1>7. HoldsRows'
  <2>1. \A entry \in batch' : row'[entry.id].state # "absent"
    BY <1>0, <1>4, <1>5, NextDispatch DEF HoldsRows
  <2>2. hand'.at # "idle" => hand'.id \in Id /\ row'[hand'.id].state # "absent"
    <3>1. ASSUME NEW entry \in batch, NEW ok \in BOOLEAN, Send(entry, ok)
          PROVE  hand'.id \in Id /\ row'[hand'.id].state # "absent"
      BY <1>0, <1>4, <1>5, <3>1 DEF Send, HoldsRows
    <3> QED BY <1>0, <1>4, <3>1, NextDispatch DEF HoldsRows
  <2> QED BY <2>1, <2>2 DEF HoldsRows
<1>8. \A r \in Id : row'[r].retry <= Attempts(r)'
  <2> SUFFICES ASSUME NEW r \in Id PROVE row'[r].retry <= Attempts(r)'
    OBVIOUS
  <2>1. row[r].retry <= Attempts(r)
    BY <1>0 DEF CountsAttempts
  <2>2. hand.at = "sent" /\ hand.id = r
          => More(hand.retry) <= Attempts(r) /\ More(row[r].retry) <= Attempts(r)
    BY <1>0 DEF CountsAttempts
  <2>3. row'[r].retry <= Attempts(r)
    BY <1>2, <1>3, <2>1, <2>2 DEF RowStep
  <2> QED BY <1>3, <1>6, <2>3
<1>9. \A entry \in batch' : entry.retry <= Attempts(entry.id)'
  <2> SUFFICES ASSUME NEW entry \in batch' PROVE entry.retry <= Attempts(entry.id)'
    OBVIOUS
  <2>1. entry.id \in Id /\ entry.retry \in 0..Cap
    BY <1>1 DEF TypeOK
  <2>2. entry.retry <= Attempts(entry.id)
    BY <1>0, NextDispatch DEF CountsAttempts
  <2> QED BY <1>3, <2>1, <2>2
<1>10. (hand.at = "sent" => /\ More(hand.retry) <= Attempts(hand.id)
                            /\ More(row[hand.id].retry) <= Attempts(hand.id))'
  <2> SUFFICES ASSUME NEW r \in Id, r = hand'.id, hand'.at = "sent"
               PROVE  More(hand'.retry) <= Attempts(r)' /\ More(row'[r].retry) <= Attempts(r)'
    BY <1>7 DEF HoldsRows, Attempts
  <2>1. ASSUME NEW entry \in batch, NEW ok \in BOOLEAN, Send(entry, ok)
        PROVE  More(hand'.retry) <= Attempts(r)' /\ More(row'[r].retry) <= Attempts(r)'
    <3>1. r = entry.id /\ hand'.retry = entry.retry /\ row' = row
      BY <2>1 DEF Send, table
    <3>2. entry.retry <= Attempts(r) /\ row[r].retry <= Attempts(r)
      BY <1>0, <3>1 DEF CountsAttempts
    <3>3. More(entry.retry) <= Attempts(r)'
      BY <1>0, <1>5, <2>1, <3>1, <3>2, SendCounts
    <3>4. More(row[r].retry) <= Attempts(r)'
      BY <1>0, <1>6, <2>1, <3>1, <3>2, SendCounts
    <3> QED BY <3>1, <3>3, <3>4
  <2>2. ASSUME hand' = hand
        PROVE  More(hand'.retry) <= Attempts(r)' /\ More(row'[r].retry) <= Attempts(r)'
    <3>1. row[r].state # "absent" /\ hand.retry \in 0..Cap
      BY <1>0, <2>2 DEF HoldsRows, TypeOK, Hand
    <3>2. More(hand.retry) <= Attempts(r) /\ More(row[r].retry) <= Attempts(r)
      BY <1>0, <2>2 DEF CountsAttempts
    <3>3. row'[r].retry = row[r].retry
      BY <1>2, <2>2, <3>1 DEF RowStep
    <3>4. More(hand.retry) \in 0..Cap /\ More(row[r].retry) \in 0..Cap
      BY <1>6, <3>1, MoreBounds
    <3> QED BY <1>3, <2>2, <3>2, <3>3, <3>4
  <2> QED BY <1>0, <2>1, <2>2, NextDispatch
<1>11. (hand.at = "dead" => Attempts(hand.id) >= MaxRetries)'
  <2> SUFFICES ASSUME NEW r \in Id, r = hand'.id, hand'.at = "dead"
               PROVE  Attempts(r)' >= MaxRetries
    BY <1>7 DEF HoldsRows, Attempts
  <2>1. CASE hand' = hand
    BY <1>0, <1>3, <2>1 DEF CountsAttempts
  <2>2. CASE hand.at = "sent" /\ hand.id = r /\ More(hand.retry) >= MaxRetries
    <3>1. hand.retry \in 0..Cap /\ More(hand.retry) <= Attempts(r)
      BY <1>0, <2>2 DEF CountsAttempts, TypeOK, Hand
    <3>2. More(hand.retry) \in 0..Cap
      BY <3>1, MoreBounds
    <3> QED BY <1>3, <2>2, <3>1, <3>2
  <2>3. ASSUME NEW entry \in batch, NEW ok \in BOOLEAN, Send(entry, ok)
        PROVE  hand'.at = "sent"
    BY <2>3 DEF Send
  <2> QED BY <1>0, <2>1, <2>2, <2>3, NextDispatch
<1>12. GivesUpAfterRetries'
  <2> SUFFICES ASSUME NEW r \in Id,
                      row'[r].state = "dead" \/ \E e \in Id : row'[e].cause = r
               PROVE  Attempts(r)' >= MaxRetries
    BY DEF GivesUpAfterRetries
  <2>1. ASSUME row[r].state = "dead" \/ \E e \in Id : row[e].cause = r
        PROVE  Attempts(r) >= MaxRetries
    BY <1>0, <2>1 DEF GivesUpAfterRetries
  <2>2. ASSUME hand.at = "sent", hand.id = r, More(hand.retry) >= MaxRetries
        PROVE  Attempts(r) >= MaxRetries
    <3>1. hand.retry \in 0..Cap /\ More(hand.retry) <= Attempts(r)
      BY <1>0, <2>2 DEF CountsAttempts, TypeOK, Hand
    <3>2. More(hand.retry) \in 0..Cap
      BY <3>1, MoreBounds
    <3> QED BY <1>3, <2>2, <3>1, <3>2
  <2>3. ASSUME hand.at = "dead", hand.id = r PROVE Attempts(r) >= MaxRetries
    BY <1>0, <2>3 DEF CountsAttempts
  <2>4. CASE row'[r].state = "dead"
    BY <1>2, <1>3, <2>1, <2>2, <2>4 DEF RowStep
  <2>5. CASE \E e \in Id : row'[e].cause = r
    <3>1. PICK e \in Id : row'[e].cause = r
      BY <2>5
    <3>2. row[e].cause = r \/ (hand.at = "dead" /\ hand.id = r)
      BY <1>2, <3>1 DEF RowStep
    <3> QED BY <1>3, <2>1, <2>3, <3>2
  <2> QED BY <2>4, <2>5
<1> QED BY <1>1, <1>7, <1>8, <1>9, <1>10, <1>11, <1>12 DEF OutboxInv, CountsAttempts

-----------------------------------------------------------------------------

\* Every reachable state of the outbox is well typed.
THEOREM TypeCorrect == Spec => []TypeOK
<1>1. OutboxInv => TypeOK
  BY DEF OutboxInv
<1> QED BY <1>1, InitOutbox, NextOutbox, PTL DEF Spec

\* The dispatcher gives a ring up, and reports it to the creator, only after
\* MaxRetries attempts at it, through crashes, lost marks and racing readers.
THEOREM GivesUpLate == Spec => []GivesUpAfterRetries
<1>1. OutboxInv => GivesUpAfterRetries
  BY DEF OutboxInv
<1> QED BY <1>1, InitOutbox, NextOutbox, PTL DEF Spec

-----------------------------------------------------------------------------
(* What closes a row. *)

\* A step leaves a row alone, enqueues it, makes it due, consumes it for a reader or a
\* deletion, or marks it after its send.  Matter, event and cause of a row are for ever.
Closes(r) ==
    \/ row'[r] = row[r]
    \/ /\ row[r].state = "absent" /\ row'[r].state = "pending"
       /\ row'[r].cause = Nothing \/ hand.at = "dead"
    \/ /\ row[r].state # "absent"
       /\ row'[r].matter = row[r].matter /\ row'[r].event = row[r].event /\ row'[r].cause = row[r].cause
       /\ \/ row'[r].state = row[r].state
          \/ /\ Ringing(r) /\ row'[r].state = "consumed"
             /\ row[r].event # "homecoming" \/ row[r].matter \in parking
          \/ /\ hand.at = "sent" /\ hand.id = r /\ hand' # hand
             /\ IF ~hand.ok THEN row'[r].state \in {"dead", "pending"}
                ELSE IF row[r].event = "homecoming" THEN row'[r].state = "consumed"
                ELSE row'[r].state = "delivered"

LEMMA EnqueueCloses ==
    ASSUME TypeOK, NEW m \in Matter, NEW to, NEW event, NEW cause,
           cause = Nothing \/ hand.at = "dead", Enqueue(m, to, event, cause), NEW r \in Id
    PROVE  Closes(r)
<1>1. PICK new \in Id :
         /\ row[new].state = "absent"
         /\ row' = [row EXCEPT ![new] = [state |-> "pending", matter |-> m, target |-> to,
                                         event |-> event, cause |-> cause, retry |-> 0,
                                         due |-> TRUE]]
  BY RingAssumption DEF Enqueue
<1> QED BY <1>1 DEF Closes, TypeOK

LEMMA ConsumedCloses ==
    ASSUME TypeOK, NEW rows, row' = Consumed(rows), NEW r \in Id,
           r \in rows => Ringing(r) /\ (row[r].event # "homecoming" \/ row[r].matter \in parking)
    PROVE  Closes(r)
<1>1. CASE r \in rows
  <2>1. row[r] \in Row /\ row'[r] = [row[r] EXCEPT !.state = "consumed"]
    BY <1>1 DEF TypeOK, Consumed
  <2>2. /\ row'[r].state = "consumed" /\ row'[r].matter = row[r].matter
        /\ row'[r].event = row[r].event /\ row'[r].cause = row[r].cause
    BY <2>1 DEF Row
  <2> QED BY <1>1, <2>2 DEF Closes, Ringing
<1>2. CASE r \notin rows
  BY <1>2 DEF Consumed, Closes
<1> QED BY <1>1, <1>2

LEMMA MarkCloses == ASSUME TypeOK, HoldsRows, Mark, NEW r \in Id PROVE Closes(r)
<1>1. /\ hand.at = "sent" /\ hand.id \in Id /\ row[hand.id].state # "absent"
      /\ hand' # hand /\ row[r] \in Row /\ hand.ok \in BOOLEAN
  BY DEF Mark, HoldsRows, Idle, TypeOK, Hand
<1>2. CASE r # hand.id
  <2>1. row'[r] = row[r]
    BY <1>2 DEF Mark, Consumed, MarkedDelivered, MarkedFailed, TypeOK
  <2> QED BY <2>1 DEF Closes
<1>3. CASE r = hand.id
  <2>1. CASE ~hand.ok
    <3>1. row'[r] = [row[r] EXCEPT !.state = IF More(hand.retry) >= MaxRetries THEN "dead" ELSE "pending",
                                   !.retry = More(hand.retry), !.due = FALSE]
      BY <1>3, <2>1 DEF Mark, MarkedFailed, TypeOK
    <3>2. /\ row'[r].state \in {"dead", "pending"} /\ row'[r].matter = row[r].matter
          /\ row'[r].event = row[r].event /\ row'[r].cause = row[r].cause
      BY <1>1, <3>1 DEF Row
    <3> QED BY <1>1, <1>3, <2>1, <3>2 DEF Closes
  <2>2. CASE hand.ok /\ row[r].event = "homecoming"
    <3>1. row'[r] = [row[r] EXCEPT !.state = "consumed"]
      BY <1>3, <2>2 DEF Mark, Consumed
    <3>2. /\ row'[r].state = "consumed" /\ row'[r].matter = row[r].matter
          /\ row'[r].event = row[r].event /\ row'[r].cause = row[r].cause
      BY <1>1, <3>1 DEF Row
    <3> QED BY <1>1, <1>3, <2>2, <3>2 DEF Closes
  <2>3. CASE hand.ok /\ row[r].event # "homecoming"
    <3>1. row'[r] = [row[r] EXCEPT !.state = "delivered", !.retry = More(@), !.due = FALSE]
      BY <1>3, <2>3 DEF Mark, MarkedDelivered, TypeOK
    <3>2. /\ row'[r].state = "delivered" /\ row'[r].matter = row[r].matter
          /\ row'[r].event = row[r].event /\ row'[r].cause = row[r].cause
      BY <1>1, <3>1 DEF Row
    <3> QED BY <1>1, <1>3, <2>3, <3>2 DEF Closes
  <2> QED BY <1>1, <2>1, <2>2, <2>3
<1> QED BY <1>2, <1>3

LEMMA NextCloses == ASSUME TypeOK, HoldsRows, [Next]_vars, NEW r \in Id PROVE Closes(r)
<1>a. ASSUME row' = row PROVE Closes(r)
  BY <1>a DEF Closes
<1>1. ASSUME NEW m \in Matter, NEW u \in User, NEW event,
             RingInTransition(m, u, event) \/ EnqueueStandalone(m, u)
      PROVE  Closes(r)
  BY <1>1, EnqueueCloses DEF RingInTransition, EnqueueStandalone
<1>2. ASSUME NEW m \in Matter, Park(m)
      PROVE  Closes(r)
  BY <1>2, ConsumedCloses DEF Park, RowsOf
<1>3. ASSUME NEW look \in reading, ConsumeDoorbells(look)
      PROVE  Closes(r)
  BY <1>3, ConsumedCloses DEF ConsumeDoorbells, Consumable
<1>4. ASSUME NEW x \in Id, Elapse(x)
      PROVE  Closes(r)
  <2>1. CASE r = x
    <3>1. row[r] \in Row /\ row'[r] = [row[r] EXCEPT !.due = TRUE] /\ row[r].state # "absent"
      BY <1>4, <2>1 DEF Elapse, TypeOK, Ringing
    <3>2. /\ row'[r].state = row[r].state /\ row'[r].matter = row[r].matter
          /\ row'[r].event = row[r].event /\ row'[r].cause = row[r].cause
      BY <3>1 DEF Row
    <3> QED BY <3>1, <3>2 DEF Closes
  <2>2. CASE r # x
    BY <1>4, <2>2 DEF Elapse, Closes, TypeOK
  <2> QED BY <2>1, <2>2
<1>5. ASSUME Escalate
      PROVE  Closes(r)
  <2> DEFINE m == row[hand.id].matter
  <2>1. CASE m \in live /\ Creator[m] # row[hand.id].target
    <3>1. m \in Matter /\ hand.at = "dead" /\ Enqueue(m, Creator[m], "escalation", hand.id)
      BY <1>5, <2>1 DEF Escalate, TypeOK
    <3> QED BY <3>1, EnqueueCloses
  <2>2. CASE ~(m \in live /\ Creator[m] # row[hand.id].target)
    BY <1>5, <2>2, <1>a DEF Escalate
  <2> QED BY <2>1, <2>2
<1>6. \/ row' = row
      \/ \E m \in Matter, u \in User, event \in {"ring", "homecoming"} :
            RingInTransition(m, u, event) \/ EnqueueStandalone(m, u)
      \/ \E m \in Matter : Park(m)
      \/ \E look \in reading : ConsumeDoorbells(look)
      \/ \E x \in Id : Elapse(x)
      \/ Escalate \/ Mark
  BY DEF Next, vars, table, ReadToRing, Delete, ReadMatter, Scan, Send, MarkLost, Crash
<1> QED BY <1>a, <1>1, <1>2, <1>3, <1>4, <1>5, <1>6, MarkCloses

-----------------------------------------------------------------------------
(* Posts. *)

\* A matter whose rows are being parked is deleted, and a send in hand was counted.
ParkedIsDeleted == parking \cap live = {}
SendIsCounted == hand.at = "sent" /\ hand.ok => sent[hand.id].delivered > 0

\* No delivery is taken back, and a send of a row counts.
LEMMA DeliveriesGrow ==
    ASSUME TypeOK, [Next]_vars, NEW r \in Id
    PROVE  /\ sent[r].delivered \in Nat /\ sent'[r].delivered \in Nat
           /\ sent'[r].delivered >= sent[r].delivered
           /\ \A entry \in batch, ok \in BOOLEAN :
                 Send(entry, ok) =>
                    sent'[r].delivered = IF ok /\ entry.id = r THEN More(sent[r].delivered)
                                         ELSE sent[r].delivered
           /\ ~(\E entry \in batch, ok \in BOOLEAN : Send(entry, ok)) => sent' = sent
<1>1. sent[r].delivered \in 0..Cap
  BY DEF TypeOK
<1>2. More(sent[r].delivered) \in 0..Cap /\ sent[r].delivered <= More(sent[r].delivered)
  BY <1>1, MoreBounds
<1>3. ASSUME NEW entry \in batch, NEW ok \in BOOLEAN, Send(entry, ok)
      PROVE  sent'[r].delivered = IF ok /\ entry.id = r THEN More(sent[r].delivered)
                                  ELSE sent[r].delivered
  <2>1. CASE ok
    <3>1. sent' = [sent EXCEPT ![entry.id].delivered = More(@)]
      BY <1>3, <2>1 DEF Send
    <3> QED BY <2>1, <3>1 DEF TypeOK
  <2>2. CASE ~ok
    <3>1. sent' = [sent EXCEPT ![entry.id].refused = More(@)]
      BY <1>3, <2>2 DEF Send
    <3> QED BY <2>2, <3>1 DEF TypeOK
  <2> QED BY <2>1, <2>2
<1>4. (\E entry \in batch, ok \in BOOLEAN : Send(entry, ok)) \/ sent' = sent
  BY DEF Next, vars, RingInTransition, ReadToRing, EnqueueStandalone, Delete, Park, ReadMatter,
         ConsumeDoorbells, Elapse, Scan, Mark, MarkLost, Escalate, Crash
<1> QED BY <1>1, <1>2, <1>3, <1>4, RingAssumption

LEMMA NextParked == TypeOK /\ ParkedIsDeleted /\ [Next]_vars => ParkedIsDeleted' /\ live' \subseteq live
BY DEF ParkedIsDeleted, Next, vars, table, requests, RingInTransition, ReadToRing, EnqueueStandalone,
       Delete, Park, ReadMatter, ConsumeDoorbells, Elapse, Scan, Send, Mark, MarkLost, Escalate, Crash

LEMMA NextCounted == OutboxInv /\ SendIsCounted /\ [Next]_vars => SendIsCounted'
<1> SUFFICES ASSUME OutboxInv, SendIsCounted, [Next]_vars, hand'.at = "sent", hand'.ok
             PROVE  sent'[hand'.id].delivered > 0
  BY DEF SendIsCounted
<1>0. TypeOK /\ HoldsRows
  BY DEF OutboxInv
<1>1. CASE hand' = hand
  <2>1. hand.id \in Id /\ sent[hand.id].delivered > 0
    BY <1>0, <1>1 DEF HoldsRows, SendIsCounted
  <2> QED BY <1>0, <1>1, <2>1, DeliveriesGrow
<1>2. ASSUME NEW entry \in batch, NEW ok \in BOOLEAN, Send(entry, ok)
      PROVE  sent'[hand'.id].delivered > 0
  <2>1. entry.id \in Id /\ hand'.id = entry.id /\ ok
    BY <1>0, <1>2 DEF Send, TypeOK
  <2>2. sent'[entry.id].delivered = More(sent[entry.id].delivered) /\ sent[entry.id].delivered \in Nat
    BY <1>0, <1>2, <2>1, DeliveriesGrow
  <2> QED BY <2>1, <2>2, RingAssumption DEF More
<1> QED BY <1>0, <1>1, <1>2, NextDispatch

LEMMA NextPosts ==
    OutboxInv /\ ParkedIsDeleted /\ SendIsCounted /\ PostsCloseByPosting /\ [Next]_vars
        => PostsCloseByPosting'
<1> SUFFICES ASSUME OutboxInv, ParkedIsDeleted, SendIsCounted, PostsCloseByPosting, [Next]_vars,
                    NEW r \in Id, row'[r].event = "homecoming", row'[r].state = "consumed",
                    row'[r].matter \in live'
             PROVE  sent'[r].delivered > 0
  BY DEF PostsCloseByPosting
<1>0. TypeOK /\ HoldsRows
  BY DEF OutboxInv
<1>1. row'[r].matter \in live
  BY <1>0, NextParked
<1>2. sent[r].delivered > 0
  <2>1. CASE row[r].event = "homecoming" /\ row[r].state = "consumed" /\ row[r].matter \in live
    BY <2>1 DEF PostsCloseByPosting
  <2>2. CASE hand.at = "sent" /\ hand.id = r /\ hand.ok
    BY <2>2 DEF SendIsCounted
  <2>3. ~(row[r].matter \in parking /\ row'[r].matter = row[r].matter)
    BY <1>1 DEF ParkedIsDeleted
  <2> QED BY <1>0, <1>1, <2>1, <2>2, <2>3, NextCloses DEF Closes
<1> QED BY <1>0, <1>2, DeliveriesGrow

\* A progress post is closed only by having been posted, as long as its matter lives.
THEOREM PostsAreMade == Spec => []PostsCloseByPosting
<1>1. Init => ParkedIsDeleted /\ SendIsCounted /\ PostsCloseByPosting
  BY DEF Init, ParkedIsDeleted, SendIsCounted, PostsCloseByPosting, Idle, Absent
<1>2. OutboxInv /\ ParkedIsDeleted /\ SendIsCounted /\ PostsCloseByPosting /\ [Next]_vars
          => OutboxInv' /\ ParkedIsDeleted' /\ SendIsCounted' /\ PostsCloseByPosting'
  BY NextOutbox, NextParked, NextCounted, NextPosts DEF OutboxInv
<1> QED BY InitOutbox, <1>1, <1>2, PTL DEF Spec

-----------------------------------------------------------------------------
(* Once. *)

\* A scan holds a row once, and not the one that has just been sent.
BatchInv ==
    /\ \A c, d \in batch : c.id = d.id => c = d
    /\ hand.at # "idle" => \A c \in batch : c.id # hand.id

\* Every step of the dispatcher by what it does with the batch and the hand.
LEMMA Dispatches ==
    ASSUME TypeOK, [Next]_vars
    PROVE  \/ batch' = batch /\ hand' = hand
           \/ Scan
           \/ \E entry \in batch, ok \in BOOLEAN : Send(entry, ok)
           \/ /\ hand.at = "sent" /\ batch' = batch /\ (Mark \/ MarkLost)
              /\ hand' = Idle \/ (~hand.ok /\ hand'.at = "dead" /\ hand'.id = hand.id)
           \/ Escalate
           \/ Crash
<1>1. CASE Mark
  <2>1. [hand EXCEPT !.at = "dead"].at = "dead" /\ [hand EXCEPT !.at = "dead"].id = hand.id
    BY DEF TypeOK, Hand
  <2> QED BY <1>1, <2>1 DEF Mark
<1>2. CASE MarkLost
  <2>1. [hand EXCEPT !.at = "dead"].at = "dead" /\ [hand EXCEPT !.at = "dead"].id = hand.id
    BY DEF TypeOK, Hand
  <2> QED BY <1>2, <2>1 DEF MarkLost
<1>3. \/ batch' = batch /\ hand' = hand
      \/ Scan \/ Mark \/ MarkLost \/ Escalate \/ Crash
      \/ \E entry \in batch, ok \in BOOLEAN : Send(entry, ok)
  BY DEF Next, vars, dispatcher, RingInTransition, ReadToRing, EnqueueStandalone, Delete, Park,
         ReadMatter, ConsumeDoorbells, Elapse
<1> QED BY <1>1, <1>2, <1>3

LEMMA NextBatch == TypeOK /\ BatchInv /\ [Next]_vars => BatchInv'
<1> SUFFICES ASSUME TypeOK, BatchInv, [Next]_vars PROVE BatchInv'
  OBVIOUS
<1>1. CASE Scan
  <2>1. hand' = hand /\ hand.at = "idle"
    BY <1>1 DEF Scan, Idle
  <2>2. PICK rows \in SUBSET Id : batch' = {[id |-> r, retry |-> row[r].retry] : r \in rows}
    BY <1>1 DEF Scan
  <2> QED BY <2>1, <2>2 DEF BatchInv
<1>2. ASSUME NEW entry \in batch, NEW ok \in BOOLEAN, Send(entry, ok)
      PROVE  BatchInv'
  BY <1>2 DEF Send, BatchInv
<1>3. CASE Escalate \/ Crash
  BY <1>3 DEF Escalate, Crash, Idle, BatchInv
<1>4. ASSUME batch' = batch, hand' = Idle \/ (hand.at = "sent" /\ hand'.id = hand.id)
      PROVE  BatchInv'
  BY <1>4 DEF BatchInv, Idle
<1>5. CASE batch' = batch /\ hand' = hand
  BY <1>5 DEF BatchInv
<1> QED BY <1>1, <1>2, <1>3, <1>4, <1>5, Dispatches

\* A row that was never written was never sent.
AbsentUnsent == \A r \in Id : row[r].state = "absent" => sent[r].delivered = 0

LEMMA NextAbsent == OutboxInv /\ AbsentUnsent /\ [Next]_vars => AbsentUnsent'
<1> SUFFICES ASSUME OutboxInv, AbsentUnsent, [Next]_vars, NEW r \in Id, row'[r].state = "absent"
             PROVE  sent'[r].delivered = 0
  BY DEF AbsentUnsent
<1>0. TypeOK /\ HoldsRows
  BY DEF OutboxInv
<1>1. row[r].state = "absent"
  BY <1>0, NextCloses DEF Closes
<1>2. \A entry \in batch : entry.id # r
  BY <1>0, <1>1 DEF HoldsRows
<1> QED BY <1>0, <1>1, <1>2, DeliveriesGrow DEF AbsentUnsent

Unfaulted == crashes = 0 /\ lost = 0

LEMMA StaysFaulted == TypeOK /\ [Next]_vars /\ Unfaulted' => Unfaulted /\ ~Crash /\ ~MarkLost
<1> SUFFICES ASSUME TypeOK, [Next]_vars, Unfaulted' PROVE Unfaulted /\ ~Crash /\ ~MarkLost
  OBVIOUS
<1>1. crashes \in Nat /\ lost \in Nat
  BY RingAssumption DEF TypeOK
<1>2. ~Crash /\ ~MarkLost
  BY <1>1 DEF Crash, MarkLost, Unfaulted
<1> QED BY <1>2 DEF Unfaulted, faults, Next, vars, RingInTransition, ReadToRing, EnqueueStandalone,
        Delete, Park, ReadMatter, ConsumeDoorbells, Elapse, Scan, Send, Mark, Escalate

\* While nothing failed: a post that still rings was not posted, unless its mark is to come,
\* and one that is about to be sent was not posted either.
PostInv ==
    Unfaulted => \A r \in Id : row[r].event = "homecoming" =>
        /\ sent[r].delivered <= 1
        /\ Ringing(r) => sent[r].delivered = 0 \/ (hand.at = "sent" /\ hand.id = r /\ hand.ok)
        /\ (\E c \in batch : c.id = r) => sent[r].delivered = 0
        /\ hand.at = "sent" /\ hand.id = r /\ ~hand.ok => sent[r].delivered = 0

LEMMA NextPosted ==
    OutboxInv /\ BatchInv /\ AbsentUnsent /\ PostInv /\ [Next]_vars => PostInv'
<1> SUFFICES ASSUME OutboxInv, BatchInv, AbsentUnsent, PostInv, [Next]_vars, Unfaulted',
                    NEW r \in Id, row'[r].event = "homecoming"
             PROVE  /\ sent'[r].delivered <= 1
                    /\ Ringing(r)' => \/ sent'[r].delivered = 0
                                      \/ hand'.at = "sent" /\ hand'.id = r /\ hand'.ok
                    /\ (\E c \in batch' : c.id = r) => sent'[r].delivered = 0
                    /\ hand'.at = "sent" /\ hand'.id = r /\ ~hand'.ok => sent'[r].delivered = 0
  BY DEF PostInv
<1>0. TypeOK /\ HoldsRows /\ Unfaulted /\ ~Crash /\ ~MarkLost /\ TypeOK'
  BY NextOutbox, StaysFaulted DEF OutboxInv
<1>1. Closes(r) /\ sent[r].delivered \in Nat
  BY <1>0, NextCloses, DeliveriesGrow
\* A new row.
<1>2. CASE row[r].state = "absent"
  <2>1. sent[r].delivered = 0 /\ \A c \in batch : c.id # r
    BY <1>0, <1>2 DEF AbsentUnsent, HoldsRows
  <2>2. sent'[r].delivered = 0
    BY <1>0, <2>1, DeliveriesGrow
  <2> QED BY <2>2
<1>3. CASE row[r].state # "absent"
  <2>1. row[r].event = "homecoming"
    BY <1>1, <1>3 DEF Closes
  <2>2. /\ sent[r].delivered <= 1
        /\ Ringing(r) => sent[r].delivered = 0 \/ (hand.at = "sent" /\ hand.id = r /\ hand.ok)
        /\ (\E c \in batch : c.id = r) => sent[r].delivered = 0
        /\ hand.at = "sent" /\ hand.id = r /\ ~hand.ok => sent[r].delivered = 0
    BY <1>0, <2>1 DEF PostInv
  <2>3. Ringing(r)' => Ringing(r) \/ (hand.at = "sent" /\ hand.id = r /\ ~hand.ok)
    BY <1>1, <1>3, <2>1 DEF Closes, Ringing
  <2>4. CASE batch' = batch /\ hand' = hand
    <3>1. ~(\E entry \in batch, ok \in BOOLEAN : Send(entry, ok))
      BY <2>4 DEF Send
    <3>2. sent' = sent
      BY <1>0, <3>1, DeliveriesGrow
    <3> QED BY <2>2, <2>3, <2>4, <3>2
  <2>5. CASE Scan
    <3>1. sent' = sent /\ hand' = hand /\ hand.at = "idle" /\ row' = row
      BY <2>5 DEF Scan, Idle, table
    <3>2. \A c \in batch' : c.id = r => Ringing(r)
      BY <2>5 DEF Scan, IsDue
    <3> QED BY <2>2, <2>3, <3>1, <3>2
  <2>6. ASSUME NEW entry \in batch, NEW ok \in BOOLEAN, Send(entry, ok)
        PROVE  /\ sent'[r].delivered <= 1
               /\ Ringing(r)' => \/ sent'[r].delivered = 0
                                 \/ hand'.at = "sent" /\ hand'.id = r /\ hand'.ok
               /\ (\E c \in batch' : c.id = r) => sent'[r].delivered = 0
               /\ hand'.at = "sent" /\ hand'.id = r /\ ~hand'.ok => sent'[r].delivered = 0
    <3>1. /\ hand.at = "idle" /\ batch' = batch \ {entry} /\ row' = row
          /\ hand'.at = "sent" /\ hand'.id = entry.id /\ (hand'.ok <=> ok)
      BY <2>6 DEF Send, Idle, table
    <3>2. sent'[r].delivered = IF ok /\ entry.id = r THEN More(sent[r].delivered) ELSE sent[r].delivered
      BY <1>0, <2>6, DeliveriesGrow
    <3>3. CASE entry.id = r
      <4>1. sent[r].delivered = 0 /\ \A c \in batch' : c.id # r
        BY <2>2, <3>1, <3>3 DEF BatchInv
      <4>2. ok => sent'[r].delivered = 1
        BY <3>2, <3>3, <4>1, RingAssumption DEF More
      <4>3. ~ok => sent'[r].delivered = 0
        BY <3>2, <4>1
      <4> QED BY <3>1, <3>3, <4>1, <4>2, <4>3
    <3>4. CASE entry.id # r
      <4>1. sent'[r].delivered = sent[r].delivered
        BY <3>2, <3>4
      <4>2. Ringing(r)' => Ringing(r)
        BY <3>1 DEF Ringing
      <4> QED BY <2>2, <3>1, <3>4, <4>1, <4>2
    <3> QED BY <3>3, <3>4
  <2>7. CASE Mark
    <3>1. sent' = sent /\ batch' = batch /\ hand.at = "sent"
      BY <2>7 DEF Mark
    <3>2. hand'.at # "sent"
      BY <1>0, <2>7 DEF Mark, Idle, TypeOK, Hand
    <3>3. Ringing(r)' => sent[r].delivered = 0
      <4>1. CASE hand.id = r /\ hand.ok
        <5>1. row' = Consumed({r})
          BY <2>1, <2>7, <4>1 DEF Mark
        <5>2. row'[r] = [row[r] EXCEPT !.state = "consumed"] /\ row[r] \in Row
          BY <1>0, <5>1 DEF Consumed, TypeOK
        <5>3. row'[r].state = "consumed"
          BY <5>2 DEF Row
        <5> QED BY <5>3 DEF Ringing
      <4>2. CASE hand.id = r /\ ~hand.ok
        BY <2>2, <3>1, <4>2
      <4>3. CASE hand.id # r
        BY <2>2, <2>3, <4>3
      <4> QED BY <4>1, <4>2, <4>3
    <3> QED BY <2>2, <3>1, <3>2, <3>3
  <2>8. CASE Escalate
    <3>1. sent' = sent /\ batch' = batch /\ hand'.at = "idle" /\ hand.at = "dead"
      BY <2>8 DEF Escalate, Idle
    <3> QED BY <2>2, <2>3, <3>1
  <2> QED BY <1>0, <2>4, <2>5, <2>6, <2>7, <2>8, Dispatches
<1> QED BY <1>2, <1>3

\* A post appears once in the channel, unless a mark was refused or the process crashed.
THEOREM PostsAppearOnce == Spec => []PostedOnce
<1>1. Init => BatchInv /\ AbsentUnsent /\ PostInv
  BY DEF Init, BatchInv, AbsentUnsent, PostInv, Idle, Absent
<1>2. OutboxInv /\ BatchInv /\ AbsentUnsent /\ PostInv /\ [Next]_vars
          => OutboxInv' /\ BatchInv' /\ AbsentUnsent' /\ PostInv'
  BY NextOutbox, NextBatch, NextAbsent, NextPosted DEF OutboxInv
<1>3. OutboxInv /\ PostInv => PostedOnce
  <2> SUFFICES ASSUME OutboxInv, PostInv, NEW r \in Id, row[r].event = "homecoming"
               PROVE  sent[r].delivered <= 1 \/ crashes > 0 \/ lost > 0
    BY DEF PostedOnce
  <2>1. crashes \in Nat /\ lost \in Nat
    BY RingAssumption DEF OutboxInv, TypeOK
  <2> QED BY <2>1 DEF PostInv, Unfaulted
<1> QED BY InitOutbox, <1>1, <1>2, <1>3, PTL DEF Spec

\* While no mark was refused: a row whose death was reported, and one that is to be
\* reported, no longer ring and are in nobody's hands; a report is about a row once.
Reported(r) == \E e \in Id : row[e].cause = r

CauseInv ==
    lost = 0 =>
        /\ \A r \in Id : Reported(r) =>
              /\ ~Ringing(r) /\ row[r].state # "absent"
              /\ \A c \in batch : c.id # r
              /\ hand.at # "idle" => hand.id # r
        /\ hand.at = "dead" => ~Ringing(hand.id)
        /\ EscalatedOnce

LEMMA NextReported ==
    OutboxInv /\ BatchInv /\ CauseInv /\ [Next]_vars => CauseInv'
<1> SUFFICES ASSUME OutboxInv, BatchInv, CauseInv, [Next]_vars, lost' = 0 PROVE CauseInv'
  BY DEF CauseInv
<1>0. TypeOK /\ HoldsRows /\ TypeOK' /\ lost \in Nat
  BY NextOutbox, RingAssumption DEF OutboxInv, TypeOK
<1>1. lost = 0 /\ ~MarkLost
  <2>1. ~MarkLost
    BY <1>0 DEF MarkLost
  <2> QED BY <2>1 DEF faults, Next, vars, RingInTransition, ReadToRing, EnqueueStandalone, Delete, Park,
             ReadMatter, ConsumeDoorbells, Elapse, Scan, Send, Mark, Escalate, Crash
<1>2. /\ \A r \in Id : Reported(r) =>
            /\ ~Ringing(r) /\ row[r].state # "absent"
            /\ \A c \in batch : c.id # r
            /\ hand.at # "idle" => hand.id # r
      /\ hand.at = "dead" => ~Ringing(hand.id)
      /\ \A e, f \in Id : e # f /\ row[e].cause # Nothing => row[e].cause # row[f].cause
  BY <1>1 DEF CauseInv, EscalatedOnce
<1>3. \A r \in Id : Closes(r)
  BY <1>0, NextCloses
\* Rows that do not ring and are in nobody's hands stay so.
<1>4. ASSUME NEW r \in Id, ~Ringing(r), row[r].state # "absent", hand.at = "sent" => hand.id # r
      PROVE  ~Ringing(r)' /\ row'[r].state # "absent"
  BY <1>3, <1>4 DEF Closes, Ringing
\* Only an escalation writes a new cause.
<1>5. ASSUME NEW e \in Id, ~Escalate
      PROVE  row'[e].cause \in {row[e].cause, Nothing}
  <2>1. ASSUME NEW m, NEW to, NEW event, Enqueue(m, to, event, Nothing)
        PROVE  row'[e].cause \in {row[e].cause, Nothing}
    BY <1>0, <2>1 DEF Enqueue, TypeOK
  <2>2. CASE \E m \in Matter, u \in User, event \in {"ring", "homecoming"} :
               RingInTransition(m, u, event) \/ EnqueueStandalone(m, u)
    BY <2>1, <2>2 DEF RingInTransition, EnqueueStandalone
  <2>3. ASSUME NEW rows, row' = Consumed(rows)
        PROVE  row'[e].cause = row[e].cause
    <3>1. row[e] \in Row /\ row'[e] \in {row[e], [row[e] EXCEPT !.state = "consumed"]}
      BY <1>0, <2>3 DEF Consumed, TypeOK
    <3> QED BY <3>1 DEF Row
  <2>4. CASE (\E m \in Matter : Park(m)) \/ (\E look \in reading : ConsumeDoorbells(look))
    BY <2>3, <2>4 DEF Park, ConsumeDoorbells
  <2>5. ASSUME NEW x \in Id, Elapse(x)
        PROVE  row'[e].cause = row[e].cause
    <3>1. row[e] \in Row /\ row'[e] \in {row[e], [row[e] EXCEPT !.due = TRUE]}
      BY <1>0, <2>5 DEF Elapse, TypeOK
    <3> QED BY <3>1 DEF Row
  <2>6. CASE Mark
    <3>1. row'[e] = row[e] \/ row[e].state # "absent"
      BY <1>0, <2>6 DEF Mark, HoldsRows, Consumed, MarkedDelivered, MarkedFailed, TypeOK
    <3> QED BY <1>3, <3>1 DEF Closes
  <2>7. \/ row' = row
        \/ \E m \in Matter, u \in User, event \in {"ring", "homecoming"} :
              RingInTransition(m, u, event) \/ EnqueueStandalone(m, u)
        \/ (\E m \in Matter : Park(m)) \/ (\E look \in reading : ConsumeDoorbells(look))
        \/ \E x \in Id : Elapse(x)
        \/ Mark
    BY <1>5 DEF Next, vars, table, ReadToRing, Delete, ReadMatter, Scan, Send, MarkLost, Crash
  <2> QED BY <2>2, <2>4, <2>5, <2>6, <2>7
<1>6. CASE ~Escalate
  <2>1. \A r \in Id : Reported(r)' => Reported(r)
    BY <1>5, <1>6, RingAssumption DEF Reported
  <2>2. \A e, f \in Id : e # f /\ row'[e].cause # Nothing => row'[e].cause # row'[f].cause
    BY <1>2, <1>5, <1>6
  <2>3. \A r \in Id : Reported(r)' => ~Ringing(r)' /\ row'[r].state # "absent"
    BY <1>2, <1>4, <2>1
  <2>4. CASE batch' = batch /\ hand' = hand
    <3>1. hand.at = "dead" => ~Ringing(hand.id)'
      <4> SUFFICES ASSUME hand.at = "dead" PROVE ~Ringing(hand.id)'
        OBVIOUS
      <4>1. hand.id \in Id /\ row[hand.id].state # "absent" /\ ~Ringing(hand.id)
        BY <1>0, <1>2 DEF HoldsRows
      <4>2. \A r \in Id : r = hand.id => ~Ringing(r)'
        BY <1>4, <4>1
      <4> QED BY <2>4, <4>1, <4>2
    <3> QED BY <1>2, <2>1, <2>2, <2>3, <2>4, <3>1 DEF CauseInv, EscalatedOnce
  <2>5. CASE Scan
    <3>1. hand' = hand /\ hand.at = "idle"
      BY <2>5 DEF Scan, Idle
    <3>2. \A c \in batch' : Ringing(c.id)
      BY <2>5 DEF Scan, IsDue
    <3> QED BY <1>2, <2>1, <2>2, <2>3, <3>1, <3>2 DEF CauseInv, EscalatedOnce
  <2>6. ASSUME NEW entry \in batch, NEW ok \in BOOLEAN, Send(entry, ok)
        PROVE  CauseInv'
    <3>1. batch' \subseteq batch /\ hand'.at = "sent" /\ hand'.id = entry.id
      BY <2>6 DEF Send
    <3> QED BY <1>2, <2>1, <2>2, <2>3, <3>1 DEF CauseInv, EscalatedOnce
  <2>7. CASE Mark
    <3>1. batch' = batch /\ hand.at = "sent" /\ hand.id \in Id
      BY <1>0, <2>7 DEF Mark, HoldsRows
    <3>2. CASE hand' = Idle
      BY <1>2, <2>1, <2>2, <2>3, <3>1, <3>2 DEF CauseInv, EscalatedOnce, Idle
    <3>3. CASE hand' = [hand EXCEPT !.at = "dead"] /\ More(hand.retry) >= MaxRetries
               /\ row' = MarkedFailed(hand.id, More(hand.retry))
      <4>1. hand'.at = "dead" /\ hand'.id = hand.id
        BY <1>0, <3>3 DEF TypeOK, Hand
      <4>2. row[hand.id] \in Row
            /\ row'[hand.id] = [row[hand.id] EXCEPT !.state = "dead", !.retry = More(hand.retry), !.due = FALSE]
        BY <1>0, <3>1, <3>3 DEF MarkedFailed, TypeOK
      <4>3. row'[hand.id].state = "dead"
        BY <4>2 DEF Row
      <4>4. ~Ringing(hand.id)'
        BY <4>1, <4>3 DEF Ringing
      <4> QED BY <1>2, <2>1, <2>2, <2>3, <3>1, <4>1, <4>4 DEF CauseInv, EscalatedOnce
    <3> QED BY <2>7, <3>2, <3>3 DEF Mark
  <2>8. CASE Crash
    <3>1. batch' = {} /\ hand'.at = "idle"
      BY <2>8 DEF Crash, Idle
    <3> QED BY <2>1, <2>2, <2>3, <3>1 DEF CauseInv, EscalatedOnce
  <2> QED BY <1>0, <1>1, <1>6, <2>4, <2>5, <2>6, <2>7, <2>8, Dispatches
\* A report is written about the row in hand, of which there was none yet.
<1>7. CASE Escalate
  <2>1. /\ hand.at = "dead" /\ hand.id \in Id /\ hand'.at = "idle" /\ batch' = batch
        /\ \A c \in batch : c.id # hand.id
    BY <1>0, <1>7 DEF Escalate, Idle, HoldsRows, BatchInv
  <2>2. PICK new \in Id : \A e \in Id : row'[e].cause = row[e].cause \/ (e = new /\ row'[e].cause = hand.id)
    <3>1. CASE row' = row
      BY <2>1, <3>1
    <3>2. ASSUME NEW m, NEW to, Enqueue(m, to, "escalation", hand.id)
          PROVE  \E new \in Id :
                    \A e \in Id : row'[e].cause = row[e].cause \/ (e = new /\ row'[e].cause = hand.id)
      BY <1>0, <3>2, RingAssumption DEF Enqueue, TypeOK
    <3> QED BY <1>7, <3>1, <3>2 DEF Escalate
  <2>3. ~Reported(hand.id)
    BY <1>2, <2>1
  <2>4. \A e, f \in Id : e # f /\ row'[e].cause # Nothing => row'[e].cause # row'[f].cause
    BY <1>2, <2>2, <2>3 DEF Reported
  <2>5. ASSUME NEW r \in Id, Reported(r)'
        PROVE  ~Ringing(r)' /\ row'[r].state # "absent" /\ \A c \in batch : c.id # r
    <3>1. Reported(r) \/ r = hand.id
      BY <2>2, <2>5 DEF Reported
    <3>2. ~Ringing(r) /\ row[r].state # "absent" /\ \A c \in batch : c.id # r
      BY <1>0, <1>2, <2>1, <3>1 DEF HoldsRows
    <3> QED BY <1>4, <2>1, <3>2
  <2> QED BY <2>1, <2>4, <2>5 DEF CauseInv, EscalatedOnce
<1> QED BY <1>6, <1>7

\* The creator hears of a dead ring once, unless the mark that kills it was refused: crashes
\* alone repeat no report.
THEOREM DeathsAreReportedOnce == Spec => []EscalatedOnce
<1>1. Init => BatchInv /\ CauseInv
  BY RingAssumption DEF Init, BatchInv, CauseInv, EscalatedOnce, Reported, Idle, Absent
<1>2. OutboxInv /\ BatchInv /\ CauseInv /\ [Next]_vars => OutboxInv' /\ BatchInv' /\ CauseInv'
  BY NextOutbox, NextBatch, NextReported DEF OutboxInv
<1>3. OutboxInv /\ CauseInv => EscalatedOnce
  <2> SUFFICES ASSUME OutboxInv, CauseInv, ~(lost > 0) PROVE EscalatedOnce
    BY DEF EscalatedOnce
  <2>1. lost \in Nat
    BY RingAssumption DEF OutboxInv, TypeOK
  <2> QED BY <2>1 DEF CauseInv
<1> QED BY InitOutbox, <1>1, <1>2, <1>3, PTL DEF Spec
=============================================================================
