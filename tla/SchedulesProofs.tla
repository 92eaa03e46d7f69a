--------------------------- MODULE SchedulesProofs ---------------------------
(* Theorems about Schedules, for every set of schedules and expressions. *)
EXTENDS Schedules, TLAPS

-----------------------------------------------------------------------------
(* Type correctness. *)

LEMMA NextSlotType ==
    ASSUME NEW e \in Every, NEW t \in Nat
    PROVE  NextSlot(e, t) \in Nat
<1>1. e \in Nat \ {0}
  BY ScheduleAssumption
<1>2. t \div e \in Nat
  BY <1>1
<1> DEFINE q == t \div e
<1>3. q \in Nat
  BY <1>2
<1> HIDE DEF q
<1>4. (q + 1) * e \in Nat
  BY <1>1, <1>3
<1> QED BY <1>4 DEF NextSlot, q

LEMMA SavedType ==
    ASSUME TypeOK, NEW s \in Schedule, NEW r \in Row
    PROVE  Saved(s, r) \in [Schedule -> Row \cup {Nothing, Deleted}]
BY DEF TypeOK, Saved, Present

LEMMA InitType == Init => TypeOK
BY ScheduleAssumption DEF Init, TypeOK

LEMMA NextType == TypeOK /\ [Next]_vars => TypeOK'
<1> SUFFICES ASSUME TypeOK, [Next]_vars PROVE TypeOK'
  OBVIOUS
<1> USE ScheduleAssumption DEF TypeOK, runner, outcome
<1>0. hand # Nothing => hand \in [copy: Copy, at: {"lookup", "create", "ring", "book"}]
  OBVIOUS
<1>1. CASE UNCHANGED vars
  BY <1>1 DEF vars
<1>2. CASE Tick
  BY <1>2 DEF Tick
<1>3. ASSUME NEW s \in Schedule, NEW e \in Every, Create(s, e)
      PROVE  TypeOK'
  <2>1. [enabled |-> TRUE, every |-> e, next |-> NextSlot(e, clock)] \in Row
    BY NextSlotType DEF Row
  <2> QED BY <1>3, <2>1 DEF Create
<1>4. ASSUME NEW s \in Schedule, UpdateRead(s)
      PROVE  TypeOK'
  <2>1. [id |-> s, was |-> row[s]] \in Copy
    BY <1>4 DEF UpdateRead, Copy, Present
  <2> QED BY <1>4, <2>1 DEF UpdateRead
<1>5. ASSUME NEW edit \in edits, NEW on \in BOOLEAN, NEW e \in Every, UpdateWrite(edit, on, e)
      PROVE  TypeOK'
  <2>1. [enabled |-> on, every |-> e, next |-> NextSlot(e, clock)] \in Row
    BY NextSlotType DEF Row
  <2>2. row' \in [Schedule -> Row \cup {Nothing, Deleted}]
    BY <1>5, <2>1, SavedType DEF UpdateWrite, Copy
  <2> QED BY <1>5, <2>2 DEF UpdateWrite
<1>6. ASSUME NEW s \in Schedule, Delete(s)
      PROVE  TypeOK'
  BY <1>6 DEF Delete
<1>7. ASSUME NEW k \in matters, DeleteMatter(k)
      PROVE  TypeOK'
  BY <1>7 DEF DeleteMatter
<1>8. CASE Scan
  <2>1. PICK due \in SUBSET {s \in Schedule : Due(s)} :
            batch' = {[id |-> s, was |-> row[s]] : s \in due}
    BY <1>8 DEF Scan
  <2>2. \A s \in due : [id |-> s, was |-> row[s]] \in Copy
    BY <2>1 DEF Due, Copy, Present
  <2> QED BY <1>8, <2>1, <2>2 DEF Scan
<1>9. ASSUME NEW c \in batch, Take(c)
      PROVE  TypeOK'
  BY <1>9 DEF Take
<1>10. CASE Lookup
  <2>1. Stamped(hand.copy) \in {"book", "create"}
    BY DEF Stamped
  <2>2. hand' \in [copy: Copy, at: {"lookup", "create", "ring", "book"}]
    BY <1>0, <1>10, <2>1 DEF Lookup
  <2> QED BY <1>10, <2>2 DEF Lookup
<1>11. CASE Insert
  <2>1. /\ hand # Nothing
        /\ hand \in [copy: Copy, at: {"lookup", "create", "ring", "book"}]
    BY <1>0, <1>11 DEF Insert
  <2> DEFINE k == Slot(hand.copy)
  <2>2. k \in Key
    BY <2>1 DEF Slot, Key, Copy, Row
  <2>3. hand' \in [copy: Copy, at: {"lookup", "create", "ring", "book"}]
    BY <1>11, <2>1 DEF Insert
  <2>4. CASE k \in matters
    BY <1>11, <2>1, <2>3, <2>4 DEF Insert
  <2>5. CASE k \notin matters
    <3>1. /\ matters' = matters \cup {k}
          /\ rings' = [x \in matters \cup {k} |-> IF x = k THEN 0 ELSE rings[x]]
      BY <1>11, <2>1, <2>5 DEF Insert
    <3>2. rings' \in [matters' -> 0..2]
      BY <2>5, <3>1
    <3> QED BY <1>11, <2>2, <2>3, <3>1, <3>2 DEF Insert
  <2> QED BY <2>4, <2>5
<1>12. CASE Ring
  <2>1. hand' \in [copy: Copy, at: {"lookup", "create", "ring", "book"}]
    BY <1>0, <1>12 DEF Ring
  <2>2. rings' \in [matters -> 0..2]
    <3> DEFINE k == Slot(hand.copy)
               n == IF rings[k] < 2 THEN rings[k] + 1 ELSE 2
    <3>1. rings' = [rings EXCEPT ![k] = n]
      BY <1>12 DEF Ring
    <3>2. CASE k \in matters
      <4>1. rings[k] \in 0..2
        BY <3>2
      <4>2. n \in 0..2
        BY <4>1
      <4> QED BY <3>1, <4>2
    <3>3. CASE k \notin matters
      BY <3>1, <3>3
    <3> QED BY <3>2, <3>3
  <2> QED BY <1>12, <2>1, <2>2 DEF Ring
<1>13. CASE Book
  <2>1. /\ hand # Nothing
        /\ hand.copy \in Copy
    BY <1>0, <1>13 DEF Book
  <2>2. Booked(hand.copy) \in Row
    BY <2>1, NextSlotType DEF Booked, Copy, Row
  <2>3. row' \in [Schedule -> Row \cup {Nothing, Deleted}]
    BY <1>13, <2>1, <2>2, SavedType DEF Book, Copy
  <2> QED BY <1>13, <2>3 DEF Book
<1>14. CASE StatementFails
  <2>1. hand' = Nothing \/ hand' \in [copy: Copy, at: {"lookup", "create", "ring", "book"}]
    BY <1>0, <1>14 DEF StatementFails
  <2> QED BY <1>14, <2>1 DEF StatementFails
<1>15. CASE Crash
  BY <1>15 DEF Crash
<1> QED BY <1>1, <1>2, <1>3, <1>4, <1>5, <1>6, <1>7, <1>8, <1>9, <1>10, <1>11, <1>12, <1>13, <1>14,
           <1>15 DEF Next

\* Every reachable state of the runner and of the table it works on is well typed.
THEOREM TypeCorrect == Spec => []TypeOK
<1>1. Init => TypeOK
  BY InitType
<1>2. TypeOK /\ [Next]_vars => TypeOK'
  BY NextType
<1> QED BY <1>1, <1>2, PTL DEF Spec

-----------------------------------------------------------------------------
(* The inductive invariant. *)

\* The part of TypeOK that the ring count needs.
RingTypes ==
    /\ rings \in [matters -> 0..2]
    /\ gone \subseteq matters
    /\ hand # Nothing => hand.at \in {"lookup", "create", "ring", "book"}

\* While the runner is about to ring, the matter is there and nobody was rung.
RingsNew ==
    (hand # Nothing /\ hand.at = "ring")
        => Slot(hand.copy) \in matters /\ rings[Slot(hand.copy)] = 0

RingInv == RingTypes /\ RingsNew /\ RungOncePerSlot

LEMMA InitRing == Init => RingInv
BY DEF Init, RingInv, RingTypes, RingsNew, RungOncePerSlot

LEMMA NextRing == TypeOK /\ RingInv /\ [Next]_vars => RingInv'
<1> SUFFICES ASSUME TypeOK, RingInv, [Next]_vars PROVE RingInv'
  OBVIOUS
<1> USE DEF RingInv, RingTypes, RingsNew, RungOncePerSlot
<1>0. hand # Nothing => hand \in [copy: Copy, at: {"lookup", "create", "ring", "book"}]
  BY DEF TypeOK
<1>1. CASE UNCHANGED <<hand, outcome>>
  BY <1>1 DEF outcome, Slot
<1>2. CASE hand' = Nothing /\ UNCHANGED outcome
  BY <1>2 DEF outcome
<1>3. ASSUME NEW k \in matters, DeleteMatter(k)
      PROVE  RingInv'
  BY <1>3 DEF DeleteMatter, runner, Slot
<1>4. ASSUME NEW c \in batch, Take(c)
      PROVE  RingInv'
  BY <1>4 DEF Take, outcome
<1>5. CASE Lookup
  <2>1. hand' = [hand EXCEPT !.at = Stamped(hand.copy)] /\ Stamped(hand.copy) \in {"book", "create"}
    BY <1>5 DEF Lookup, Stamped
  <2>2. hand'.at \in {"book", "create"}
    BY <1>0, <1>5, <2>1 DEF Lookup
  <2> QED BY <1>5, <2>2 DEF Lookup, outcome
<1>6. CASE Insert
  <2>1. /\ hand # Nothing
        /\ hand \in [copy: Copy, at: {"lookup", "create", "ring", "book"}]
    BY <1>0, <1>6 DEF Insert
  <2> DEFINE k == Slot(hand.copy)
  <2>2. CASE k \in matters
    <3>1. hand'.at = "book" /\ UNCHANGED <<matters, rings, gone>>
      BY <1>6, <2>1, <2>2 DEF Insert
    <3> QED BY <3>1
  <2>3. CASE k \notin matters
    <3>1. /\ hand'.at = "ring" /\ hand'.copy = hand.copy
          /\ matters' = matters \cup {k}
          /\ rings' = [x \in matters \cup {k} |-> IF x = k THEN 0 ELSE rings[x]]
          /\ gone' = gone
      BY <1>6, <2>1, <2>3 DEF Insert
    <3> QED BY <2>3, <3>1 DEF Slot
  <2> QED BY <2>2, <2>3
<1>7. CASE Ring
  <2>1. /\ hand # Nothing
        /\ hand \in [copy: Copy, at: {"lookup", "create", "ring", "book"}]
    BY <1>0, <1>7 DEF Ring
  <2> DEFINE k == Slot(hand.copy)
  <2>2. k \in matters /\ rings[k] = 0
    BY <1>7, <2>1 DEF Ring
  <2>3. hand'.at = "book" /\ UNCHANGED <<matters, gone>>
    BY <1>7, <2>1 DEF Ring
  <2>4. rings' = [rings EXCEPT ![k] = 1]
    BY <1>7, <2>2 DEF Ring
  <2> QED BY <2>2, <2>3, <2>4
<1>8. CASE StatementFails
  <2>1. hand' = Nothing \/ hand'.at = "book"
    BY <1>0, <1>8 DEF StatementFails
  <2> QED BY <1>8, <2>1 DEF StatementFails, outcome
<1>9. \/ UNCHANGED <<hand, outcome>>
      \/ hand' = Nothing /\ UNCHANGED outcome
      \/ \E k \in matters : DeleteMatter(k)
      \/ \E c \in batch : Take(c)
      \/ Lookup \/ Insert \/ Ring \/ StatementFails
  BY DEF Next, vars, runner, outcome, Tick, Create, UpdateRead, UpdateWrite, Delete, Scan, Book,
         Crash
<1> QED BY <1>1, <1>2, <1>3, <1>4, <1>5, <1>6, <1>7, <1>8, <1>9

\* However often a crash or a failed bookkeeping makes the runner fire a slot again,
\* the executor is rung about it at most once.
THEOREM RungOnce == Spec => []RungOncePerSlot
<1>1. Init => RingInv
  BY InitRing
<1>2. TypeOK /\ RingInv /\ [Next]_vars => RingInv'
  BY NextRing
<1>3. RingInv => RungOncePerSlot
  BY DEF RingInv
<1>4. Spec => []TypeOK
  BY TypeCorrect
<1> QED BY <1>1, <1>2, <1>3, <1>4, PTL DEF Spec

-----------------------------------------------------------------------------
(* No slot is skipped. *)

LEMMA NextFires ==
    TypeOK /\ RingInv /\ EverySlotFires /\ [Next]_vars => EverySlotFires'
<1> SUFFICES ASSUME TypeOK, RingInv, EverySlotFires, [Next]_vars,
                    hand' # Nothing, hand'.at = "book"
             PROVE  Slot(hand'.copy) \in matters' \/ failures' > 0
  BY DEF EverySlotFires, Slot
<1>0. hand # Nothing => hand \in [copy: Copy, at: {"lookup", "create", "ring", "book"}]
  BY DEF TypeOK
<1>1. CASE UNCHANGED <<hand, matters, failures>>
  BY <1>1 DEF EverySlotFires
<1>2. CASE hand' = Nothing
  BY <1>2
<1>3. ASSUME NEW c \in batch, Take(c)
      PROVE  Slot(hand'.copy) \in matters' \/ failures' > 0
  BY <1>3 DEF Take
<1>4. CASE Lookup
  <2>1. /\ hand # Nothing
        /\ hand \in [copy: Copy, at: {"lookup", "create", "ring", "book"}]
        /\ hand' = [hand EXCEPT !.at = Stamped(hand.copy)]
        /\ matters' = matters
    BY <1>0, <1>4 DEF Lookup, outcome
  <2>2. hand'.copy = hand.copy /\ Stamped(hand.copy) = "book"
    BY <2>1
  <2>3. Slot(hand.copy) \in matters
    BY <2>2 DEF Stamped
  <2> QED BY <2>1, <2>2, <2>3
<1>5. CASE Insert
  <2>1. /\ hand # Nothing
        /\ hand \in [copy: Copy, at: {"lookup", "create", "ring", "book"}]
    BY <1>0, <1>5 DEF Insert
  <2>2. CASE Slot(hand.copy) \in matters
    <3>1. hand'.copy = hand.copy /\ matters' = matters
      BY <1>5, <2>1, <2>2 DEF Insert
    <3> QED BY <2>2, <3>1
  <2>3. CASE Slot(hand.copy) \notin matters
    <3>1. hand'.at = "ring"
      BY <1>5, <2>1, <2>3 DEF Insert
    <3> QED BY <3>1
  <2> QED BY <2>2, <2>3
<1>6. CASE Ring
  <2>1. /\ hand # Nothing /\ hand.at = "ring"
        /\ hand' = [hand EXCEPT !.at = "book"] /\ matters' = matters
    BY <1>6 DEF Ring
  <2>2. Slot(hand.copy) \in matters
    BY <2>1 DEF RingInv, RingsNew
  <2>3. hand'.copy = hand.copy
    BY <1>0, <2>1
  <2> QED BY <2>1, <2>2, <2>3
<1>7. CASE StatementFails
  <2>1. failures \in Nat /\ failures' = failures + 1
    BY <1>7, ScheduleAssumption DEF TypeOK, StatementFails
  <2> QED BY <2>1
<1>8. \/ UNCHANGED <<hand, matters, failures>>
      \/ hand' = Nothing
      \/ \E c \in batch : Take(c)
      \/ Lookup \/ Insert \/ Ring \/ StatementFails
  BY DEF Next, vars, runner, outcome, Tick, Create, UpdateRead, UpdateWrite, Delete, DeleteMatter,
         Scan, Book, Crash
<1> QED BY <1>1, <1>2, <1>3, <1>4, <1>5, <1>6, <1>7, <1>8

\* The runner leaves a slot behind only with its matter stamped out, however edits,
\* deletions and crashes come between the statements, unless a statement failed.
THEOREM NoSlotIsSkipped == Spec => []EverySlotFires
<1>1. Init => RingInv /\ EverySlotFires
  BY InitRing DEF Init, EverySlotFires
<1>2. TypeOK /\ RingInv /\ EverySlotFires /\ [Next]_vars => RingInv' /\ EverySlotFires'
  BY NextRing, NextFires
<1>3. Spec => []TypeOK
  BY TypeCorrect
<1> QED BY <1>1, <1>2, <1>3, PTL DEF Spec

=============================================================================
