------------------------------ MODULE RateLimiter ------------------------------
(***************************************************************************)
(* The cooldown limiter of the endpoints that call a language model        *)
(* (middleware/rate_limit.go), for one of its keys: keys share nothing.    *)
(*                                                                         *)
(* A call reads the clock, loads or stores the key's time and, when that   *)
(* time is past its cooldown, swaps it for its own: three atomic steps,    *)
(* between which other calls and the sweep of stale keys run.              *)
(***************************************************************************)
EXTENDS Integers

CONSTANTS
    Caller,    \* goroutines that call Allow
    Absent,    \* no entry for the key
    Cooldown,  \* the cooldown
    Grace,     \* how much longer an entry is kept (60 seconds in the code)
    MaxTime    \* bound on the clock

ASSUME RateLimiterAssumption ==
    /\ Cooldown \in Nat \ {0} /\ Grace \in Nat /\ MaxTime \in Nat
    /\ Absent \notin Nat

VARIABLES
    clock,
    last,    \* the entry of the key
    call,    \* what each caller is at, the time it read and the entry it loaded
    grants,  \* calls that were allowed: the caller and the time it read
    beaten   \* callers that saw another call being allowed since they began

vars == <<clock, last, call, grants, beaten>>

Time == 0..MaxTime

Entry == Time \cup {Absent}

Call == [at: {"idle", "load", "swap"}, now: Time, prev: Entry]

Idle == [at |-> "idle", now |-> 0, prev |-> Absent]

TypeOK ==
    /\ clock \in Time
    /\ last \in Entry
    /\ call \in [Caller -> Call]
    /\ grants \subseteq [by: Caller, now: Time]
    /\ beaten \subseteq Caller
    /\ \A c \in Caller : call[c].at = "swap" => call[c].prev + Cooldown <= call[c].now

Init ==
    /\ clock = 0
    /\ last = Absent
    /\ call = [c \in Caller |-> Idle]
    /\ grants = {} /\ beaten = {}

\* Calls are short: none stays under way for longer than Grace.
Tick ==
    /\ clock < MaxTime
    /\ \A c \in Caller : call[c].at # "idle" => clock < call[c].now + Grace
    /\ clock' = clock + 1
    /\ UNCHANGED <<last, call, grants, beaten>>

Begin(c) ==
    /\ call[c].at = "idle"
    /\ call' = [call EXCEPT ![c] = [at |-> "load", now |-> clock, prev |-> Absent]]
    /\ beaten' = beaten \ {c}
    /\ UNCHANGED <<clock, last, grants>>

\* The call is allowed, with the time it read.
Granted(c) ==
    /\ last' = call[c].now
    /\ call' = [call EXCEPT ![c] = Idle]
    /\ grants' = grants \cup {[by |-> c, now |-> call[c].now]}
    /\ beaten' = beaten \cup {d \in Caller \ {c} : call[d].at # "idle"}

Refused(c) ==
    /\ call' = [call EXCEPT ![c] = Idle]
    /\ UNCHANGED <<last, grants, beaten>>

\* Mutant of Cooling: the cooldown lasts a moment longer.
CoolingLong(c) == call[c].now - last <= Cooldown

Cooling(c) == call[c].now - last < Cooldown

\* LoadOrStore.
Load(c) ==
    /\ call[c].at = "load"
    /\ \/ last = Absent /\ Granted(c)
       \/ last # Absent /\ Cooling(c) /\ Refused(c)
       \/ /\ last # Absent /\ ~Cooling(c)
          /\ call' = [call EXCEPT ![c] = [at |-> "swap", now |-> call[c].now, prev |-> last]]
          /\ UNCHANGED <<last, grants, beaten>>
    /\ UNCHANGED clock

\* Mutant of Unchanged: a plain store.
StoreAnyway(c) == TRUE

Unchanged(c) == last = call[c].prev

\* CompareAndSwap.
Swap(c) ==
    /\ call[c].at = "swap"
    /\ IF Unchanged(c) THEN Granted(c) ELSE Refused(c)
    /\ UNCHANGED clock

\* Mutant of Stale: the grace is forgotten.
StaleEarly(t) == t < clock - Cooldown

Stale(t) == t < clock - (Cooldown + Grace)

\* The sweep removes an entry only if it is still the one it has looked at.
Evict ==
    /\ last # Absent /\ Stale(last)
    /\ last' = Absent
    /\ UNCHANGED <<clock, call, grants, beaten>>

Next ==
    \/ Tick
    \/ \E c \in Caller : Begin(c)
    \/ \E c \in Caller : Load(c)
    \/ \E c \in Caller : Swap(c)
    \/ Evict

Spec == Init /\ [][Next]_vars

-----------------------------------------------------------------------------
(* Properties. *)

\* Calls that were allowed are a cooldown apart, however they and the sweep of stale
\* entries overtake one another.
CooldownHolds ==
    \A g, h \in grants :
        g # h => (g.now + Cooldown <= h.now \/ h.now + Cooldown <= g.now)

\* A call is refused only because another was allowed, less than a cooldown before it
\* or while it was under way, or because the sweep took the entry it was about to swap.
RefusedBecauseBeaten ==
    [][\A c \in Caller :
          (call[c].at # "idle" /\ call'[c].at = "idle" /\ grants' = grants)
              => \/ c \in beaten
                 \/ \E g \in grants : call[c].now < g.now + Cooldown
                 \/ call[c].at = "swap" /\ last = Absent]_vars

=============================================================================
