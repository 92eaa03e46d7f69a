-------------------------------- MODULE Grants --------------------------------
(***************************************************************************)
(* The grants by which one user of octo-server lets bots speak on its      *)
(* behalf (modules/bot_api): rows of obo_grants and obo_scopes, the        *)
(* row locks of the transactions that write them, and the two entries of   *)
(* Redis that let a reader skip the database: "this user has no usable     *)
(* grant" and "no grant covers this channel".                              *)
(*                                                                         *)
(* A grant is named by its bot, as (grantor, bot) is unique.  A write is   *)
(* an autocommitted statement or a transaction; the entries are dropped    *)
(* afterwards, by calls of their own, and a reader that missed writes one  *)
(* back some time after its query.  An entry that holds "1" is never       *)
(* believed and counts as absent.                                          *)
(***************************************************************************)
EXTENDS Integers, Sequences, FiniteSets

CONSTANTS
    Bot,       \* bots of the user; each names its grant
    Request,   \* requests that may be under way at once
    MaxFaults  \* bound on refused statements, lost calls to Redis and crashes

ASSUME GrantsAssumption == MaxFaults \in Nat

VARIABLES
    grant,   \* the obo_grants rows of the user
    scope,   \* grants with an enabled obo_scopes row for the channel
    none,    \* the entries of Redis that hold "0"
    req,     \* the requests under way, with the locks of their transactions
    excused, \* history: entries written on an overtaken answer, or not dropped for a fault
    faults

grantVars == <<grant, scope, none, req, excused, faults>>

Entry == {"grantor", "channel"}
Switch == {"on", "off", "keep"}
Stage == {"lock", "pause", "update", "revoke", "insert", "delete",
          "dropGrantor", "dropChannel", "row", "count", "join", "fill"}

\* A paused grant is live without being active; a revoked one carries revoked_at.
Grant == [state: {"none", "live", "revoked"}, active: BOOLEAN, global: BOOLEAN]

Idle == [op |-> "idle"]

Call == [op: {"create", "put", "revoke", "scope", "unscope", "check", "fanout"},
         bot: Bot,
         active: Switch, global: Switch,      \* what a PUT asks for
         at: Stage,
         left: {<<"user", "row">>, <<"row">>, <<>>},  \* locks its transaction has yet to take
         user: BOOLEAN, rows: SUBSET Bot,     \* locks it holds
         over: SUBSET Bot,                    \* grants whose channels' entries it will drop
         any: BOOLEAN]                        \* what a reader's query found

GrantTypeOK ==
    /\ grant \in [Bot -> Grant]
    /\ scope \subseteq Bot
    /\ none \subseteq Entry /\ excused \subseteq Entry
    /\ req \in [Request -> Call \cup {Idle}]
    /\ faults \in 0..MaxFaults

GrantInit ==
    /\ grant = [b \in Bot |-> [state |-> "none", active |-> FALSE, global |-> FALSE]]
    /\ scope = {} /\ none = {} /\ excused = {}
    /\ req = [r \in Request |-> Idle]
    /\ faults = 0

At(r, stage) == req[r] # Idle /\ req[r].at = stage

Usable(b) == grant[b].active /\ grant[b].global

\* What a query behind an entry would find now.
Truth(e) == \E b \in Bot : Usable(b) /\ (e = "channel" => b \in scope)

Called(op, b, at) ==
    [op |-> op, bot |-> b, active |-> "keep", global |-> "keep", at |-> at, left |-> <<>>,
     user |-> FALSE, rows |-> {}, over |-> {}, any |-> FALSE]

Locked(b, r) == \E s \in Request \ {r} : req[s] # Idle /\ b \in req[s].rows

-----------------------------------------------------------------------------
(* Transactions: creating or reviving a grant, and activating one.  The first *)
(* lock is the user's row, so that one of them runs at a time.                *)

\* Mutant of LockOrder: an activation locks its grant before the user.
LockOrderGrantFirst(op) == IF op = "put" THEN <<"row", "user">> ELSE <<"user", "row">>

LockOrder(op) == <<"user", "row">>

\* What the handler does after the selector: the remaining columns of a PUT.
Continued(q) == IF q.global = "keep" THEN Idle ELSE [Called(q.op, q.bot, "update") EXCEPT !.global = q.global]

Create(r, b) ==
    /\ req[r] = Idle
    /\ req' = [req EXCEPT ![r] = [Called("create", b, "lock") EXCEPT !.left = LockOrder("create")]]
    /\ UNCHANGED <<grant, scope, none, excused, faults>>

\* The gate: a revoked grant is not found, nor is a paused one by a PUT without `active`.
Put(r, b, active, global) ==
    /\ req[r] = Idle
    /\ active # "keep" \/ global # "keep"
    /\ grant[b].state = "live"
    /\ active = "keep" => grant[b].active
    /\ LET q == [Called("put", b, "update") EXCEPT !.active = active, !.global = global]
       IN req' = [req EXCEPT ![r] =
                    CASE active = "on" -> [q EXCEPT !.at = "lock", !.left = LockOrder("put")]
                      [] active = "off" -> [q EXCEPT !.at = "pause"]
                      [] OTHER -> q]
    /\ UNCHANGED <<grant, scope, none, excused, faults>>

LockUser(r) ==
    /\ At(r, "lock") /\ req[r].left # <<>> /\ Head(req[r].left) = "user"
    /\ \A s \in Request \ {r} : req[s] # Idle => ~req[s].user
    /\ req' = [req EXCEPT ![r].user = TRUE, ![r].left = Tail(@)]
    /\ UNCHANGED <<grant, scope, none, excused, faults>>

\* Mutant of Takes: an activation does not look whether the grant was revoked.
TakesAnyhow(q) == q.op = "put" \/ ~grant[q.bot].active

\* Read again under the lock: a create takes a grant that is new or inactive, an
\* activation one that is not revoked.
Takes(q) == IF q.op = "create" THEN ~grant[q.bot].active ELSE grant[q.bot].state = "live"

LockGrant(r) ==
    LET q == req[r] IN
    /\ At(r, "lock") /\ q.left # <<>> /\ Head(q.left) = "row"
    /\ ~Locked(q.bot, r)
    /\ req' = [req EXCEPT ![r] =
                 IF Takes(q) THEN [q EXCEPT !.rows = @ \cup {q.bot}, !.left = Tail(@)]
                 ELSE Continued(q)]
    /\ UNCHANGED <<grant, scope, none, excused, faults>>

\* Mutant of Siblings: the scan finds the grants that are switched on only.
SiblingsInUse(r) == {o \in Bot \ {req[r].bot} : Usable(o) \/ Locked(o, r)}

\* The rows the locking scan visits: what is active, or is being written by another.
Siblings(r) == {o \in Bot \ {req[r].bot} : grant[o].active \/ Locked(o, r)}

LockSibling(r, o) ==
    /\ At(r, "lock") /\ req[r].left = <<>>
    /\ o \in Siblings(r) \ req[r].rows /\ ~Locked(o, r)
    /\ req' = [req EXCEPT ![r].rows = @ \cup {o}]
    /\ UNCHANGED <<grant, scope, none, excused, faults>>

\* Mutant of Outdated: an activation drops the entries of the demoted grants only.
OutdatedSiblings(q) == q.rows \ {q.bot}

\* A create leaves its own channels alone: the grant comes back switched off.
Outdated(q) == IF q.op = "create" THEN q.rows \ {q.bot} ELSE q.rows

Commit(r) ==
    LET q == req[r] IN
    /\ At(r, "lock") /\ q.left = <<>> /\ Siblings(r) \subseteq q.rows
    /\ grant' = [o \in Bot |->
                   IF o = q.bot
                   THEN [state |-> "live", active |-> TRUE,
                         global |-> q.op = "put" /\ grant[o].global]
                   ELSE IF o \in q.rows THEN [grant[o] EXCEPT !.active = FALSE, !.global = FALSE]
                   ELSE grant[o]]
    /\ req' = [req EXCEPT ![r] = [q EXCEPT !.at = "dropGrantor", !.over = Outdated(q),
                                           !.user = FALSE, !.rows = {}]]
    /\ UNCHANGED <<scope, none, excused, faults>>

-----------------------------------------------------------------------------
(* Statements of their own.  They wait for a row that a transaction has locked. *)

Pause(r) ==
    LET q == req[r] IN
    /\ At(r, "pause") /\ ~Locked(q.bot, r)
    /\ \/ /\ grant[q.bot].state = "live"
          /\ grant' = [grant EXCEPT ![q.bot].active = FALSE]
          /\ req' = [req EXCEPT ![r].at = "dropGrantor", ![r].over = {q.bot}]
       \/ /\ grant[q.bot].state = "revoked"
          /\ req' = [req EXCEPT ![r] = Continued(q)]
          /\ UNCHANGED grant
    /\ UNCHANGED <<scope, none, excused, faults>>

\* By id alone: the row may have been paused or revoked since the gate.
Update(r) ==
    LET q == req[r] IN
    /\ At(r, "update") /\ ~Locked(q.bot, r)
    /\ grant' = [grant EXCEPT ![q.bot].global = q.global = "on"]
    /\ req' = [req EXCEPT ![r].at = "dropGrantor", ![r].over = {q.bot}, ![r].global = "keep"]
    /\ UNCHANGED <<scope, none, excused, faults>>

Revoke(r, b) ==
    /\ req[r] = Idle /\ grant[b].state # "none"
    /\ req' = [req EXCEPT ![r] = Called("revoke", b, "revoke")]
    /\ UNCHANGED <<grant, scope, none, excused, faults>>

RevokeWrite(r) ==
    LET b == req[r].bot IN
    /\ At(r, "revoke") /\ ~Locked(b, r)
    /\ grant' = [grant EXCEPT ![b] = [state |-> "revoked", active |-> FALSE, global |-> FALSE]]
    /\ req' = [req EXCEPT ![r].at = "dropGrantor"]
    /\ UNCHANGED <<scope, none, excused, faults>>

AddScope(r, b) ==
    /\ req[r] = Idle /\ grant[b].state # "none"
    /\ req' = [req EXCEPT ![r] = Called("scope", b, "insert")]
    /\ UNCHANGED <<grant, scope, none, excused, faults>>

\* A duplicate is a conflict.  The foreign key locks the grant's row.
InsertScope(r) ==
    LET b == req[r].bot IN
    /\ At(r, "insert") /\ ~Locked(b, r)
    /\ scope' = scope \cup {b}
    /\ req' = [req EXCEPT ![r] = IF b \in scope THEN Idle ELSE [@ EXCEPT !.at = "dropGrantor"]]
    /\ UNCHANGED <<grant, none, excused, faults>>

RemoveScope(r, b) ==
    /\ req[r] = Idle /\ b \in scope
    /\ req' = [req EXCEPT ![r] = Called("unscope", b, "delete")]
    /\ UNCHANGED <<grant, scope, none, excused, faults>>

DeleteScope(r) ==
    /\ At(r, "delete")
    /\ scope' = scope \ {req[r].bot}
    /\ req' = [req EXCEPT ![r].at = "dropGrantor"]
    /\ UNCHANGED <<grant, none, excused, faults>>

-----------------------------------------------------------------------------
(* The entries. *)

DropGrantor(r) ==
    /\ At(r, "dropGrantor")
    /\ none' = none \ {"grantor"} /\ excused' = excused \ {"grantor"}
    /\ req' = [req EXCEPT ![r].at = "dropChannel"]
    /\ UNCHANGED <<grant, scope, faults>>

\* A change of scope names the channel; the others list the scopes their grants have.
Reaches(q) == q.op \in {"scope", "unscope"} \/ q.over \cap scope # {}

DropChannel(r) ==
    /\ At(r, "dropChannel")
    /\ \/ Reaches(req[r]) /\ none' = none \ {"channel"} /\ excused' = excused \ {"channel"}
       \/ ~Reaches(req[r]) /\ UNCHANGED <<none, excused>>
    /\ req' = [req EXCEPT ![r] = Continued(@)]
    /\ UNCHANGED <<grant, scope, faults>>

\* A reader goes on to the database unless the entry says there is nothing.
Check(r, b) ==
    /\ req[r] = Idle /\ "grantor" \notin none
    /\ req' = [req EXCEPT ![r] = Called("check", b, "row")]
    /\ UNCHANGED <<grant, scope, none, excused, faults>>

FanOut(r, b) ==
    /\ req[r] = Idle /\ "channel" \notin none
    /\ req' = [req EXCEPT ![r] = Called("fanout", b, "join")]
    /\ UNCHANGED <<grant, scope, none, excused, faults>>

\* A hit is written back; after a miss the grants of every bot are counted.
ReadRow(r) ==
    /\ At(r, "row")
    /\ req' = [req EXCEPT ![r].any = Usable(req[r].bot),
                          ![r].at = IF Usable(req[r].bot) THEN "fill" ELSE "count"]
    /\ UNCHANGED <<grant, scope, none, excused, faults>>

Query(r, stage, e) ==
    /\ At(r, stage)
    /\ req' = [req EXCEPT ![r].any = Truth(e), ![r].at = "fill"]
    /\ UNCHANGED <<grant, scope, none, excused, faults>>

Filled(q) == IF q.op = "check" THEN "grantor" ELSE "channel"

Fill(r) ==
    LET e == Filled(req[r]) IN
    /\ At(r, "fill")
    /\ none' = IF req[r].any THEN none \ {e} ELSE none \cup {e}
    /\ excused' = IF ~req[r].any /\ Truth(e) THEN excused \cup {e} ELSE excused \ {e}
    /\ req' = [req EXCEPT ![r] = Idle]
    /\ UNCHANGED <<grant, scope, faults>>

\* Thirty seconds have passed.
Expire(e) ==
    /\ e \in none
    /\ none' = none \ {e} /\ excused' = excused \ {e}
    /\ UNCHANGED <<grant, scope, req, faults>>

\* A statement is refused or the process dies: a transaction is rolled back, and what
\* was to be dropped is not.
Fail(r) ==
    /\ req[r] # Idle /\ faults < MaxFaults
    /\ faults' = faults + 1
    /\ excused' = excused \cup (IF At(r, "dropGrantor") THEN {"grantor"} ELSE {})
                         \cup (IF At(r, "dropGrantor") \/ At(r, "dropChannel") THEN {"channel"} ELSE {})
    /\ req' = [req EXCEPT ![r] = Idle]
    /\ UNCHANGED <<grant, scope, none>>

GrantNext ==
    \/ \E r \in Request, b \in Bot :
          Create(r, b) \/ Revoke(r, b) \/ AddScope(r, b) \/ RemoveScope(r, b) \/ Check(r, b)
            \/ FanOut(r, b) \/ LockSibling(r, b)
    \/ \E r \in Request, b \in Bot, active, global \in Switch : Put(r, b, active, global)
    \/ \E r \in Request :
          \/ LockUser(r) \/ LockGrant(r) \/ Commit(r)
          \/ Pause(r) \/ Update(r) \/ RevokeWrite(r) \/ InsertScope(r) \/ DeleteScope(r)
          \/ DropGrantor(r) \/ DropChannel(r) \/ ReadRow(r)
          \/ Query(r, "count", "grantor") \/ Query(r, "join", "channel") \/ Fill(r)
          \/ Fail(r)
    \/ \E e \in Entry : Expire(e)

GrantSpec == GrantInit /\ [][GrantNext]_grantVars

-----------------------------------------------------------------------------
(* Properties. *)

\* However creations, activations, pauses and revocations interleave, a user is
\* represented by one bot at most.
OneActiveGrant == \A b1, b2 \in Bot : grant[b1].active /\ grant[b2].active => b1 = b2

\* Whose lock a request is waiting for.
WaitsFor(r) ==
    LET q == req[r]
        holders(rows) == {s \in Request \ {r} : req[s] # Idle /\ req[s].rows \cap rows # {}}
    IN  IF q = Idle THEN {}
        ELSE IF q.at = "lock" /\ q.left = <<>> THEN holders(Siblings(r) \ q.rows)
        ELSE IF q.at = "lock" /\ Head(q.left) = "user"
             THEN {s \in Request \ {r} : req[s] # Idle /\ req[s].user}
        ELSE IF q.at \in {"lock", "pause", "update", "revoke", "insert"} THEN holders({q.bot})
        ELSE {}

\* No requests wait for each other's row locks in a circle (the comment on the order of
\* locks promises it).
NobodyWaitsInACircle ==
    ~ \E S \in SUBSET Request : S # {} /\ \A r \in S : WaitsFor(r) \cap S # {}

\* A revoked grant comes back only by a create: an activation whose gate passed before
\* the revocation does not revive it.
RevokedStaysRevoked ==
    [][\A b \in Bot :
          grant[b].state = "revoked" /\ grant'[b].state # "revoked" =>
              \E r \in Request : At(r, "lock") /\ req[r].op = "create" /\ req[r].bot = b
                                   /\ ~At(r, "lock")']_grantVars

\* An entry that says "nothing" was true when it was written, is being dropped, or is
\* one of those a reader wrote on an overtaken answer or a fault kept from being dropped:
\* no write leaves the entries it falsifies behind.
BeingDropped(e) ==
    \E r \in Request :
        \/ At(r, "dropGrantor") /\ (e = "channel" => Reaches(req[r]))
        \/ At(r, "dropChannel") /\ e = "channel" /\ Reaches(req[r])

FreshGrantIsSeen == \A e \in none \ excused : Truth(e) => BeingDropped(e)
=============================================================================
