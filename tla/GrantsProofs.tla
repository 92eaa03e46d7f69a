----------------------------- MODULE GrantsProofs -----------------------------
(* Theorems about Grants, for every set of bots and requests and every number of faults. *)
EXTENDS Grants, TLAPS

-----------------------------------------------------------------------------
(* Type correctness. *)

LEMMA InitType == GrantInit => GrantTypeOK
<1> SUFFICES ASSUME GrantInit PROVE GrantTypeOK
  OBVIOUS
<1>1. grant \in [Bot -> Grant]
  BY DEF GrantInit, Grant
<1>2. req \in [Request -> Call \cup {Idle}]
  BY DEF GrantInit
<1> QED BY <1>1, <1>2, GrantsAssumption DEF GrantInit, GrantTypeOK

LEMMA CallIsBusy == \A q \in Call : q # Idle
BY DEF Call, Idle

\* A request under way is a call.
LEMMA Busy == ASSUME GrantTypeOK, NEW r \in Request, req[r] # Idle PROVE req[r] \in Call
BY DEF GrantTypeOK

LEMMA CalledType ==
    ASSUME NEW op \in {"create", "put", "revoke", "scope", "unscope", "check", "fanout"},
           NEW b \in Bot, NEW at \in Stage
    PROVE  Called(op, b, at) \in Call
BY DEF Called, Call, Switch

LEMMA ContinuedType == ASSUME NEW q \in Call PROVE Continued(q) \in Call \cup {Idle}
<1>1. CASE q.global = "keep"
  BY <1>1 DEF Continued
<1>2. CASE q.global # "keep"
  <2>1. Called(q.op, q.bot, "update") \in Call
    BY CalledType DEF Call, Stage
  <2>2. [Called(q.op, q.bot, "update") EXCEPT !.global = q.global] \in Call
    BY <2>1 DEF Call
  <2> QED BY <1>2, <2>2 DEF Continued
<1> QED BY <1>1, <1>2

\* The locks are taken in one order.
LEMMA Locks ==
    /\ LockOrder("create") = <<"user", "row">> /\ LockOrder("put") = <<"user", "row">>
    /\ Head(<<"user", "row">>) = "user" /\ Tail(<<"user", "row">>) = <<"row">>
    /\ Head(<<"row">>) = "row" /\ Tail(<<"row">>) = <<>>
    /\ <<"user", "row">> # <<>> /\ <<"row">> # <<>> /\ <<"user", "row">> # <<"row">>
BY DEF LockOrder

LEMMA NextType == GrantTypeOK /\ [GrantNext]_grantVars => GrantTypeOK'
<1> SUFFICES ASSUME GrantTypeOK, [GrantNext]_grantVars PROVE GrantTypeOK'
  OBVIOUS
<1>0. CASE UNCHANGED grantVars
  BY <1>0 DEF grantVars, GrantTypeOK
\* A request is replaced, and nothing else.
<1>1. ASSUME NEW r \in Request, NEW q \in Call \cup {Idle}, req' = [req EXCEPT ![r] = q]
      PROVE  req' \in [Request -> Call \cup {Idle}]
  BY <1>1 DEF GrantTypeOK
<1>2. ASSUME NEW r \in Request, NEW b \in Bot, Create(r, b)
      PROVE  GrantTypeOK'
  <2> DEFINE q == [Called("create", b, "lock") EXCEPT !.left = LockOrder("create")]
  <2>1. q \in Call
    <3>1. Called("create", b, "lock") \in Call
      BY CalledType DEF Stage
    <3> QED BY <3>1, Locks DEF Call
  <2>2. req' = [req EXCEPT ![r] = q]
    BY <1>2 DEF Create
  <2> HIDE DEF q
  <2>3. req' \in [Request -> Call \cup {Idle}]
    BY <2>1, <2>2, <1>1
  <2> QED BY <1>2, <2>3 DEF Create, GrantTypeOK
<1>3. ASSUME NEW r \in Request, NEW b \in Bot, NEW active \in Switch, NEW global \in Switch,
             Put(r, b, active, global)
      PROVE  GrantTypeOK'
  <2> DEFINE q == [Called("put", b, "update") EXCEPT !.active = active, !.global = global]
  <2>1. q \in Call
    <3>1. Called("put", b, "update") \in Call
      BY CalledType DEF Stage
    <3> QED BY <3>1 DEF Call
  <2>2. [q EXCEPT !.at = "lock", !.left = LockOrder("put")] \in Call /\ [q EXCEPT !.at = "pause"] \in Call
    <3> HIDE DEF q
    <3> QED BY <2>1, Locks DEF Call, Stage
  <2>3. PICK p \in Call : req' = [req EXCEPT ![r] = p]
    <3>1. \/ req' = [req EXCEPT ![r] = [q EXCEPT !.at = "lock", !.left = LockOrder("put")]]
          \/ req' = [req EXCEPT ![r] = [q EXCEPT !.at = "pause"]]
          \/ req' = [req EXCEPT ![r] = q]
      BY <1>3 DEF Put
    <3> HIDE DEF q
    <3> QED BY <2>1, <2>2, <3>1
  <2>4. req' \in [Request -> Call \cup {Idle}]
    BY <2>3, <1>1
  <2> QED BY <1>3, <2>4 DEF Put, GrantTypeOK
<1>4. ASSUME NEW r \in Request, LockUser(r)
      PROVE  GrantTypeOK'
  <2>1. req[r] \in Call /\ req[r].left # <<>> /\ Head(req[r].left) = "user"
    BY <1>4, Busy DEF LockUser, At
  <2>2. Tail(req[r].left) \in {<<"row">>, <<>>}
    BY <2>1, Locks DEF Call
  <2> DEFINE q == [req[r] EXCEPT !.user = TRUE, !.left = Tail(req[r].left)]
  <2>3. q \in Call
    BY <2>1, <2>2 DEF Call
  <2>4. req' = [req EXCEPT ![r] = q]
    BY <1>4 DEF LockUser
  <2> HIDE DEF q
  <2>5. req' \in [Request -> Call \cup {Idle}]
    BY <2>3, <2>4, <1>1
  <2> QED BY <1>4, <2>5 DEF LockUser, GrantTypeOK
<1>5. ASSUME NEW r \in Request, LockGrant(r)
      PROVE  GrantTypeOK'
  <2>1. req[r] \in Call /\ req[r].left # <<>> /\ Head(req[r].left) = "row"
    BY <1>5, Busy DEF LockGrant, At
  <2>2. Tail(req[r].left) = <<>>
    BY <2>1, Locks DEF Call
  <2> DEFINE q == [req[r] EXCEPT !.rows = req[r].rows \cup {req[r].bot}, !.left = Tail(req[r].left)]
  <2>3. q \in Call
    BY <2>1, <2>2 DEF Call
  <2>4. req' = [req EXCEPT ![r] = q] \/ req' = [req EXCEPT ![r] = Continued(req[r])]
    BY <1>5 DEF LockGrant
  <2> HIDE DEF q
  <2>5. req' \in [Request -> Call \cup {Idle}]
    BY <2>1, <2>3, <2>4, <1>1, ContinuedType
  <2> QED BY <1>5, <2>5 DEF LockGrant, GrantTypeOK
<1>6. ASSUME NEW r \in Request, NEW o \in Bot, LockSibling(r, o)
      PROVE  GrantTypeOK'
  <2>1. req[r] \in Call
    BY <1>6, Busy DEF LockSibling, At
  <2>2. [req[r] EXCEPT !.rows = req[r].rows \cup {o}] \in Call
    BY <2>1 DEF Call
  <2>3. req' \in [Request -> Call \cup {Idle}]
    BY <1>6, <2>2 DEF LockSibling, GrantTypeOK
  <2> QED BY <1>6, <2>3 DEF LockSibling, GrantTypeOK
<1>7. ASSUME NEW r \in Request, Commit(r)
      PROVE  GrantTypeOK'
  <2>1. req[r] \in Call
    BY <1>7, Busy DEF Commit, At
  <2> DEFINE q == [req[r] EXCEPT !.at = "dropGrantor", !.over = Outdated(req[r]), !.user = FALSE, !.rows = {}]
  <2>2. Outdated(req[r]) \subseteq Bot
    BY <2>1 DEF Outdated, Call
  <2>3. q \in Call
    BY <2>1, <2>2 DEF Call, Stage
  <2>4. req' = [req EXCEPT ![r] = q]
    BY <1>7 DEF Commit
  <2> HIDE DEF q
  <2>5. req' \in [Request -> Call \cup {Idle}]
    BY <2>3, <2>4, <1>1
  <2>6. grant' \in [Bot -> Grant]
    <3>1. \A o \in Bot : grant'[o] \in Grant
      <4> SUFFICES ASSUME NEW o \in Bot PROVE grant'[o] \in Grant
        OBVIOUS
      <4>1. grant[o] \in Grant /\ [grant[o] EXCEPT !.active = FALSE, !.global = FALSE] \in Grant
        BY DEF GrantTypeOK, Grant
      <4>2. [state |-> "live", active |-> TRUE, global |-> req[r].op = "put" /\ grant[o].global] \in Grant
        BY DEF Grant
      <4> QED BY <1>7, <4>1, <4>2 DEF Commit
    <3> QED BY <1>7, <3>1 DEF Commit
  <2> QED BY <1>7, <2>5, <2>6 DEF Commit, GrantTypeOK
\* A write of a grant and the drops it leads to.
<1>8. ASSUME NEW r \in Request, Pause(r) \/ Update(r) \/ RevokeWrite(r) \/ InsertScope(r) \/ DeleteScope(r)
      PROVE  GrantTypeOK'
  <2>1. req[r] \in Call /\ req[r].bot \in Bot
    BY <1>8, Busy DEF Pause, Update, RevokeWrite, InsertScope, DeleteScope, At, Call
  <2>2. /\ [req[r] EXCEPT !.at = "dropGrantor"] \in Call
        /\ [req[r] EXCEPT !.at = "dropGrantor", !.over = {req[r].bot}] \in Call
        /\ [req[r] EXCEPT !.at = "dropGrantor", !.over = {req[r].bot}, !.global = "keep"] \in Call
    BY <2>1 DEF Call, Stage, Switch
  <2>3. req' \in [Request -> Call \cup {Idle}]
    <3>1. CASE Pause(r)
      BY <2>1, <2>2, <3>1, ContinuedType DEF Pause, GrantTypeOK
    <3>2. CASE Update(r)
      BY <2>2, <3>2 DEF Update, GrantTypeOK
    <3>3. CASE RevokeWrite(r)
      BY <2>2, <3>3 DEF RevokeWrite, GrantTypeOK
    <3>4. CASE InsertScope(r)
      BY <2>2, <3>4 DEF InsertScope, GrantTypeOK
    <3>5. CASE DeleteScope(r)
      BY <2>2, <3>5 DEF DeleteScope, GrantTypeOK
    <3> QED BY <1>8, <3>1, <3>2, <3>3, <3>4, <3>5
  <2>4. grant' \in [Bot -> Grant]
    <3>1. CASE Pause(r)
      <4>1. [grant[req[r].bot] EXCEPT !.active = FALSE] \in Grant
        BY <2>1 DEF GrantTypeOK, Grant
      <4> QED BY <3>1, <4>1 DEF Pause, GrantTypeOK
    <3>2. CASE Update(r)
      <4>1. grant[req[r].bot] \in Grant
        BY <2>1 DEF GrantTypeOK
      <4>2. [grant[req[r].bot] EXCEPT !.global = (req[r].global = "on")] \in Grant
        BY <4>1 DEF Grant
      <4>3. grant' = [grant EXCEPT ![req[r].bot] = [grant[req[r].bot] EXCEPT !.global = (req[r].global = "on")]]
        BY <3>2 DEF Update
      <4> QED BY <4>2, <4>3 DEF GrantTypeOK
    <3>3. CASE RevokeWrite(r)
      <4>1. [state |-> "revoked", active |-> FALSE, global |-> FALSE] \in Grant
        BY DEF Grant
      <4> QED BY <3>3, <4>1 DEF RevokeWrite, GrantTypeOK
    <3>4. CASE InsertScope(r) \/ DeleteScope(r)
      BY <3>4 DEF InsertScope, DeleteScope, GrantTypeOK
    <3> QED BY <1>8, <3>1, <3>2, <3>3, <3>4
  <2>5. scope' \subseteq Bot /\ UNCHANGED <<none, excused, faults>>
    BY <1>8, <2>1 DEF Pause, Update, RevokeWrite, InsertScope, DeleteScope, GrantTypeOK
  <2> QED BY <2>3, <2>4, <2>5 DEF GrantTypeOK
<1>9. ASSUME NEW r \in Request, NEW b \in Bot,
             Revoke(r, b) \/ AddScope(r, b) \/ RemoveScope(r, b) \/ Check(r, b) \/ FanOut(r, b)
      PROVE  GrantTypeOK'
  <2>1. PICK q \in Call : req' = [req EXCEPT ![r] = q]
    BY <1>9, CalledType DEF Revoke, AddScope, RemoveScope, Check, FanOut, Stage
  <2>2. req' \in [Request -> Call \cup {Idle}]
    BY <2>1, <1>1
  <2> QED BY <1>9, <2>2 DEF Revoke, AddScope, RemoveScope, Check, FanOut, GrantTypeOK
<1>10. ASSUME NEW r \in Request, DropGrantor(r) \/ DropChannel(r)
       PROVE  GrantTypeOK'
  <2>1. req[r] \in Call
    BY <1>10, Busy DEF DropGrantor, DropChannel, At
  <2>2. [req[r] EXCEPT !.at = "dropChannel"] \in Call
    BY <2>1 DEF Call, Stage
  <2>3. req' \in [Request -> Call \cup {Idle}]
    BY <1>10, <2>1, <2>2, ContinuedType DEF DropGrantor, DropChannel, GrantTypeOK
  <2> QED BY <1>10, <2>3 DEF DropGrantor, DropChannel, GrantTypeOK
<1>11. ASSUME NEW r \in Request, ReadRow(r)
       PROVE  GrantTypeOK'
  <2>1. req[r] \in Call
    BY <1>11, Busy DEF ReadRow, At
  <2>2. Usable(req[r].bot) \in BOOLEAN
    BY DEF Usable
  <2>3. [req[r] EXCEPT !.any = Usable(req[r].bot),
                       !.at = IF Usable(req[r].bot) THEN "fill" ELSE "count"] \in Call
    BY <2>1, <2>2 DEF Call, Stage
  <2>4. req' \in [Request -> Call \cup {Idle}]
    BY <1>11, <2>3 DEF ReadRow, GrantTypeOK
  <2> QED BY <1>11, <2>4 DEF ReadRow, GrantTypeOK
<1>12. ASSUME NEW r \in Request, NEW e \in Entry, NEW stage, Query(r, stage, e)
       PROVE  GrantTypeOK'
  <2>1. req[r] \in Call
    BY <1>12, Busy DEF Query, At
  <2>2. Truth(e) \in BOOLEAN
    BY DEF Truth
  <2>3. [req[r] EXCEPT !.any = Truth(e), !.at = "fill"] \in Call
    BY <2>1, <2>2 DEF Call, Stage
  <2>4. req' \in [Request -> Call \cup {Idle}]
    BY <1>12, <2>3 DEF Query, GrantTypeOK
  <2> QED BY <1>12, <2>4 DEF Query, GrantTypeOK
<1>13. ASSUME NEW r \in Request, Fill(r)
       PROVE  GrantTypeOK'
  BY <1>13 DEF Fill, Filled, Entry, GrantTypeOK
<1>14. ASSUME NEW e \in Entry, Expire(e)
       PROVE  GrantTypeOK'
  BY <1>14 DEF Expire, GrantTypeOK
<1>15. ASSUME NEW r \in Request, Fail(r)
       PROVE  GrantTypeOK'
  BY <1>15, GrantsAssumption DEF Fail, Entry, GrantTypeOK
<1> QED
  BY <1>0, <1>2, <1>3, <1>4, <1>5, <1>6, <1>7, <1>8, <1>9, <1>10, <1>11, <1>12, <1>13, <1>14, <1>15
     DEF GrantNext, Entry

\* Every reachable state is well typed: a request holds locks of grants of this user, and
\* drops entries of its grants only.
THEOREM TypeCorrect == GrantSpec => []GrantTypeOK
BY InitType, NextType, PTL DEF GrantSpec

-----------------------------------------------------------------------------
(* Locks. *)

\* A call holds locks inside its transaction only, the user's before any row; once it holds
\* its grant's row, what it read of the row stays true.
Lawful(q) ==
    /\ q.at # "lock" => ~q.user /\ q.rows = {}
    /\ q.at = "lock" => q.op \in {"create", "put"}
    /\ q.at = "lock" /\ q.left = <<"user", "row">> => ~q.user /\ q.rows = {}
    /\ q.at = "lock" /\ q.left = <<"row">> => q.user /\ q.rows = {}
    /\ q.at = "lock" /\ q.left = <<>> => q.user /\ q.bot \in q.rows
    /\ q.at = "lock" /\ q.left = <<>> /\ q.op = "put" => grant[q.bot].state = "live"

LockInv ==
    /\ \A r \in Request : req[r] # Idle => Lawful(req[r])
    /\ \A r, s \in Request : req[r] # Idle /\ req[r].user /\ req[s] # Idle /\ req[s].user => r = s

LEMMA InitLocks == GrantInit => LockInv
BY DEF GrantInit, LockInv

\* A request that is replaced by one that is lawful and takes no user's lock, while the rows
\* that others have locked keep their state.
LEMMA LocksKept ==
    ASSUME GrantTypeOK, LockInv, NEW r \in Request, NEW q \in Call \cup {Idle},
           req' = [req EXCEPT ![r] = q],
           q # Idle => (Lawful(req[r]))' /\ (q.user => req[r] # Idle /\ req[r].user),
           \A s \in Request \ {r} : req[s] # Idle =>
               \A b \in req[s].rows : grant[b].state = "live" => grant'[b].state = "live"
    PROVE  LockInv'
<1>1. req'[r] = q /\ \A s \in Request \ {r} : req'[s] = req[s]
  BY DEF GrantTypeOK
<1>2. \A s \in Request \ {r} : req[s] # Idle => Lawful(req[s])'
  <2> SUFFICES ASSUME NEW s \in Request \ {r}, req[s] # Idle PROVE Lawful(req[s])'
    OBVIOUS
  <2>1. Lawful(req[s]) /\ req'[s] = req[s]
    BY <1>1 DEF LockInv
  <2> QED BY <2>1 DEF Lawful
<1>3. \A s \in Request : req'[s] # Idle => Lawful(req[s])'
  BY <1>1, <1>2
<1>4. \A s, t \in Request : req'[s] # Idle /\ req'[s].user /\ req'[t] # Idle /\ req'[t].user => s = t
  BY <1>1 DEF LockInv
<1> QED BY <1>3, <1>4 DEF LockInv

\* A call that holds nothing and is at no lock, and no request at all, are lawful.
LEMMA FreeKept ==
    ASSUME GrantTypeOK, LockInv, NEW r \in Request, NEW q \in Call \cup {Idle},
           req' = [req EXCEPT ![r] = q],
           q # Idle => q.at # "lock" /\ ~q.user /\ q.rows = {},
           \A s \in Request \ {r} : req[s] # Idle =>
               \A b \in req[s].rows : grant[b].state = "live" => grant'[b].state = "live"
    PROVE  LockInv'
<1>1. req'[r] = q
  BY DEF GrantTypeOK
<1>2. q # Idle => Lawful(req[r])'
  BY <1>1 DEF Lawful
<1> QED BY <1>2, LocksKept

\* Requests at no lock have taken none.
Free(q) == q # Idle => q.at # "lock" /\ ~q.user /\ q.rows = {}

LEMMA ContinuedFree == ASSUME NEW q \in Call PROVE Free(Continued(q))
BY DEF Free, Continued, Called

LEMMA NextLocks == GrantTypeOK /\ LockInv /\ [GrantNext]_grantVars => LockInv'
<1> SUFFICES ASSUME GrantTypeOK, LockInv, [GrantNext]_grantVars PROVE LockInv'
  OBVIOUS
<1>0. CASE UNCHANGED <<grant, req>>
  BY <1>0 DEF LockInv, Lawful
\* A request that is at no lock, before and after the step.
<1>1. ASSUME NEW r \in Request, NEW q \in Call \cup {Idle}, Free(q), req' = [req EXCEPT ![r] = q],
             \A b \in Bot : grant[b].state = "live" => grant'[b].state = "live"
      PROVE  LockInv'
  BY <1>1, FreeKept DEF Free, GrantTypeOK, Call
<1>2. ASSUME NEW r \in Request, NEW b \in Bot, Create(r, b)
      PROVE  LockInv'
  <2> DEFINE q == [Called("create", b, "lock") EXCEPT !.left = LockOrder("create")]
  <2>1. q \in Call /\ q.at = "lock" /\ q.op = "create" /\ q.left = <<"user", "row">> /\ ~q.user /\ q.rows = {}
    BY Locks DEF Called, Call, Switch, Stage
  <2>2. req' = [req EXCEPT ![r] = q] /\ grant' = grant
    BY <1>2 DEF Create
  <2> HIDE DEF q
  <2>3. req'[r] = q
    BY <2>2 DEF GrantTypeOK
  <2>4. Lawful(req[r])'
    BY <2>1, <2>3, Locks DEF Lawful
  <2> QED BY <2>1, <2>2, <2>4, LocksKept
<1>3. ASSUME NEW r \in Request, NEW b \in Bot, NEW active \in Switch, NEW global \in Switch,
             Put(r, b, active, global)
      PROVE  LockInv'
  <2> DEFINE q == [Called("put", b, "update") EXCEPT !.active = active, !.global = global]
             p == [q EXCEPT !.at = "lock", !.left = LockOrder("put")]
  <2>1. q \in Call /\ q.op = "put" /\ q.at = "update" /\ ~q.user /\ q.rows = {}
    BY DEF Called, Call, Stage
  <2>2. \/ req' = [req EXCEPT ![r] = p]
        \/ req' = [req EXCEPT ![r] = [q EXCEPT !.at = "pause"]]
        \/ req' = [req EXCEPT ![r] = q]
    BY <1>3 DEF Put
  <2>3. grant' = grant
    BY <1>3 DEF Put
  <2> HIDE DEF q
  <2>4. p \in Call /\ p.at = "lock" /\ p.op = "put" /\ p.left = <<"user", "row">> /\ ~p.user /\ p.rows = {}
    BY <2>1, Locks DEF Call, Stage
  <2>5. [q EXCEPT !.at = "pause"] \in Call /\ Free([q EXCEPT !.at = "pause"]) /\ Free(q)
    BY <2>1 DEF Call, Stage, Free
  <2> HIDE DEF p
  <2>6. CASE req' = [req EXCEPT ![r] = p]
    <3>1. req'[r] = p
      BY <2>6 DEF GrantTypeOK
    <3>2. Lawful(req[r])'
      BY <2>4, <3>1, Locks DEF Lawful
    <3> QED BY <2>3, <2>4, <2>6, <3>2, LocksKept
  <2> QED BY <1>1, <2>1, <2>2, <2>3, <2>5, <2>6
<1>4. ASSUME NEW r \in Request, LockUser(r)
      PROVE  LockInv'
  <2>1. req[r] \in Call /\ req[r] # Idle /\ req[r].at = "lock" /\ req[r].left # <<>> /\ Head(req[r].left) = "user"
    BY <1>4, Busy DEF LockUser, At
  <2>2. req[r].left = <<"user", "row">>
    BY <2>1, Locks DEF Call
  <2>3. Lawful(req[r])
    BY <2>1 DEF LockInv
  <2> DEFINE q == [req[r] EXCEPT !.user = TRUE, !.left = Tail(req[r].left)]
  <2>4. /\ q.at = "lock" /\ q.left = <<"row">> /\ q.user /\ q.rows = {}
        /\ q.op \in {"create", "put"}
    BY <2>1, <2>2, <2>3, Locks DEF Call, Lawful
  <2>5. req' = [req EXCEPT ![r] = q] /\ grant' = grant
    BY <1>4 DEF LockUser
  <2>6. \A s \in Request \ {r} : req[s] # Idle => ~req[s].user
    BY <1>4 DEF LockUser
  <2> HIDE DEF q
  <2>7. req'[r] = q /\ \A s \in Request \ {r} : req'[s] = req[s]
    BY <2>5 DEF GrantTypeOK
  <2>8. Lawful(req[r])'
    BY <2>4, <2>7, Locks DEF Lawful
  <2>9. \A s \in Request : req'[s] # Idle => Lawful(req[s])'
    BY <2>5, <2>7, <2>8 DEF LockInv, Lawful
  <2>10. \A s, t \in Request : req'[s] # Idle /\ req'[s].user /\ req'[t] # Idle /\ req'[t].user => s = t
    BY <2>6, <2>7 DEF LockInv
  <2> QED BY <2>9, <2>10 DEF LockInv
<1>5. ASSUME NEW r \in Request, LockGrant(r)
      PROVE  LockInv'
  <2>1. req[r] \in Call /\ req[r] # Idle /\ req[r].at = "lock" /\ req[r].left # <<>> /\ Head(req[r].left) = "row"
    BY <1>5, Busy DEF LockGrant, At
  <2>2. req[r].left = <<"row">> /\ grant' = grant
    BY <1>5, <2>1, Locks DEF Call, LockGrant
  <2>3. Lawful(req[r])
    BY <2>1 DEF LockInv
  <2>4. CASE Takes(req[r])
    <3> DEFINE q == [req[r] EXCEPT !.rows = req[r].rows \cup {req[r].bot}, !.left = Tail(req[r].left)]
    <3>1. /\ q \in Call /\ q.at = "lock" /\ q.left = <<>> /\ (q.user <=> req[r].user) /\ req[r].user
          /\ q.bot = req[r].bot /\ q.bot \in q.rows /\ q.op = req[r].op /\ q.op \in {"create", "put"}
      BY <2>1, <2>2, <2>3, Locks DEF Call, Lawful
    <3>2. req' = [req EXCEPT ![r] = q]
      BY <1>5, <2>4 DEF LockGrant
    <3>3. q.op = "put" => grant[q.bot].state = "live"
      BY <2>4, <3>1 DEF Takes
    <3> HIDE DEF q
    <3>4. req'[r] = q
      BY <3>2 DEF GrantTypeOK
    <3>5. Lawful(req[r])'
      BY <2>2, <3>1, <3>3, <3>4, Locks DEF Lawful
    <3> QED BY <2>1, <2>2, <3>1, <3>2, <3>5, LocksKept
  <2>5. CASE ~Takes(req[r])
    <3>1. req' = [req EXCEPT ![r] = Continued(req[r])]
      BY <1>5, <2>5 DEF LockGrant
    <3> QED BY <1>1, <2>1, <2>2, <3>1, ContinuedType, ContinuedFree
  <2> QED BY <2>4, <2>5
<1>6. ASSUME NEW r \in Request, NEW o \in Bot, LockSibling(r, o)
      PROVE  LockInv'
  <2>1. req[r] \in Call /\ req[r] # Idle /\ req[r].at = "lock" /\ req[r].left = <<>> /\ grant' = grant
    BY <1>6, Busy DEF LockSibling, At
  <2>2. Lawful(req[r])
    BY <2>1 DEF LockInv
  <2> DEFINE q == [req[r] EXCEPT !.rows = req[r].rows \cup {o}]
  <2>3. /\ q \in Call /\ q.at = "lock" /\ q.left = <<>> /\ (q.user <=> req[r].user) /\ q.op = req[r].op
        /\ q.bot = req[r].bot /\ req[r].rows \subseteq q.rows
    BY <2>1 DEF Call
  <2>4. req' = [req EXCEPT ![r] = q]
    BY <1>6 DEF LockSibling
  <2> HIDE DEF q
  <2>5. req'[r] = q
    BY <2>4 DEF GrantTypeOK
  <2>6. Lawful(req[r])'
    BY <2>1, <2>2, <2>3, <2>5, Locks DEF Lawful
  <2> QED BY <2>1, <2>3, <2>4, <2>6, LocksKept
<1>7. ASSUME NEW r \in Request, Commit(r)
      PROVE  LockInv'
  <2>1. req[r] \in Call
    BY <1>7, Busy DEF Commit, At
  <2> DEFINE q == [req[r] EXCEPT !.at = "dropGrantor", !.over = Outdated(req[r]), !.user = FALSE, !.rows = {}]
  <2>2. Outdated(req[r]) \subseteq Bot
    BY <2>1 DEF Outdated, Call
  <2>3. q \in Call /\ Free(q)
    BY <2>1, <2>2 DEF Call, Stage, Free
  <2>4. req' = [req EXCEPT ![r] = q]
    BY <1>7 DEF Commit
  <2>5. \A b \in Bot : grant[b].state = "live" => grant'[b].state = "live"
    BY <1>7 DEF Commit, GrantTypeOK, Grant
  <2> HIDE DEF q
  <2> QED BY <1>1, <2>3, <2>4, <2>5
\* A statement waits for the row's lock: a revocation spares the rows that others hold.
<1>8. ASSUME NEW r \in Request, RevokeWrite(r)
      PROVE  LockInv'
  <2>1. req[r] \in Call /\ req[r] # Idle /\ req[r].at = "revoke"
    BY <1>8, Busy DEF RevokeWrite, At
  <2>2. Lawful(req[r])
    BY <2>1 DEF LockInv
  <2> DEFINE q == [req[r] EXCEPT !.at = "dropGrantor"]
  <2>3. q \in Call /\ q.at # "lock" /\ ~q.user /\ q.rows = {}
    BY <2>1, <2>2 DEF Call, Stage, Lawful
  <2>4. req' = [req EXCEPT ![r] = q]
    BY <1>8 DEF RevokeWrite
  <2>5. ASSUME NEW s \in Request \ {r}, req[s] # Idle, NEW b \in req[s].rows, grant[b].state = "live"
        PROVE  grant'[b].state = "live"
    <3>1. b \in Bot /\ b # req[r].bot
      BY <1>8, <2>5, Busy DEF RevokeWrite, Locked, Call
    <3> QED BY <1>8, <2>5, <3>1 DEF RevokeWrite, GrantTypeOK
  <2> HIDE DEF q
  <2> QED BY <2>3, <2>4, <2>5, FreeKept
<1>9. ASSUME NEW r \in Request, Pause(r) \/ Update(r) \/ InsertScope(r) \/ DeleteScope(r)
      PROVE  LockInv'
  <2>1. req[r] \in Call /\ req[r] # Idle /\ req[r].at # "lock"
    BY <1>9, Busy DEF Pause, Update, InsertScope, DeleteScope, At
  <2>2. Lawful(req[r])
    BY <2>1 DEF LockInv
  <2>3. /\ [req[r] EXCEPT !.at = "dropGrantor"] \in Call
        /\ [req[r] EXCEPT !.at = "dropGrantor", !.over = {req[r].bot}] \in Call
        /\ [req[r] EXCEPT !.at = "dropGrantor", !.over = {req[r].bot}, !.global = "keep"] \in Call
    BY <2>1 DEF Call, Stage, Switch
  <2>4. /\ Free([req[r] EXCEPT !.at = "dropGrantor"])
        /\ Free([req[r] EXCEPT !.at = "dropGrantor", !.over = {req[r].bot}])
        /\ Free([req[r] EXCEPT !.at = "dropGrantor", !.over = {req[r].bot}, !.global = "keep"])
    BY <2>1, <2>2 DEF Call, Lawful, Free
  <2>5. Free(Idle)
    BY DEF Free
  <2>6. \A b \in Bot : grant'[b].state = grant[b].state
    BY <1>9, <2>1 DEF Pause, Update, InsertScope, DeleteScope, GrantTypeOK, Grant, Call
  <2>7. CASE Pause(r)
    BY <1>1, <2>1, <2>3, <2>4, <2>6, <2>7, ContinuedType, ContinuedFree DEF Pause
  <2>8. CASE Update(r)
    BY <1>1, <2>3, <2>4, <2>6, <2>8 DEF Update
  <2>9. CASE InsertScope(r)
    BY <1>1, <2>3, <2>4, <2>5, <2>6, <2>9 DEF InsertScope
  <2>10. CASE DeleteScope(r)
    BY <1>1, <2>3, <2>4, <2>6, <2>10 DEF DeleteScope
  <2> QED BY <1>9, <2>7, <2>8, <2>9, <2>10
<1>10. ASSUME NEW r \in Request, NEW b \in Bot,
              Revoke(r, b) \/ AddScope(r, b) \/ RemoveScope(r, b) \/ Check(r, b) \/ FanOut(r, b)
       PROVE  LockInv'
  <2>1. PICK op \in {"revoke", "scope", "unscope", "check", "fanout"},
             at \in {"revoke", "insert", "delete", "row", "join"} :
           req' = [req EXCEPT ![r] = Called(op, b, at)]
    BY <1>10 DEF Revoke, AddScope, RemoveScope, Check, FanOut
  <2>2. Called(op, b, at) \in Call
    BY CalledType DEF Stage
  <2>3. Free(Called(op, b, at))
    BY DEF Free, Called
  <2>4. grant' = grant
    BY <1>10 DEF Revoke, AddScope, RemoveScope, Check, FanOut
  <2> QED BY <1>1, <2>1, <2>2, <2>3, <2>4
<1>11. ASSUME NEW r \in Request, DropGrantor(r) \/ DropChannel(r)
       PROVE  LockInv'
  <2>1. req[r] \in Call /\ req[r] # Idle /\ req[r].at # "lock" /\ grant' = grant
    BY <1>11, Busy DEF DropGrantor, DropChannel, At
  <2>2. Lawful(req[r])
    BY <2>1 DEF LockInv
  <2>3. [req[r] EXCEPT !.at = "dropChannel"] \in Call /\ Free([req[r] EXCEPT !.at = "dropChannel"])
    BY <2>1, <2>2 DEF Call, Stage, Lawful, Free
  <2> QED BY <1>1, <1>11, <2>1, <2>3, ContinuedType, ContinuedFree DEF DropGrantor, DropChannel
<1>12. ASSUME NEW r \in Request, NEW e \in Entry, NEW stage, stage # "lock", ReadRow(r) \/ Query(r, stage, e)
       PROVE  LockInv'
  <2>1. req[r] \in Call /\ req[r] # Idle /\ req[r].at # "lock" /\ grant' = grant
    BY <1>12, Busy DEF ReadRow, Query, At
  <2>2. Lawful(req[r])
    BY <2>1 DEF LockInv
  <2>3. ASSUME NEW any \in BOOLEAN, NEW at \in {"fill", "count"}
        PROVE  [req[r] EXCEPT !.any = any, !.at = at] \in Call /\ Free([req[r] EXCEPT !.any = any, !.at = at])
    BY <2>1, <2>2 DEF Call, Stage, Lawful, Free
  <2>4. Usable(req[r].bot) \in BOOLEAN /\ Truth(e) \in BOOLEAN
    BY DEF Usable, Truth
  <2>5. PICK any \in BOOLEAN, at \in {"fill", "count"} : req' = [req EXCEPT ![r] = [req[r] EXCEPT !.any = any, !.at = at]]
    BY <1>12, <2>4 DEF ReadRow, Query
  <2> QED BY <1>1, <2>1, <2>3, <2>5
<1>13. ASSUME NEW r \in Request, Fill(r) \/ Fail(r)
       PROVE  LockInv'
  <2>1. req' = [req EXCEPT ![r] = Idle] /\ grant' = grant /\ Free(Idle)
    BY <1>13 DEF Fill, Fail, Free
  <2> QED BY <1>1, <2>1
<1>14. CASE (\E e \in Entry : Expire(e)) \/ UNCHANGED grantVars
  BY <1>0, <1>14 DEF Expire, grantVars
<1> QED
  BY <1>2, <1>3, <1>4, <1>5, <1>6, <1>7, <1>8, <1>9, <1>10, <1>11, <1>12, <1>13, <1>14 DEF GrantNext, Entry

-----------------------------------------------------------------------------
(* Nobody waits in a circle. *)

\* Whoever waits, waits for the holder of the user's lock, and that one waits for nobody.
LEMMA WaitsForHolder ==
    ASSUME GrantTypeOK, LockInv, NEW r \in Request, NEW s \in WaitsFor(r)
    PROVE  /\ s \in Request /\ s # r /\ req[r] # Idle /\ ~req[r].user
           /\ req[s] # Idle /\ req[s].user
<1>1. req[r] # Idle
  BY DEF WaitsFor
<1>2. req[r] \in Call /\ Lawful(req[r])
  BY <1>1, Busy DEF LockInv
<1>3. ASSUME NEW t \in Request, req[t] # Idle, req[t].rows # {}
      PROVE  req[t].user
  <2>1. Lawful(req[t]) /\ req[t] \in Call
    BY <1>3, Busy DEF LockInv
  <2> QED BY <1>3, <2>1 DEF Lawful, Call
<1>4. s \in Request /\ s # r /\ req[s] # Idle /\ req[s].user
  BY <1>1, <1>3 DEF WaitsFor
<1>5. ~req[r].user
  <2>1. CASE req[r].user
    BY <1>1, <1>4, <2>1 DEF LockInv
  <2> QED BY <2>1
<1> QED BY <1>1, <1>4, <1>5

LEMMA NoCircle == GrantTypeOK /\ LockInv => NobodyWaitsInACircle
<1> SUFFICES ASSUME GrantTypeOK, LockInv,
                    NEW S \in SUBSET Request, S # {}, \A r \in S : WaitsFor(r) \cap S # {}
             PROVE  FALSE
  BY DEF NobodyWaitsInACircle
<1>1. PICK r \in S : TRUE
  OBVIOUS
<1>2. PICK s \in S : s \in WaitsFor(r)
  BY <1>1
<1>3. req[s].user
  BY <1>2, WaitsForHolder
<1>4. PICK t \in S : t \in WaitsFor(s)
  BY <1>2
<1> QED BY <1>3, <1>4, WaitsForHolder

\* The order of the locks, the user's row first, leaves no circle of requests that wait for
\* each other, however many create, activate and write grants at a time.
THEOREM LocksAreOrdered == GrantSpec => []NobodyWaitsInACircle
<1>1. GrantTypeOK /\ LockInv /\ [GrantNext]_grantVars => GrantTypeOK' /\ LockInv'
  BY NextType, NextLocks
<1> QED BY InitType, InitLocks, <1>1, NoCircle, PTL DEF GrantSpec

-----------------------------------------------------------------------------
(* One grant is active. *)

LEMMA NextOneActive == GrantTypeOK /\ LockInv /\ OneActiveGrant /\ [GrantNext]_grantVars => OneActiveGrant'
<1> SUFFICES ASSUME GrantTypeOK, LockInv, OneActiveGrant, [GrantNext]_grantVars PROVE OneActiveGrant'
  OBVIOUS
<1>1. CASE \A b \in Bot : grant'[b].active => grant[b].active
  BY <1>1 DEF OneActiveGrant
<1>2. ASSUME NEW r \in Request, Commit(r)
      PROVE  OneActiveGrant'
  <2>1. ASSUME NEW o \in Bot, o # req[r].bot
        PROVE  ~grant'[o].active
    <3>1. CASE o \in req[r].rows
      BY <1>2, <2>1, <3>1 DEF Commit, GrantTypeOK, Grant
    <3>2. CASE o \notin req[r].rows
      <4>1. ~grant[o].active
        BY <1>2, <2>1, <3>2 DEF Commit, Siblings
      <4> QED BY <1>2, <2>1, <3>2, <4>1 DEF Commit
    <3> QED BY <3>1, <3>2
  <2> QED BY <2>1 DEF OneActiveGrant
<1>3. ASSUME NEW r \in Request, Pause(r) \/ Update(r) \/ RevokeWrite(r)
      PROVE  OneActiveGrant'
  BY <1>1, <1>3 DEF Pause, Update, RevokeWrite, GrantTypeOK, Grant
<1>4. CASE UNCHANGED grant
  BY <1>1, <1>4
<1>5. ASSUME NEW r \in Request, NEW b \in Bot,
             Create(r, b) \/ Revoke(r, b) \/ AddScope(r, b) \/ RemoveScope(r, b) \/ Check(r, b)
               \/ FanOut(r, b) \/ LockSibling(r, b)
      PROVE  UNCHANGED grant
  BY <1>5 DEF Create, Revoke, AddScope, RemoveScope, Check, FanOut, LockSibling
<1>6. ASSUME NEW r \in Request,
             LockUser(r) \/ LockGrant(r) \/ InsertScope(r) \/ DeleteScope(r) \/ DropGrantor(r)
               \/ DropChannel(r) \/ ReadRow(r) \/ Fill(r) \/ Fail(r)
      PROVE  UNCHANGED grant
  BY <1>6 DEF LockUser, LockGrant, InsertScope, DeleteScope, DropGrantor, DropChannel, ReadRow, Fill, Fail
<1>7. ASSUME NEW r \in Request,
             Query(r, "count", "grantor") \/ Query(r, "join", "channel")
      PROVE  UNCHANGED grant
  BY <1>7 DEF Query
<1>8. ASSUME NEW r \in Request, NEW b \in Bot, NEW active \in Switch, NEW global \in Switch,
             Put(r, b, active, global)
      PROVE  UNCHANGED grant
  BY <1>8 DEF Put
<1>9. CASE (\E e \in Entry : Expire(e)) \/ UNCHANGED grantVars
  BY <1>4, <1>9 DEF Expire, grantVars
<1> QED BY <1>2, <1>3, <1>4, <1>5, <1>6, <1>7, <1>8, <1>9 DEF GrantNext

\* One bot at most represents the user, whatever order creations, activations, pauses and
\* revocations of whichever bots take their locks in.
THEOREM OneRepresents == GrantSpec => []OneActiveGrant
<1>1. GrantInit => OneActiveGrant
  BY DEF GrantInit, OneActiveGrant
<1>2. GrantTypeOK /\ LockInv /\ OneActiveGrant /\ [GrantNext]_grantVars
          => GrantTypeOK' /\ LockInv' /\ OneActiveGrant'
  BY NextType, NextLocks, NextOneActive
<1> QED BY InitType, InitLocks, <1>1, <1>2, PTL DEF GrantSpec

-----------------------------------------------------------------------------
(* A revocation stands. *)

\* The step that brings a revoked grant back is the commit of its creation.
LEMMA RevivedByCreate ==
    ASSUME GrantTypeOK, LockInv, [GrantNext]_grantVars,
           NEW b \in Bot, grant[b].state = "revoked", grant'[b].state # "revoked"
    PROVE  \E r \in Request : At(r, "lock") /\ req[r].op = "create" /\ req[r].bot = b /\ ~At(r, "lock")'
<1>1. ASSUME NEW r \in Request, Commit(r)
      PROVE  At(r, "lock") /\ req[r].op = "create" /\ req[r].bot = b /\ ~At(r, "lock")'
  <2>1. req[r] \in Call /\ req[r] # Idle /\ req[r].at = "lock" /\ req[r].left = <<>> /\ Lawful(req[r])
    BY <1>1, Busy DEF Commit, At, LockInv
  <2>2. req[r].bot = b
    BY <1>1 DEF Commit, GrantTypeOK, Grant
  <2>3. req[r].op = "create"
    BY <2>1, <2>2 DEF Lawful
  <2>4. req'[r].at = "dropGrantor"
    BY <1>1, <2>1 DEF Commit, GrantTypeOK, Call
  <2> QED BY <2>1, <2>2, <2>3, <2>4 DEF At
<1>2. ASSUME NEW r \in Request, Pause(r) \/ Update(r) \/ RevokeWrite(r)
      PROVE  FALSE
  BY <1>2 DEF Pause, Update, RevokeWrite, GrantTypeOK, Grant
<1>3. grant' # grant
  OBVIOUS
<1>4. ASSUME NEW r \in Request, NEW o \in Bot,
             Create(r, o) \/ Revoke(r, o) \/ AddScope(r, o) \/ RemoveScope(r, o) \/ Check(r, o)
               \/ FanOut(r, o) \/ LockSibling(r, o)
      PROVE  FALSE
  BY <1>3, <1>4 DEF Create, Revoke, AddScope, RemoveScope, Check, FanOut, LockSibling
<1>5. ASSUME NEW r \in Request,
             LockUser(r) \/ LockGrant(r) \/ InsertScope(r) \/ DeleteScope(r) \/ DropGrantor(r)
               \/ DropChannel(r) \/ ReadRow(r) \/ Fill(r) \/ Fail(r)
      PROVE  FALSE
  BY <1>3, <1>5 DEF LockUser, LockGrant, InsertScope, DeleteScope, DropGrantor, DropChannel, ReadRow, Fill, Fail
<1>6. ASSUME NEW r \in Request, Query(r, "count", "grantor") \/ Query(r, "join", "channel")
      PROVE  FALSE
  BY <1>3, <1>6 DEF Query
<1>7. ASSUME NEW r \in Request, NEW o \in Bot, NEW active \in Switch, NEW global \in Switch,
             Put(r, o, active, global)
      PROVE  FALSE
  BY <1>3, <1>7 DEF Put
<1>8. CASE (\E e \in Entry : Expire(e)) \/ UNCHANGED grantVars
  BY <1>3, <1>8 DEF Expire, grantVars
<1> QED BY <1>1, <1>2, <1>4, <1>5, <1>6, <1>7, <1>8 DEF GrantNext

\* An activation never revives a revoked grant, although its gate passed before the
\* revocation: what it reads again under the lock stays true until it commits.
THEOREM RevocationStands == GrantSpec => RevokedStaysRevoked
<1>1. GrantTypeOK /\ LockInv /\ [GrantNext]_grantVars => GrantTypeOK' /\ LockInv'
  BY NextType, NextLocks
<1> DEFINE A == \A b \in Bot :
                  grant[b].state = "revoked" /\ grant'[b].state # "revoked" =>
                      \E r \in Request : At(r, "lock") /\ req[r].op = "create" /\ req[r].bot = b
                                           /\ ~At(r, "lock")'
<1>2. GrantTypeOK /\ LockInv /\ [GrantNext]_grantVars => [A]_grantVars
  BY RevivedByCreate
<1>3. GrantSpec => [][A]_grantVars
  <2> HIDE DEF A
  <2> QED BY InitType, InitLocks, <1>1, <1>2, PTL DEF GrantSpec
<1> QED BY <1>3 DEF RevokedStaysRevoked

-----------------------------------------------------------------------------
(* No write leaves an entry behind that it falsifies. *)

\* The request q is about to drop the entry e.
Drops(q, e) ==
    /\ q # Idle
    /\ \/ q.at = "dropGrantor" /\ (e = "channel" => Reaches(q))
       \/ q.at = "dropChannel" /\ e = "channel" /\ Reaches(q)

\* A scope is inserted and deleted by a request that names the channel.
ScopeInv ==
    \A r \in Request : At(r, "insert") \/ At(r, "delete") => req[r].op \in {"scope", "unscope"}

LEMMA DropsIsBeingDropped == \A e : BeingDropped(e) <=> \E r \in Request : Drops(req[r], e)
BY DEF BeingDropped, Drops, At

LEMMA InitFresh == GrantInit => ScopeInv /\ FreshGrantIsSeen
BY DEF GrantInit, ScopeInv, FreshGrantIsSeen, At

\* A request is replaced by one that is at neither stage, or was there before.
LEMMA ScopeKept ==
    ASSUME GrantTypeOK, ScopeInv, NEW r \in Request, NEW q \in Call \cup {Idle},
           req' = [req EXCEPT ![r] = q],
           q # Idle /\ q.at \in {"insert", "delete"} => q.op \in {"scope", "unscope"}
    PROVE  ScopeInv'
<1>1. req'[r] = q /\ \A s \in Request \ {r} : req'[s] = req[s]
  BY DEF GrantTypeOK
<1> QED BY <1>1 DEF ScopeInv, At

\* A request that drops nothing is replaced, and nothing that the entries speak of changes.
LEMMA OthersDrop ==
    ASSUME GrantTypeOK, FreshGrantIsSeen, NEW r \in Request, NEW q \in Call \cup {Idle},
           req' = [req EXCEPT ![r] = q], \A e \in Entry : ~Drops(req[r], e),
           UNCHANGED <<grant, scope, none, excused>>
    PROVE  FreshGrantIsSeen'
<1>1. \A s \in Request \ {r} : req'[s] = req[s]
  BY DEF GrantTypeOK
<1> SUFFICES ASSUME NEW e \in none \ excused, Truth(e)' PROVE BeingDropped(e)'
  BY DEF FreshGrantIsSeen
<1>2. Truth(e)
  BY DEF Truth, Usable
<1>3. PICK s \in Request : Drops(req[s], e)
  BY <1>2, DropsIsBeingDropped DEF FreshGrantIsSeen
<1>4. s # r
  BY <1>3 DEF GrantTypeOK
<1>5. Drops(req[s], e)'
  BY <1>1, <1>3, <1>4 DEF Drops, Reaches
<1>6. BeingDropped(e)'
  BY <1>5 DEF BeingDropped, Drops, At
<1> QED BY <1>6

\* A write that falsifies an entry drops it: the write's own request, if not another one.
LEMMA WriterDrops ==
    ASSUME GrantTypeOK, FreshGrantIsSeen, NEW r \in Request, NEW q \in Call \cup {Idle},
           req' = [req EXCEPT ![r] = q], \A e \in Entry : ~Drops(req[r], e),
           UNCHANGED <<none, excused>>, scope \subseteq scope',
           \A e \in Entry : Truth(e)' => Truth(e) \/ (Drops(req[r], e))'
    PROVE  FreshGrantIsSeen'
<1>1. \A s \in Request \ {r} : req'[s] = req[s]
  BY DEF GrantTypeOK
<1> SUFFICES ASSUME NEW e \in none \ excused, Truth(e)' PROVE BeingDropped(e)'
  BY DEF FreshGrantIsSeen
<1>2. e \in Entry
  BY DEF GrantTypeOK
<1>3. CASE Truth(e)
  <2>1. PICK s \in Request : Drops(req[s], e)
    BY <1>3, DropsIsBeingDropped DEF FreshGrantIsSeen
  <2>2. s # r /\ req'[s] = req[s]
    BY <1>1, <1>2, <2>1
  <2>3. Drops(req[s], e)'
    BY <2>1, <2>2 DEF Drops, Reaches
  <2> QED BY <2>3 DEF BeingDropped, Drops, At
<1>4. CASE (Drops(req[r], e))'
  BY <1>4 DEF BeingDropped, Drops, At
<1> QED BY <1>2, <1>3, <1>4

LEMMA NextScope == GrantTypeOK /\ LockInv /\ ScopeInv /\ [GrantNext]_grantVars => ScopeInv'
<1> SUFFICES ASSUME GrantTypeOK, LockInv, ScopeInv, [GrantNext]_grantVars PROVE ScopeInv'
  OBVIOUS
<1>0. CASE UNCHANGED req
  BY <1>0 DEF ScopeInv, At
\* Nothing but the two gates leads to an insertion or a deletion.
<1>1. ASSUME NEW r \in Request, NEW q, req' = [req EXCEPT ![r] = q],
             q # Idle /\ q.at \in {"insert", "delete"} => q.op \in {"scope", "unscope"}
      PROVE  ScopeInv'
  BY <1>1 DEF ScopeInv, At, GrantTypeOK
<1>2. \A q : Continued(q) # Idle => Continued(q).at = "update"
  BY DEF Continued, Called
<1>3. ASSUME NEW r \in Request, NEW b \in Bot, Create(r, b)
      PROVE  ScopeInv'
  BY <1>1, <1>3 DEF Create, Called
<1>4. ASSUME NEW r \in Request, NEW b \in Bot, NEW active \in Switch, NEW global \in Switch,
             Put(r, b, active, global)
      PROVE  ScopeInv'
  <2> DEFINE q == [Called("put", b, "update") EXCEPT !.active = active, !.global = global]
  <2>1. PICK p : req' = [req EXCEPT ![r] = p]
                   /\ p \in {[q EXCEPT !.at = "lock", !.left = LockOrder("put")], [q EXCEPT !.at = "pause"], q}
    BY <1>4 DEF Put
  <2>2. p.at \in {"lock", "pause", "update"}
    BY <2>1 DEF Called
  <2> HIDE DEF q
  <2> QED BY <1>1, <2>1, <2>2
<1>5. ASSUME NEW r \in Request, NEW b \in Bot,
             Revoke(r, b) \/ AddScope(r, b) \/ RemoveScope(r, b) \/ Check(r, b) \/ FanOut(r, b)
      PROVE  ScopeInv'
  <2>1. PICK op, at : req' = [req EXCEPT ![r] = Called(op, b, at)]
                        /\ (at \in {"insert", "delete"} => op \in {"scope", "unscope"})
    BY <1>5 DEF Revoke, AddScope, RemoveScope, Check, FanOut
  <2> QED BY <1>1, <2>1 DEF Called
<1>6. ASSUME NEW r \in Request, LockUser(r) \/ LockGrant(r)
      PROVE  ScopeInv'
  <2>1. req[r] \in Call /\ req[r].at = "lock"
    BY <1>6, Busy DEF LockUser, LockGrant, At
  <2>2. CASE LockUser(r)
    <3>1. [req[r] EXCEPT !.user = TRUE, !.left = Tail(req[r].left)].at = "lock"
      BY <2>1 DEF Call
    <3> QED BY <1>1, <2>2, <3>1 DEF LockUser
  <2>3. CASE LockGrant(r)
    <3>1. [req[r] EXCEPT !.rows = req[r].rows \cup {req[r].bot}, !.left = Tail(req[r].left)].at = "lock"
      BY <2>1 DEF Call
    <3> QED BY <1>1, <1>2, <2>3, <3>1 DEF LockGrant
  <2> QED BY <1>6, <2>2, <2>3
<1>7. ASSUME NEW r \in Request, NEW o \in Bot, LockSibling(r, o)
      PROVE  ScopeInv'
  <2>1. req[r] \in Call /\ req[r].at = "lock"
    BY <1>7, Busy DEF LockSibling, At
  <2>2. [req[r] EXCEPT !.rows = req[r].rows \cup {o}].at = "lock"
    BY <2>1 DEF Call
  <2> QED BY <1>1, <1>7, <2>2 DEF LockSibling
<1>8. ASSUME NEW r \in Request,
             Commit(r) \/ Pause(r) \/ Update(r) \/ RevokeWrite(r) \/ InsertScope(r) \/ DeleteScope(r)
               \/ DropGrantor(r)
      PROVE  ScopeInv'
  <2>1. req[r] \in Call
    BY <1>8, Busy DEF Commit, Pause, Update, RevokeWrite, InsertScope, DeleteScope, DropGrantor, At
  <2>2. CASE Commit(r)
    <3>1. [req[r] EXCEPT !.at = "dropGrantor", !.over = Outdated(req[r]), !.user = FALSE, !.rows = {}].at = "dropGrantor"
      BY <2>1 DEF Call
    <3> QED BY <1>1, <2>2, <3>1 DEF Commit
  <2>3. CASE Pause(r)
    <3>1. [req[r] EXCEPT !.at = "dropGrantor", !.over = {req[r].bot}].at = "dropGrantor"
      BY <2>1 DEF Call
    <3>2. req' \in {[req EXCEPT ![r] = [req[r] EXCEPT !.at = "dropGrantor", !.over = {req[r].bot}]],
                    [req EXCEPT ![r] = Continued(req[r])]}
      BY <2>3 DEF Pause
    <3> QED BY <1>1, <1>2, <3>1, <3>2
  <2>4. CASE Update(r)
    <3>1. [req[r] EXCEPT !.at = "dropGrantor", !.over = {req[r].bot}, !.global = "keep"].at = "dropGrantor"
      BY <2>1 DEF Call
    <3>2. req' = [req EXCEPT ![r] = [req[r] EXCEPT !.at = "dropGrantor", !.over = {req[r].bot}, !.global = "keep"]]
      BY <2>4 DEF Update
    <3> QED BY <1>1, <3>1, <3>2
  <2>5. CASE RevokeWrite(r) \/ InsertScope(r) \/ DeleteScope(r)
    <3>1. [req[r] EXCEPT !.at = "dropGrantor"].at = "dropGrantor"
      BY <2>1 DEF Call
    <3>2. req' \in {[req EXCEPT ![r] = [req[r] EXCEPT !.at = "dropGrantor"]], [req EXCEPT ![r] = Idle]}
      BY <2>5 DEF RevokeWrite, InsertScope, DeleteScope
    <3> QED BY <1>1, <3>1, <3>2
  <2>6. CASE DropGrantor(r)
    <3>1. [req[r] EXCEPT !.at = "dropChannel"].at = "dropChannel"
      BY <2>1 DEF Call
    <3> QED BY <1>1, <2>6, <3>1 DEF DropGrantor
  <2> QED BY <1>8, <2>2, <2>3, <2>4, <2>5, <2>6
<1>9. ASSUME NEW r \in Request, DropChannel(r) \/ Fill(r) \/ Fail(r)
      PROVE  ScopeInv'
  <2>1. req' \in {[req EXCEPT ![r] = Continued(req[r])], [req EXCEPT ![r] = Idle]}
    BY <1>9 DEF DropChannel, Fill, Fail
  <2> QED BY <1>1, <1>2, <2>1
<1>10. ASSUME NEW r \in Request, NEW e \in Entry, NEW stage, ReadRow(r) \/ Query(r, stage, e)
       PROVE  ScopeInv'
  <2>1. req[r] \in Call
    BY <1>10, Busy DEF ReadRow, Query, At
  <2>2. \A any, at : [req[r] EXCEPT !.any = any, !.at = at].at = at
    BY <2>1 DEF Call
  <2>3. PICK any, at : at \in {"fill", "count"} /\ req' = [req EXCEPT ![r] = [req[r] EXCEPT !.any = any, !.at = at]]
    BY <1>10 DEF ReadRow, Query
  <2>4. [req[r] EXCEPT !.any = any, !.at = at].at \in {"fill", "count"}
    BY <2>2, <2>3
  <2> QED BY <1>1, <2>3, <2>4
<1>11. CASE (\E e \in Entry : Expire(e)) \/ UNCHANGED grantVars
  BY <1>0, <1>11 DEF Expire, grantVars
<1> QED
  BY <1>3, <1>4, <1>5, <1>6, <1>7, <1>8, <1>9, <1>10, <1>11 DEF GrantNext, Entry

LEMMA NextFresh ==
    GrantTypeOK /\ LockInv /\ ScopeInv /\ FreshGrantIsSeen /\ [GrantNext]_grantVars => FreshGrantIsSeen'
<1> SUFFICES ASSUME GrantTypeOK, LockInv, ScopeInv, FreshGrantIsSeen, [GrantNext]_grantVars
             PROVE  FreshGrantIsSeen'
  OBVIOUS
<1>0. GrantTypeOK'
  BY NextType
\* A request that was at no drop.
<1>1. ASSUME NEW r \in Request, req[r] # Idle => req[r].at \notin {"dropGrantor", "dropChannel"}
      PROVE  \A e \in Entry : ~Drops(req[r], e)
  BY <1>1 DEF Drops
<1>2. ASSUME NEW r \in Request, req' = [req EXCEPT ![r] = req'[r]],
             req[r] # Idle => req[r].at \notin {"dropGrantor", "dropChannel"},
             UNCHANGED <<grant, scope, none, excused>>
      PROVE  FreshGrantIsSeen'
  BY <1>0, <1>1, <1>2, OthersDrop DEF GrantTypeOK
<1>3. ASSUME NEW r \in Request, NEW b \in Bot,
             Create(r, b) \/ Revoke(r, b) \/ AddScope(r, b) \/ RemoveScope(r, b) \/ Check(r, b)
               \/ FanOut(r, b) \/ LockSibling(r, b)
      PROVE  FreshGrantIsSeen'
  <2>1. req[r] # Idle => req[r].at = "lock"
    BY <1>3 DEF Create, Revoke, AddScope, RemoveScope, Check, FanOut, LockSibling, At
  <2>2. req' = [req EXCEPT ![r] = req'[r]] /\ UNCHANGED <<grant, scope, none, excused>>
    BY <1>3 DEF Create, Revoke, AddScope, RemoveScope, Check, FanOut, LockSibling, GrantTypeOK
  <2> QED BY <1>2, <2>1, <2>2
<1>4. ASSUME NEW r \in Request, NEW b \in Bot, NEW active \in Switch, NEW global \in Switch,
             Put(r, b, active, global)
      PROVE  FreshGrantIsSeen'
  BY <1>2, <1>4 DEF Put, GrantTypeOK
<1>5. ASSUME NEW r \in Request, NEW e \in Entry, NEW stage, stage \in {"count", "join"},
             LockUser(r) \/ LockGrant(r) \/ ReadRow(r) \/ Query(r, stage, e)
      PROVE  FreshGrantIsSeen'
  <2>1. req[r] # Idle => req[r].at \in {"lock", "row", "count", "join"}
    BY <1>5 DEF LockUser, LockGrant, ReadRow, Query, At
  <2>2. req' = [req EXCEPT ![r] = req'[r]] /\ UNCHANGED <<grant, scope, none, excused>>
    BY <1>5 DEF LockUser, LockGrant, ReadRow, Query, GrantTypeOK
  <2> QED BY <1>2, <2>1, <2>2
\* The writes.
<1>6. ASSUME NEW r \in Request, Commit(r)
      PROVE  FreshGrantIsSeen'
  <2>1. req[r] \in Call /\ req[r] # Idle /\ req[r].at = "lock" /\ req[r].left = <<>> /\ Lawful(req[r])
    BY <1>6, Busy DEF Commit, At, LockInv
  <2> DEFINE q == [req[r] EXCEPT !.at = "dropGrantor", !.over = Outdated(req[r]), !.user = FALSE, !.rows = {}]
  <2>2. req' = [req EXCEPT ![r] = q] /\ UNCHANGED <<scope, none, excused>>
    BY <1>6 DEF Commit
  <2>3. q # Idle /\ q.at = "dropGrantor" /\ q.over = Outdated(req[r])
    BY <2>1 DEF Call, Idle
  <2>4. req'[r] = q
    BY <2>2 DEF GrantTypeOK
  <2> HIDE DEF q
  <2>5. ASSUME NEW e \in Entry, Truth(e)', ~Truth(e)
        PROVE  (Drops(req[r], e))'
    <3>1. PICK b \in Bot : grant'[b].active /\ grant'[b].global /\ (e = "channel" => b \in scope)
      BY <2>2, <2>5 DEF Truth, Usable
    <3>2. ~(grant[b].active /\ grant[b].global)
      BY <2>5, <3>1 DEF Truth, Usable
    <3>3. b = req[r].bot /\ req[r].op = "put"
      BY <1>6, <3>1, <3>2 DEF Commit, GrantTypeOK, Grant
    <3>4. b \in Outdated(req[r])
      BY <2>1, <3>3 DEF Outdated, Lawful
    <3>5. e = "channel" => req'[r].over \cap scope' # {}
      BY <2>2, <2>3, <2>4, <3>1, <3>4
    <3> QED BY <2>3, <2>4, <3>5 DEF Drops, Reaches
  <2>6. \A e \in Entry : ~Drops(req[r], e)
    BY <1>1, <2>1
  <2>7. req' = [req EXCEPT ![r] = req'[r]] /\ req'[r] \in Call \cup {Idle} /\ scope \subseteq scope'
    BY <1>0, <2>2, <2>4 DEF GrantTypeOK
  <2> QED BY <2>2, <2>5, <2>6, <2>7, WriterDrops
<1>7. ASSUME NEW r \in Request, Pause(r) \/ RevokeWrite(r)
      PROVE  FreshGrantIsSeen'
  <2>1. req[r] \in Call /\ req[r].at \in {"pause", "revoke"} /\ req[r].bot \in Bot
    BY <1>7, Busy DEF Pause, RevokeWrite, At, Call
  <2>2. \A b \in Bot : grant'[b].active /\ grant'[b].global => grant[b].active /\ grant[b].global
    BY <1>7, <2>1 DEF Pause, RevokeWrite, GrantTypeOK, Grant
  <2>3. /\ req' = [req EXCEPT ![r] = req'[r]] /\ req'[r] \in Call \cup {Idle}
        /\ UNCHANGED <<scope, none, excused>>
    BY <1>0, <1>7 DEF Pause, RevokeWrite, GrantTypeOK
  <2>4. \A e \in Entry : Truth(e)' => Truth(e)
    BY <2>2, <2>3 DEF Truth, Usable
  <2>5. \A e \in Entry : ~Drops(req[r], e)
    BY <1>1, <2>1
  <2> QED BY <2>3, <2>4, <2>5, WriterDrops
<1>8. ASSUME NEW r \in Request, Update(r)
      PROVE  FreshGrantIsSeen'
  <2>1. req[r] \in Call /\ req[r].at = "update" /\ req[r].bot \in Bot
    BY <1>8, Busy DEF Update, At, Call
  <2> DEFINE q == [req[r] EXCEPT !.at = "dropGrantor", !.over = {req[r].bot}, !.global = "keep"]
  <2>2. req' = [req EXCEPT ![r] = q] /\ UNCHANGED <<scope, none, excused>>
    BY <1>8 DEF Update
  <2>3. q # Idle /\ q.at = "dropGrantor" /\ q.over = {req[r].bot}
    BY <2>1 DEF Call, Idle
  <2>4. req'[r] = q
    BY <2>2 DEF GrantTypeOK
  <2> HIDE DEF q
  <2>5. ASSUME NEW e \in Entry, Truth(e)', ~Truth(e)
        PROVE  (Drops(req[r], e))'
    <3>1. PICK b \in Bot : grant'[b].active /\ grant'[b].global /\ (e = "channel" => b \in scope)
      BY <2>2, <2>5 DEF Truth, Usable
    <3>2. ~(grant[b].active /\ grant[b].global)
      BY <2>5, <3>1 DEF Truth, Usable
    <3>3. b = req[r].bot
      BY <1>8, <3>1, <3>2 DEF Update, GrantTypeOK
    <3>4. e = "channel" => req'[r].over \cap scope' # {}
      BY <2>2, <2>3, <2>4, <3>1, <3>3
    <3> QED BY <2>3, <2>4, <3>4 DEF Drops, Reaches
  <2>6. \A e \in Entry : ~Drops(req[r], e)
    BY <1>1, <2>1
  <2>7. req' = [req EXCEPT ![r] = req'[r]] /\ req'[r] \in Call \cup {Idle} /\ scope \subseteq scope'
    BY <1>0, <2>2, <2>4 DEF GrantTypeOK
  <2> QED BY <2>2, <2>5, <2>6, <2>7, WriterDrops
<1>9. ASSUME NEW r \in Request, InsertScope(r)
      PROVE  FreshGrantIsSeen'
  <2>1. req[r] \in Call /\ req[r] # Idle /\ req[r].at = "insert" /\ req[r].op \in {"scope", "unscope"}
    BY <1>9, Busy DEF InsertScope, At, ScopeInv
  <2>2. /\ req' = [req EXCEPT ![r] = req'[r]] /\ req'[r] \in Call \cup {Idle}
        /\ UNCHANGED <<grant, none, excused>> /\ scope' = scope \cup {req[r].bot}
    BY <1>0, <1>9 DEF InsertScope, GrantTypeOK
  <2>3. ASSUME NEW e \in Entry, Truth(e)', ~Truth(e)
        PROVE  (Drops(req[r], e))'
    <3>1. req[r].bot \notin scope
      BY <2>2, <2>3 DEF Truth, Usable
    <3>2. req'[r] = [req[r] EXCEPT !.at = "dropGrantor"]
      BY <1>9, <3>1 DEF InsertScope, GrantTypeOK
    <3>3. req'[r] # Idle /\ req'[r].at = "dropGrantor" /\ req'[r].op \in {"scope", "unscope"}
      BY <2>1, <3>2 DEF Call, Idle
    <3> QED BY <3>3 DEF Drops, Reaches
  <2>4. \A e \in Entry : ~Drops(req[r], e)
    BY <1>1, <2>1
  <2> QED BY <2>2, <2>3, <2>4, WriterDrops
\* A deletion takes the channel from others that would have dropped it, and drops it itself.
<1>10. ASSUME NEW r \in Request, DeleteScope(r)
       PROVE  FreshGrantIsSeen'
  <2>1. req[r] \in Call /\ req[r] # Idle /\ req[r].op \in {"scope", "unscope"}
    BY <1>10, Busy DEF DeleteScope, At, ScopeInv
  <2>2. req'[r] = [req[r] EXCEPT !.at = "dropGrantor"]
    BY <1>10 DEF DeleteScope, GrantTypeOK
  <2>3. req'[r] # Idle /\ req'[r].at = "dropGrantor" /\ req'[r].op \in {"scope", "unscope"}
    BY <2>1, <2>2 DEF Call, Idle
  <2>4. \A e : (Drops(req[r], e))'
    BY <2>3 DEF Drops, Reaches
  <2> QED BY <2>4 DEF FreshGrantIsSeen, BeingDropped, Drops, At
\* The drops.
<1>11. ASSUME NEW r \in Request, DropGrantor(r) \/ DropChannel(r)
       PROVE  FreshGrantIsSeen'
  <2>1. req[r] \in Call /\ req[r] # Idle
    BY <1>11, Busy DEF DropGrantor, DropChannel, At
  <2> SUFFICES ASSUME NEW e \in none' \ excused', Truth(e)' PROVE BeingDropped(e)'
    BY DEF FreshGrantIsSeen
  <2>2. /\ UNCHANGED <<grant, scope>> /\ none' \ excused' \subseteq none \ excused
        /\ \A s \in Request \ {r} : req'[s] = req[s]
    BY <1>11 DEF DropGrantor, DropChannel, GrantTypeOK
  <2>3. Truth(e)
    BY <2>2 DEF Truth, Usable
  <2>4. PICK s \in Request : Drops(req[s], e)
    BY <2>2, <2>3, DropsIsBeingDropped DEF FreshGrantIsSeen
  <2>5. CASE s # r
    <3>1. (Drops(req[s], e))'
      BY <2>2, <2>4, <2>5 DEF Drops, Reaches
    <3> QED BY <3>1 DEF BeingDropped, Drops, At
  <2>6. CASE s = r /\ DropGrantor(r)
    <3>1. e = "channel" /\ Reaches(req[r])
      BY <2>4, <2>6 DEF DropGrantor, Drops, At, GrantTypeOK, Entry
    <3>2. req'[r] = [req[r] EXCEPT !.at = "dropChannel"]
      BY <2>6 DEF DropGrantor, GrantTypeOK
    <3>3. req'[r] # Idle /\ req'[r].at = "dropChannel" /\ req'[r].op = req[r].op /\ req'[r].over = req[r].over
      BY <2>1, <3>2 DEF Call, Idle
    <3>4. (Drops(req[r], e))'
      BY <2>2, <3>1, <3>3 DEF Drops, Reaches
    <3> QED BY <3>4 DEF BeingDropped, Drops, At
  <2>7. CASE s = r /\ DropChannel(r)
    BY <2>4, <2>7 DEF DropChannel, Drops, At
  <2> QED BY <1>11, <2>5, <2>6, <2>7
\* What a reader writes on an overtaken answer is excused.
<1>12. ASSUME NEW r \in Request, Fill(r)
       PROVE  FreshGrantIsSeen'
  <2> SUFFICES ASSUME NEW e \in none' \ excused', Truth(e)' PROVE BeingDropped(e)'
    BY DEF FreshGrantIsSeen
  <2>1. Truth(e) /\ e \in none \ excused
    BY <1>12 DEF Fill, Truth, Usable
  <2>2. PICK s \in Request : Drops(req[s], e)
    BY <2>1, DropsIsBeingDropped DEF FreshGrantIsSeen
  <2>3. s # r
    BY <1>12, <2>2 DEF Fill, At, Drops
  <2>4. (Drops(req[s], e))'
    BY <1>12, <2>2, <2>3 DEF Fill, Drops, Reaches, GrantTypeOK
  <2> QED BY <2>4 DEF BeingDropped, Drops, At
<1>13. ASSUME NEW r \in Request, Fail(r)
       PROVE  FreshGrantIsSeen'
  <2> SUFFICES ASSUME NEW e \in none' \ excused', Truth(e)' PROVE BeingDropped(e)'
    BY DEF FreshGrantIsSeen
  <2>1. Truth(e) /\ e \in none \ excused /\ e \in Entry
    BY <1>13 DEF Fail, Truth, Usable, GrantTypeOK
  <2>2. PICK s \in Request : Drops(req[s], e)
    BY <2>1, DropsIsBeingDropped DEF FreshGrantIsSeen
  <2>3. s # r
    BY <1>13, <2>1, <2>2 DEF Fail, At, Drops, Entry
  <2>4. (Drops(req[s], e))'
    BY <1>13, <2>2, <2>3 DEF Fail, Drops, Reaches, GrantTypeOK
  <2> QED BY <2>4 DEF BeingDropped, Drops, At
<1>14. ASSUME NEW f \in Entry, Expire(f)
       PROVE  FreshGrantIsSeen'
  BY <1>14 DEF Expire, FreshGrantIsSeen, Truth, Usable, BeingDropped, At, Reaches
<1>15. CASE UNCHANGED grantVars
  BY <1>15 DEF grantVars, FreshGrantIsSeen, Truth, Usable, BeingDropped, At, Reaches
<1> QED
  BY <1>3, <1>4, <1>5, <1>6, <1>7, <1>8, <1>9, <1>10, <1>11, <1>12, <1>13, <1>14, <1>15 DEF GrantNext, Entry

\* No creation, activation, pause, revocation or change of scope leaves behind an entry
\* that it made untrue, unless a fault took its drop or a reader wrote it on an overtaken
\* answer.
THEOREM EntriesAreDropped == GrantSpec => []FreshGrantIsSeen
<1>1. GrantTypeOK /\ LockInv /\ ScopeInv /\ FreshGrantIsSeen /\ [GrantNext]_grantVars
          => GrantTypeOK' /\ LockInv' /\ ScopeInv' /\ FreshGrantIsSeen'
  BY NextType, NextLocks, NextScope, NextFresh
<1> QED BY InitType, InitLocks, InitFresh, <1>1, PTL DEF GrantSpec
=============================================================================
