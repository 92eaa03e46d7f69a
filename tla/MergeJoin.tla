------------------------------ MODULE MergeJoin ------------------------------
(***************************************************************************)
(* The merge of a parent matter: every transition of a child bumps the     *)
(* parent's events_seq, the leader reads the tree, merges what the         *)
(* children handed back and reports the sequence number the tree showed it *)
(* as its processed_seq (service/v2_svc.go, Join and Tree).                *)
(*                                                                         *)
(* Tree and Join run no transaction: each statement is an action, and      *)
(* children move between them.  Callers report a number a tree gave them,  *)
(* as the agent's manual tells them to (docs/SKILL.md).                    *)
(***************************************************************************)
EXTENDS Integers, FiniteSets

CONSTANTS
    Child,        \* children of the parent
    User,         \* callers of tree and join
    Creator,      \* the parent's creator
    Acts,         \* Acts[u]: the users that u acts for, itself and its bots
    MaxEvents,    \* bound on events_seq
    MaxTrees,     \* bound on trees under way
    MaxJoins      \* bound on joins under way

ASSUME MergeAssumption ==
    /\ Creator \in User
    /\ \A u \in User : Acts[u] \subseteq User
    /\ MaxEvents \in Nat /\ MaxTrees \in Nat /\ MaxJoins \in Nat

VARIABLES
    status,     \* of each child
    leader,     \* leader_uid of the parent, its creator when it has none
    events,     \* events_seq
    processed,  \* processed_seq
    inflight,   \* the parent's inflight flag
    bells,      \* users with a pending or delivered ring of a join about the parent
    trees,      \* tree requests under way
    shown,      \* the trees that were answered
    joins       \* join requests under way

matter == <<status, leader, events, processed, inflight>>
mergeVars == <<status, leader, events, processed, inflight, bells, trees, shown, joins>>

Status == {"new", "waiting", "handed_back", "cancelled", "deleted"}

\* A child the tree lists, as waiting, handed back or neither.
Listed(s) == s \in {"waiting", "handed_back", "cancelled"}

View == [events: 0..MaxEvents, listed: [Child -> Status]]

TreeRequest == [by: User, at: {"matter", "children"}, view: View]

JoinRequest == [by: User, at: {"allowed", "fresh", "written", "rung"}, seq: 0..MaxEvents,
                pending: BOOLEAN, target: User]

MergeTypeOK ==
    /\ status \in [Child -> Status]
    /\ leader \in User
    /\ events \in 0..MaxEvents /\ processed \in 0..MaxEvents
    /\ inflight \in BOOLEAN
    /\ bells \subseteq User
    /\ trees \subseteq TreeRequest
    /\ shown \subseteq View
    /\ joins \subseteq JoinRequest

MergeInit ==
    /\ status = [c \in Child |-> "new"]
    /\ leader \in User
    /\ events = 0 /\ processed = 0
    /\ inflight = FALSE
    /\ bells = {} /\ trees = {} /\ shown = {} /\ joins = {}

-----------------------------------------------------------------------------
(* The children and the parent. *)

\* Creating or deleting a child is no transition: the parent's counter stays.
Create(c) ==
    /\ status[c] = "new"
    /\ status' = [status EXCEPT ![c] = "waiting"]
    /\ UNCHANGED <<leader, events, processed, inflight, bells, trees, shown, joins>>

Delete(c) ==
    /\ Listed(status[c])
    /\ status' = [status EXCEPT ![c] = "deleted"]
    /\ UNCHANGED <<leader, events, processed, inflight, bells, trees, shown, joins>>

\* Mutant of ChildMoves: only hand-backs count.
CountsHandBacks(c, to) ==
    /\ Listed(status[c]) /\ <<status[c], to>> # <<"cancelled", "cancelled">>
    /\ events < MaxEvents
    /\ status' = [status EXCEPT ![c] = to]
    /\ events' = IF to = "handed_back" THEN events + 1 ELSE events
    /\ UNCHANGED <<leader, processed, inflight, bells, trees, shown, joins>>

\* A transition of a child, often from one status to another of the same kind, in one
\* transaction with the bump of the parent's counter.  What it rings is about the child:
\* no read of the parent consumes it.
ChildMoves(c, to) ==
    /\ Listed(status[c]) /\ <<status[c], to>> # <<"cancelled", "cancelled">>
    /\ events < MaxEvents
    /\ status' = [status EXCEPT ![c] = to]
    /\ events' = events + 1
    /\ UNCHANGED <<leader, processed, inflight, bells, trees, shown, joins>>

Reassign(u) ==
    /\ u # leader
    /\ leader' = u
    /\ UNCHANGED <<status, events, processed, inflight, bells, trees, shown, joins>>

\* Reading the parent consumes the caller's own rings about it.
Get(u) ==
    /\ bells' = bells \ {u}
    /\ UNCHANGED <<matter, trees, shown, joins>>

-----------------------------------------------------------------------------
(* Tree: the parent is read first, its children afterwards. *)

TreeMatter(u) ==
    /\ Cardinality(trees) < MaxTrees
    /\ trees' = trees \cup {[by |-> u, at |-> "matter",
                             view |-> [events |-> events, listed |-> status]]}
    /\ UNCHANGED <<matter, bells, shown, joins>>

\* Mutant of TreeChildren: the children as they were when the request began, with
\* the counter as it is now.
ChildrenFirst(t) ==
    /\ t.at = "matter"
    /\ trees' = (trees \ {t}) \cup {[t EXCEPT !.at = "children", !.view.events = events]}
    /\ UNCHANGED <<matter, bells, shown, joins>>

TreeChildren(t) ==
    /\ t.at = "matter"
    /\ trees' = (trees \ {t}) \cup {[t EXCEPT !.at = "children", !.view.listed = status]}
    /\ UNCHANGED <<matter, bells, shown, joins>>

\* The handler consumes the caller's rings and answers.
TreeAnswer(t) ==
    /\ t.at = "children"
    /\ bells' = bells \ {t.by}
    /\ shown' = shown \cup {t.view}
    /\ trees' = trees \ {t}
    /\ UNCHANGED <<matter, joins>>

-----------------------------------------------------------------------------
(* Join: five statements. *)

\* The matter is read for the permission check; the caller reports the number of
\* a tree that was shown.
JoinAllow(u, v) ==
    /\ v \in shown
    /\ Cardinality(joins) < MaxJoins
    /\ Acts[u] \cap {leader, Creator} # {}
    /\ joins' = joins \cup {[by |-> u, at |-> "allowed", seq |-> v.events,
                             pending |-> FALSE, target |-> leader]}
    /\ UNCHANGED <<matter, bells, trees, shown>>

\* The matter is read again: are there events the caller has not processed?
JoinFresh(j) ==
    /\ j.at = "allowed"
    /\ joins' = (joins \ {j}) \cup {[j EXCEPT !.at = "fresh", !.pending = events > j.seq,
                                            !.target = leader]}
    /\ UNCHANGED <<matter, bells, trees, shown>>

Greater(m, n) == IF m > n THEN m ELSE n

\* Mutants of Written: the last report wins; every event counts as processed.
LastReport(j) == j.seq
AllEvents(j) == events

\* GREATEST(processed_seq, ?)
Written(j) == Greater(processed, j.seq)

\* SetJoinProgress.
JoinWrite(j) ==
    /\ j.at = "fresh"
    /\ processed' = Written(j)
    /\ inflight' = j.pending
    /\ joins' = (joins \ {j}) \cup {[j EXCEPT !.at = "written"]}
    /\ UNCHANGED <<status, leader, events, bells, trees, shown>>

\* A caller that is behind has the leader rung again, about the parent.
JoinRing(j) ==
    /\ j.at = "written"
    /\ bells' = IF j.pending THEN bells \cup {j.target} ELSE bells
    /\ joins' = (joins \ {j}) \cup {[j EXCEPT !.at = "rung"]}
    /\ UNCHANGED <<matter, trees, shown>>

\* The handler consumes the caller's rings about the parent and answers.
JoinAnswer(j) ==
    /\ j.at = "rung"
    /\ bells' = bells \ {j.by}
    /\ joins' = joins \ {j}
    /\ UNCHANGED <<matter, trees, shown>>

\* The process stops and starts again: the requests under way are gone.
Crash ==
    /\ trees' = {} /\ joins' = {}
    /\ UNCHANGED <<matter, bells, shown>>

MergeNext ==
    \/ \E c \in Child : Create(c)
    \/ \E c \in Child : Delete(c)
    \/ \E c \in Child, to \in {"waiting", "handed_back", "cancelled"} : ChildMoves(c, to)
    \/ \E u \in User : Reassign(u)
    \/ \E u \in User : Get(u)
    \/ \E u \in User : TreeMatter(u)
    \/ \E t \in trees : TreeChildren(t)
    \/ \E t \in trees : TreeAnswer(t)
    \/ \E u \in User, v \in shown : JoinAllow(u, v)
    \/ \E j \in joins : JoinFresh(j)
    \/ \E j \in joins : JoinWrite(j)
    \/ \E j \in joins : JoinRing(j)
    \/ \E j \in joins : JoinAnswer(j)
    \/ Crash

MergeSpec == MergeInit /\ [][MergeNext]_mergeVars

-----------------------------------------------------------------------------
(* Properties. *)

\* A tree is right about every child it lists for as long as the parent's counter
\* is the number the tree carries: a leader whose join finds nothing pending has
\* merged the work its children have really handed back.
TreeStaysTrue ==
    \A v \in shown :
        v.events = events
            => \A c \in Child : Listed(v.listed[c])
                                    => status[c] \in {v.listed[c], "deleted"}

\* No event is taken for processed that no tree has shown to anybody.
ProcessedWasShown ==
    processed > 0 => \E v \in shown : v.events >= processed

\* Joins that overtake one another never move the watermark back.
WatermarkNeverBack == [][processed' >= processed]_mergeVars

\* A join that finds unprocessed events leaves the leader a ring: one that is still
\* there when the join is over outlives it.
PendingJoinRings ==
    [][\A j \in joins \ joins' :
          (j.at = "rung" /\ j.pending /\ j.target \in bells) => j.target \in bells']_mergeVars

=============================================================================
