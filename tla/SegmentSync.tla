---------------------------- MODULE SegmentSync ----------------------------
(***************************************************************************)
(* How the API keeps the materialised membership of its dynamic segments   *)
(* in sync with the customers' data.                                       *)
(*                                                                         *)
(* Simulator endpoints write customer data and then mark the customers in  *)
(* a Redis set.  A timer (ChangeBufferService) empties the set and re-      *)
(* evaluates every dynamic segment.  Each evaluation that changes a        *)
(* segment stores an event in the outbox; the outbox publisher moves it to *)
(* the cascade queue; the cascade consumer looks up the segments whose     *)
(* rules refer to the changed one and re-evaluates them.  The API also     *)
(* re-evaluates everything when it boots.                                  *)
(*                                                                         *)
(* The callers of evaluateSegment are the processes of this module.  None  *)
(* of them excludes another, and evaluateSegment awaits the database five  *)
(* times: each await is a step here.                                       *)
(***************************************************************************)
EXTENDS Naturals, FiniteSets, Functions

CONSTANTS
    Segments,    \* the DYNAMIC segments; their rules do not change here
    Customers,
    Metrics,     \* what computeAll returns for a customer, up to the rules
    Parents,     \* [Segments -> SUBSET Segments]: the in_segment nodes
    Satisfying,  \* [Segments -> SUBSET Metrics]: passes the compare nodes
    Handlers,    \* concurrent simulator calls
    NoSegment,
    MaxChanges,  \* bound on data changes
    MaxFaults,   \* bound on crashes, failures and duplicates
    MaxBacklog   \* bound on the events of a segment left by an earlier run

Rebuilders == {"boot", "flush"}
Procs == {"cascade"} \cup Rebuilders

RuleEdges == {e \in Segments \X Segments : e[1] \in Parents[e[2]]}

ASSUME ParentsAssumption == Parents \in [Segments -> SUBSET Segments]
ASSUME SatisfyingAssumption == Satisfying \in [Segments -> SUBSET Metrics]
ASSUME NoSegmentAssumption == NoSegment \notin Segments
ASSUME BoundsAssumption ==
    MaxChanges \in Nat /\ MaxFaults \in Nat /\ MaxBacklog \in Nat

VARIABLES
    metrics,  \* Customer and Transaction rows, as computeAll sees them
    member,   \* SegmentMember rows
    deps,     \* SegmentDependency rows <<parent, child>>
    buffer,   \* the Redis set of changed customers
    handler,  \* customers a simulator call has written and not yet marked
    outbox,   \* PENDING OutboxEvent rows of each segment
    queue,    \* messages of each segment in the cascade queue
    msg,      \* segment of the message the cascade consumer holds unacked
    pc,       \* the await each process is at
    todo,     \* segments a process has still to evaluate
    seg,      \* segment it evaluates
    target,   \* the customers that pass the part of the rule evaluated so far
    current,  \* the membership it read before the diff
    changes,  \* data changes so far
    faults    \* faults so far

db == <<metrics, member, deps, outbox>>
local == <<pc, todo, seg, target, current>>
vars == <<metrics, member, deps, buffer, handler, outbox, queue, msg,
          pc, todo, seg, target, current, changes, faults>>

EvalSteps == {"edges", "metrics", "parents", "current", "commit"}
Steps == {"idle", "snapshot", "lookup", "pick"} \cup EvalSteps

\* The membership the rule of s asks for, given the data and the parents'
\* membership.
Qualifying(s) == {c \in Customers : metrics[c] \in Satisfying[s]}
RuleTarget(s) == {c \in Qualifying(s) : \A q \in Parents[s] : c \in member[q]}

-----------------------------------------------------------------------------
(* Start of the API, on whatever state an earlier run left.  HTTP is not   *)
(* served until the bootstrap rebuild ends; timers and consumers run.      *)

Idle(value, boot) == [p \in Procs |-> IF p = "boot" THEN boot ELSE value]

Init ==
    /\ metrics \in [Customers -> Metrics]
    /\ member \in [Segments -> SUBSET Customers]
    /\ deps \in SUBSET RuleEdges
    /\ buffer \in SUBSET Customers
    /\ handler = [h \in Handlers |-> {}]
    /\ outbox \in [Segments -> 0..MaxBacklog]
    /\ queue \in [Segments -> 0..MaxBacklog]
    /\ msg = NoSegment
    /\ pc = Idle("idle", "pick")
    /\ todo = Idle({}, Segments)
    /\ seg = Idle(NoSegment, NoSegment)
    /\ target = Idle({}, {})
    /\ current = Idle({}, {})
    /\ changes = 0
    /\ faults = 0

-----------------------------------------------------------------------------
(* Simulator endpoints: the database write, then markChanged(Many).        *)

Write(h, touched, data) ==
    /\ pc["boot"] = "idle"
    /\ handler[h] = {}
    /\ touched # {}
    /\ changes < MaxChanges
    /\ \A c \in Customers \ touched : data[c] = metrics[c]
    /\ metrics' = data
    /\ handler' = [handler EXCEPT ![h] = touched]
    /\ changes' = changes + 1
    /\ UNCHANGED <<member, deps, buffer, outbox, queue, msg, local, faults>>

SimulateTransaction(h) ==
    \E c \in Customers, data \in [Customers -> Metrics] : Write(h, {c}, data)

\* No metric reads the profile.
SimulateProfile(h) == \E c \in Customers : Write(h, {c}, metrics)

\* One chunk of a bulk call; the next chunk is another such step.
SimulateBulk(h) ==
    \E touched \in SUBSET Customers, data \in [Customers -> Metrics] :
        Write(h, touched, data)

AdvanceTime(h) ==
    \E data \in [Customers -> Metrics] : Write(h, Customers, data)

MarkChanged(h) ==
    /\ handler[h] # {}
    /\ buffer' = buffer \cup handler[h]
    /\ handler' = [handler EXCEPT ![h] = {}]
    /\ UNCHANGED <<db, queue, msg, local, changes, faults>>

-----------------------------------------------------------------------------
(* ChangeBufferService.flush: RENAME, SMEMBERS and DEL, rebuild.  A tick   *)
(* during a flush does nothing, nor does one on an empty buffer.           *)

FlushRename ==
    /\ pc["flush"] = "idle"
    /\ buffer # {}
    /\ buffer' = {}
    /\ pc' = [pc EXCEPT !["flush"] = "snapshot"]
    /\ UNCHANGED <<db, handler, queue, msg, todo, seg, target, current,
                   changes, faults>>

FlushRebuild ==
    /\ pc["flush"] = "snapshot"
    /\ pc' = [pc EXCEPT !["flush"] = "pick"]
    /\ todo' = [todo EXCEPT !["flush"] = Segments]
    /\ UNCHANGED <<db, buffer, handler, queue, msg, seg, target, current,
                   changes, faults>>

-----------------------------------------------------------------------------
(* evaluateSegment, one action per await.                                  *)

\* Mutant: a rebuild in the order the database returns the segments.
ReadyUnsorted(p, s) == s \in todo[p]

\* rebuildAllDynamic takes its segments in a topological order; the cascade
\* takes the rows in the order the database returns them.
Ready(p, s) ==
    /\ s \in todo[p]
    /\ p \in Rebuilders => Parents[s] \cap todo[p] = {}

Evaluate(p) ==
    /\ pc[p] = "pick"
    /\ \E s \in Segments :
        /\ Ready(p, s)
        /\ seg' = [seg EXCEPT ![p] = s]
        /\ todo' = [todo EXCEPT ![p] = @ \ {s}]
    /\ pc' = [pc EXCEPT ![p] = "edges"]
    /\ UNCHANGED <<db, buffer, handler, queue, msg, target, current,
                   changes, faults>>

\* Mutant: the stale edges are deleted and the new ones not inserted.
ReplaceDependenciesDeletes(p) ==
    /\ pc[p] = "edges"
    /\ deps' = {e \in deps : e[2] # seg[p]}
    /\ pc' = [pc EXCEPT ![p] = "metrics"]
    /\ UNCHANGED <<metrics, member, buffer, handler, outbox, queue, msg,
                   todo, seg, target, current, changes, faults>>

ReplaceDependencies(p) ==
    /\ pc[p] = "edges"
    /\ deps' = {e \in deps : e[2] # seg[p]} \cup (Parents[seg[p]] \X {seg[p]})
    /\ pc' = [pc EXCEPT ![p] = "metrics"]
    /\ UNCHANGED <<metrics, member, buffer, handler, outbox, queue, msg,
                   todo, seg, target, current, changes, faults>>

ComputeMetrics(p) ==
    /\ pc[p] = "metrics"
    /\ target' = [target EXCEPT ![p] = Qualifying(seg[p])]
    /\ pc' = [pc EXCEPT ![p] = "parents"]
    /\ UNCHANGED <<db, buffer, handler, queue, msg, todo, seg, current,
                   changes, faults>>

LoadParents(p) ==
    /\ pc[p] = "parents"
    /\ target' = [target EXCEPT ![p] =
            {c \in @ : \A q \in Parents[seg[p]] : c \in member[q]}]
    /\ pc' = [pc EXCEPT ![p] = "current"]
    /\ UNCHANGED <<db, buffer, handler, queue, msg, todo, seg, current,
                   changes, faults>>

ReadCurrent(p) ==
    /\ pc[p] = "current"
    /\ current' = [current EXCEPT ![p] = member[seg[p]]]
    /\ pc' = [pc EXCEPT ![p] = "commit"]
    /\ UNCHANGED <<db, buffer, handler, queue, msg, todo, seg, target,
                   changes, faults>>

Added(p) == target[p] \ current[p]
Removed(p) == current[p] \ target[p]

\* Mutant: no event when customers only left.
CommitSilentRemovals(p) ==
    /\ pc[p] = "commit"
    /\ LET s == seg[p] IN
        /\ member' = [member EXCEPT ![s] = (@ \cup Added(p)) \ Removed(p)]
        /\ outbox' = [outbox EXCEPT ![s] = IF Added(p) = {} THEN @ ELSE @ + 1]
    /\ pc' = [pc EXCEPT ![p] = "pick"]
    /\ seg' = [seg EXCEPT ![p] = NoSegment]
    /\ target' = [target EXCEPT ![p] = {}]
    /\ current' = [current EXCEPT ![p] = {}]
    /\ UNCHANGED <<metrics, deps, buffer, handler, queue, msg, todo,
                   changes, faults>>

\* The transaction applies the diff to the rows as they are now.
Commit(p) ==
    /\ pc[p] = "commit"
    /\ LET s == seg[p] IN
        /\ member' = [member EXCEPT ![s] = (@ \cup Added(p)) \ Removed(p)]
        /\ outbox' = [outbox EXCEPT ![s] =
                IF Added(p) \cup Removed(p) = {} THEN @ ELSE @ + 1]
    /\ pc' = [pc EXCEPT ![p] = "pick"]
    /\ seg' = [seg EXCEPT ![p] = NoSegment]
    /\ target' = [target EXCEPT ![p] = {}]
    /\ current' = [current EXCEPT ![p] = {}]
    /\ UNCHANGED <<metrics, deps, buffer, handler, queue, msg, todo,
                   changes, faults>>

\* Mutant: the handler returns without an ack.
FinishUnacked(p) ==
    /\ pc[p] = "pick"
    /\ todo[p] = {}
    /\ pc' = [pc EXCEPT ![p] = "idle"]
    /\ UNCHANGED <<db, buffer, handler, queue, msg, todo, seg, target, current,
                   changes, faults>>

\* Mutant: the flush deletes the buffer when its rebuild is done.
FinishDeletesBuffer(p) ==
    /\ pc[p] = "pick"
    /\ todo[p] = {}
    /\ pc' = [pc EXCEPT ![p] = "idle"]
    /\ msg' = IF p = "cascade" THEN NoSegment ELSE msg
    /\ buffer' = IF p = "flush" THEN {} ELSE buffer
    /\ UNCHANGED <<db, handler, queue, todo, seg, target, current,
                   changes, faults>>

\* The loop over the segments ends; the cascade consumer acks its message.
Finish(p) ==
    /\ pc[p] = "pick"
    /\ todo[p] = {}
    /\ pc' = [pc EXCEPT ![p] = "idle"]
    /\ msg' = IF p = "cascade" THEN NoSegment ELSE msg
    /\ UNCHANGED <<db, buffer, handler, queue, todo, seg, target, current,
                   changes, faults>>

EvaluationStep(p) ==
    \/ Evaluate(p)
    \/ ReplaceDependencies(p)
    \/ ComputeMetrics(p)
    \/ LoadParents(p)
    \/ ReadCurrent(p)
    \/ Commit(p)
    \/ Finish(p)

-----------------------------------------------------------------------------
(* Outbox publisher and cascade consumer.  Delivery is at least once and   *)
(* in any order here; the broker and its failures are EventDelivery's.     *)

Publish(s) ==
    /\ outbox[s] > 0
    /\ outbox' = [outbox EXCEPT ![s] = @ - 1]
    /\ queue' = [queue EXCEPT ![s] = @ + 1]
    /\ UNCHANGED <<metrics, member, deps, buffer, handler, msg, local,
                   changes, faults>>

\* Published, but not marked PUBLISHED: the row stays PENDING.
PublishUnmarked(s) ==
    /\ outbox[s] > 0
    /\ faults < MaxFaults
    /\ faults' = faults + 1
    /\ queue' = [queue EXCEPT ![s] = @ + 1]
    /\ UNCHANGED <<db, buffer, handler, msg, local, changes>>

Deliver(s) ==
    /\ msg = NoSegment
    /\ queue[s] > 0
    /\ queue' = [queue EXCEPT ![s] = @ - 1]
    /\ msg' = s
    /\ pc' = [pc EXCEPT !["cascade"] = "lookup"]
    /\ UNCHANGED <<db, buffer, handler, todo, seg, target, current,
                   changes, faults>>

LookupDependents ==
    /\ pc["cascade"] = "lookup"
    /\ todo' = [todo EXCEPT !["cascade"] =
            {s \in Segments : <<msg, s>> \in deps}]
    /\ pc' = [pc EXCEPT !["cascade"] = "pick"]
    /\ UNCHANGED <<db, buffer, handler, queue, msg, seg, target, current,
                   changes, faults>>

\* An evaluation throws: what it held in memory is gone.
Abandon(p) ==
    /\ pc' = [pc EXCEPT ![p] = "idle"]
    /\ todo' = [todo EXCEPT ![p] = {}]
    /\ seg' = [seg EXCEPT ![p] = NoSegment]
    /\ target' = [target EXCEPT ![p] = {}]
    /\ current' = [current EXCEPT ![p] = {}]

\* The cascade handler throws: nack with requeue.
Nack ==
    /\ msg # NoSegment
    /\ faults < MaxFaults
    /\ faults' = faults + 1
    /\ queue' = [queue EXCEPT ![msg] = @ + 1]
    /\ msg' = NoSegment
    /\ Abandon("cascade")
    /\ UNCHANGED <<db, buffer, handler, changes>>

\* Messages that a crash can leave: those in the buffer of the process are lost,
\* though their rows are PUBLISHED.
Unlost == {kept \in [Segments -> 0..FoldFunction(+, 0, queue)] :
              \A s \in Segments : kept[s] <= queue[s]}

\* The process dies and starts again: Postgres, Redis and the broker keep
\* their state, and the broker requeues the unacked message.
Restart ==
    /\ faults < MaxFaults
    /\ faults' = faults + 1
    /\ \E kept \in Unlost :
        queue' = IF msg = NoSegment THEN kept
                 ELSE [kept EXCEPT ![msg] = @ + 1]
    /\ msg' = NoSegment
    /\ handler' = [h \in Handlers |-> {}]
    /\ pc' = Idle("idle", "pick")
    /\ todo' = Idle({}, Segments)
    /\ seg' = Idle(NoSegment, NoSegment)
    /\ target' = Idle({}, {})
    /\ current' = Idle({}, {})
    /\ UNCHANGED <<db, buffer, changes>>

-----------------------------------------------------------------------------
Next ==
    \/ \E h \in Handlers :
        \/ SimulateTransaction(h)
        \/ SimulateProfile(h)
        \/ SimulateBulk(h)
        \/ AdvanceTime(h)
        \/ MarkChanged(h)
    \/ FlushRename
    \/ FlushRebuild
    \/ \E p \in Procs : EvaluationStep(p)
    \/ \E s \in Segments : Publish(s) \/ PublishUnmarked(s) \/ Deliver(s)
    \/ LookupDependents
    \/ Nack
    \/ Restart

\* Timers keep firing and awaits keep resolving.
Fairness ==
    /\ \A h \in Handlers : WF_vars(MarkChanged(h))
    /\ WF_vars(FlushRename)
    /\ WF_vars(FlushRebuild)
    /\ \A p \in Procs : WF_vars(EvaluationStep(p))
    /\ \A s \in Segments : WF_vars(Publish(s))
    /\ WF_vars(\E s \in Segments : Deliver(s))
    /\ WF_vars(LookupDependents)

Spec == Init /\ [][Next]_vars

FairSpec == Spec /\ Fairness

-----------------------------------------------------------------------------
(* What Spec leaves out: the failures the code does not retry.             *)

\* The snapshot is deleted, and then a query of the rebuild throws; tick logs
\* it and the next one starts afresh.
RebuildFails ==
    /\ pc["flush"] \in {"pick"} \cup EvalSteps
    /\ faults < MaxFaults
    /\ faults' = faults + 1
    /\ Abandon("flush")
    /\ UNCHANGED <<db, buffer, handler, queue, msg, changes>>

FailureSpec == Init /\ [][Next \/ RebuildFails]_vars

\* SADD throws after the database write: the caller gets an error.
MarkFails(h) ==
    /\ handler[h] # {}
    /\ faults < MaxFaults
    /\ faults' = faults + 1
    /\ handler' = [handler EXCEPT ![h] = {}]
    /\ UNCHANGED <<db, buffer, queue, msg, local, changes>>

UnmarkedSpec == Init /\ [][Next \/ \E h \in Handlers : MarkFails(h)]_vars

-----------------------------------------------------------------------------
(* Properties. *)

TypeOK ==
    /\ metrics \in [Customers -> Metrics]
    /\ member \in [Segments -> SUBSET Customers]
    /\ deps \in SUBSET RuleEdges
    /\ buffer \in SUBSET Customers
    /\ handler \in [Handlers -> SUBSET Customers]
    /\ outbox \in [Segments -> Nat]
    /\ queue \in [Segments -> Nat]
    /\ msg \in Segments \cup {NoSegment}
    /\ pc["cascade"] = "idle" <=> msg = NoSegment
    /\ pc \in [Procs -> Steps]
    /\ todo \in [Procs -> SUBSET Segments]
    /\ seg \in [Procs -> Segments \cup {NoSegment}]
    /\ \A p \in Procs : pc[p] \in EvalSteps <=> seg[p] # NoSegment
    /\ target \in [Procs -> SUBSET Customers]
    /\ current \in [Procs -> SUBSET Customers]
    /\ changes \in 0..MaxChanges
    /\ faults \in 0..MaxFaults

InSync(s) == member[s] = RuleTarget(s)

\* Nothing is pending anywhere: only a new call can make the system move.
Settled ==
    /\ \A h \in Handlers : handler[h] = {}
    /\ buffer = {}
    /\ \A s \in Segments : outbox[s] = 0 /\ queue[s] = 0
    /\ \A p \in Procs : pc[p] = "idle"

(* A system at rest shows the right membership: each dynamic segment holds *)
(* exactly the customers its rule asks for, whatever interleaving of       *)
(* flushes, cascades, crashes and redeliveries came before (evaluateSegment *)
(* takes no lock, so a stale pass may commit after a fresh one).           *)
SettledInSync == Settled => \A s \in Segments : InSync(s)

Signal == buffer # {} \/ \E h \in Handlers : handler[h] # {}

Evaluating(p, s) == pc[p] \in EvalSteps /\ seg[p] = s

EventPending(s) == \E q \in Parents[s] : outbox[q] > 0 \/ queue[q] > 0

RebuildOwes(s) == \E p \in {"boot", "flush"} :
    pc[p] = "snapshot" \/ s \in todo[p] \/ Evaluating(p, s)

CascadeOwes(s) ==
    \/ EventPending(s)
    \/ pc["cascade"] = "lookup" /\ msg \in Parents[s]
    \/ s \in todo["cascade"]
    \/ Evaluating("cascade", s)

(* A segment that is out of sync has an evaluation coming to it.  For one  *)
(* computed from the metrics, a rebuild under way or a change signal not   *)
(* yet flushed; for one computed from other segments, a rebuild, or an     *)
(* event of a parent that is still on its way through outbox, queue and    *)
(* cascade consumer.  A stale segment nothing will visit stays stale.      *)
StaleIsOwed == \A s \in Segments : InSync(s) \/ RebuildOwes(s) \/
    IF Parents[s] = {} THEN Signal ELSE CascadeOwes(s)

(* The cascade never looks up dependents in a table that lacks an edge of  *)
(* a rule: an edge is missing only while the boot rebuild has still to     *)
(* evaluate the child, which makes the missed event harmless.              *)
EdgesComplete == \A s \in Segments :
    \/ Parents[s] \X {s} \subseteq deps
    \/ s \in todo["boot"]
    \/ pc["boot"] = "edges" /\ seg["boot"] = s

(* Once the data stops changing, every event and signal is worked off and  *)
(* the memberships are right for good: the cascade does not feed itself.   *)
Settles == <>[](Settled /\ \A s \in Segments : InSync(s))

(* The shape of the seeded rules: a rule tests metrics, or membership of   *)
(* segments whose rules test metrics.                                      *)
TwoLevel == \A s \in Segments : Parents[s] # {} =>
    /\ Satisfying[s] = Metrics
    /\ \A q \in Parents[s] : Parents[q] = {}
=============================================================================
