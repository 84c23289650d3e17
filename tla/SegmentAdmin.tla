---------------------------- MODULE SegmentAdmin ----------------------------
(***************************************************************************)
(* The life of segments, their rules and the dependency graph.             *)
(*                                                                         *)
(* POST, PATCH and DELETE /segments check the request, write the segment   *)
(* and, if it is dynamic, evaluate it.  The graph the cascade follows      *)
(* (SegmentDependency) is written only there, by the replaceDependencies   *)
(* of an evaluation, so rule and edges are stored by two transactions.     *)
(* rebuildAllDynamic orders the rules when the API boots.                  *)
(*                                                                         *)
(* Members are not modelled: SegmentSync is about them, for rules that     *)
(* stay as they are.  SegmentCascade adds the cascade consumer.            *)
(***************************************************************************)
EXTENDS Naturals, Sequences, FiniteSets, SequencesExt

CONSTANTS
    Ids,        \* the segments ever created: an id is never used again
    Seeded,     \* those that the seed script created, none on an empty database
    Callers,    \* concurrent HTTP requests
    Writable,   \* <<parent, child>> pairs that users write into rules
    NoId,
    MaxUpdates, \* bound on rule changes
    MaxFaults   \* bound on crashes and failed evaluations

\* The processes that evaluate one segment after the other.
Loops == {"boot", "cascade"}
Procs == Callers \cup Loops

ASSUME IdsAssumption == IsFiniteSet(Ids)
ASSUME WritableAssumption == Writable \subseteq Ids \X Ids
ASSUME SeededAssumption == Seeded \subseteq Ids
ASSUME CallersAssumption == Callers \cap Loops = {}
ASSUME NoIdAssumption == NoId \notin Ids
ASSUME BoundsAssumption == MaxUpdates \in Nat /\ MaxFaults \in Nat

VARIABLES
    kind,    \* type of each segment row; "unused", "deleted": no such row
    refs,    \* segments that the stored rule refers to (collectParentIds)
    deps,    \* SegmentDependency rows <<parent, child>>
    pc,      \* the await each process is at
    op,      \* what a caller does
    id,      \* segment a process works on
    rule,    \* references of the rule it holds: the body's, then the row's
    order,   \* segments a loop has still to evaluate
    updates, \* rule changes accepted so far
    faults   \* faults so far

work == <<op, id, rule, order>>
vars == <<kind, refs, deps, pc, op, id, rule, order, updates, faults>>

Types == {"DYNAMIC", "STATIC"}
Existing == {i \in Ids : kind[i] \in Types}
Dynamic == {i \in Ids : kind[i] = "DYNAMIC"}
Parents(i) == {e[1] : e \in {e \in Writable : e[2] = i}}

\* The edges that the rules of the segments in S ask for.
RuleEdges(S) == {e \in Ids \X S : e[1] \in refs[e[2]]}

\* The API boots on a seeded database, or on an empty one: the seed writes
\* dynamic segments and no edges.
Init ==
    /\ kind = [i \in Ids |-> IF i \in Seeded THEN "DYNAMIC" ELSE "unused"]
    /\ refs = [i \in Ids |-> IF i \in Seeded THEN Parents(i) \cap Seeded ELSE {}]
    /\ deps = {}
    /\ pc = [p \in Procs |-> IF p = "boot" THEN "snapshot" ELSE "idle"]
    /\ op = [p \in Procs |-> "none"]
    /\ id = [p \in Procs |-> NoId]
    /\ rule = [p \in Procs |-> {}]
    /\ order = [p \in Procs |-> <<>>]
    /\ updates = 0
    /\ faults = 0

-----------------------------------------------------------------------------
(* Requests: validation first, the write in a later step.                  *)

\* HTTP is served once the bootstrap rebuild is over.
Free(p) == pc[p] = "idle" /\ pc["boot"] = "idle"

Accept(p, what, i, R, next) ==
    /\ pc' = [pc EXCEPT ![p] = next]
    /\ op' = [op EXCEPT ![p] = what]
    /\ id' = [id EXCEPT ![p] = i]
    /\ rule' = [rule EXCEPT ![p] = R]
    /\ updates' = IF what = "update" THEN updates + 1 ELSE updates
    /\ UNCHANGED <<kind, refs, deps, order, faults>>

\* assertRuleReferences.
References(i, R) ==
    /\ R \subseteq Parents(i) \ {i}
    /\ R \subseteq Existing

CheckCreate(p) == \E i \in Ids :
    /\ Free(p)
    /\ kind[i] = "unused"
    /\ \A q \in Procs : id[q] # i
    /\ \E what \in {"create dynamic", "create static"}, R \in SUBSET Ids :
        References(i, R) /\ Accept(p, what, i, R, "insert")

CheckUpdate(p) == \E i \in Existing, R \in SUBSET Ids :
    /\ Free(p)
    /\ updates < MaxUpdates
    /\ References(i, R)
    /\ Accept(p, "update", i, R, "store")

CheckRemove(p) == \E i \in Existing :
    /\ Free(p)
    /\ \A child \in Ids : <<i, child>> \notin deps
    /\ Accept(p, "remove", i, {}, "delete")

\* POST /segments/:id/evaluate; a STATIC one takes force.
Refresh(p) == \E i \in Existing :
    /\ Free(p)
    /\ Accept(p, "refresh", i, {}, "load")

-----------------------------------------------------------------------------
\* The request is over; a loop goes on to its next segment.
Done(p) ==
    /\ pc' = [pc EXCEPT ![p] = IF p \in Loops THEN "next" ELSE "idle"]
    /\ op' = [op EXCEPT ![p] = "none"]
    /\ id' = [id EXCEPT ![p] = NoId]
    /\ rule' = [rule EXCEPT ![p] = {}]

Insert(p) ==
    /\ pc[p] = "insert"
    /\ kind' = [kind EXCEPT ![id[p]] =
            IF op[p] = "create dynamic" THEN "DYNAMIC" ELSE "STATIC"]
    /\ refs' = [refs EXCEPT ![id[p]] = rule[p]]
    /\ IF op[p] = "create dynamic"
       THEN pc' = [pc EXCEPT ![p] = "load"] /\ UNCHANGED <<op, id, rule>>
       ELSE Done(p)
    /\ UNCHANGED <<deps, order, updates, faults>>

\* Fails if the row is gone.
Store(p) ==
    /\ pc[p] = "store"
    /\ refs' = IF id[p] \in Existing
               THEN [refs EXCEPT ![id[p]] = rule[p]] ELSE refs
    /\ IF id[p] \in Dynamic
       THEN pc' = [pc EXCEPT ![p] = "load"] /\ UNCHANGED <<op, id, rule>>
       ELSE Done(p)
    /\ UNCHANGED <<kind, deps, order, updates, faults>>

\* Mutant: the edges stay.
DeleteRowOnly(i) ==
    /\ kind' = [kind EXCEPT ![i] = "deleted"]
    /\ refs' = [refs EXCEPT ![i] = {}]
    /\ UNCHANGED deps

\* The row goes, and by ON DELETE CASCADE the edges at both of its ends.
DeleteRow(i) ==
    /\ kind' = [kind EXCEPT ![i] = "deleted"]
    /\ refs' = [refs EXCEPT ![i] = {}]
    /\ deps' = {e \in deps : i \notin {e[1], e[2]}}

Delete(p) ==
    /\ pc[p] = "delete"
    /\ DeleteRow(id[p])
    /\ Done(p)
    /\ UNCHANGED <<order, updates, faults>>

-----------------------------------------------------------------------------
(* evaluateSegment, up to the edges, and what its caller does on an error. *)

\* What the process held in memory is gone.
Forget(p) ==
    /\ pc' = [pc EXCEPT ![p] = "idle"]
    /\ order' = [order EXCEPT ![p] = <<>>]
    /\ op' = [op EXCEPT ![p] = "none"]
    /\ id' = [id EXCEPT ![p] = NoId]
    /\ rule' = [rule EXCEPT ![p] = {}]

Evaluating(p) == pc[p] \in {"load", "edges", "members", "commit"}

\* Mutant: a create that failed is not rolled back.
FailInPlace(p) == Forget(p) /\ UNCHANGED <<kind, refs, deps, updates>>

\* Mutant: the loop of a rebuild logs the error and goes on.
FailGoesOn(p) ==
    /\ IF op[p] = "create dynamic" /\ Evaluating(p)
       THEN pc' = [pc EXCEPT ![p] = "rollback"] /\ UNCHANGED work
       ELSE IF p = "boot" /\ Evaluating(p)
       THEN Done(p) /\ UNCHANGED order
       ELSE Forget(p)
    /\ UNCHANGED <<kind, refs, deps, updates>>

\* create rolls back if the evaluation throws; a loop stops there; the others
\* leave things as they are.
Fail(p) ==
    /\ IF op[p] = "create dynamic" /\ Evaluating(p)
       THEN pc' = [pc EXCEPT ![p] = "rollback"] /\ UNCHANGED work
       ELSE Forget(p)
    /\ UNCHANGED <<kind, refs, deps, updates>>

\* The row is there, and a STATIC one is only evaluated by force.
CanLoad(p) ==
    \/ id[p] \in Dynamic
    \/ id[p] \in Existing /\ op[p] = "refresh"

Load(p) ==
    /\ pc[p] = "load"
    /\ IF CanLoad(p)
       THEN /\ rule' = [rule EXCEPT ![p] = refs[id[p]]]
            /\ pc' = [pc EXCEPT ![p] = "edges"]
            /\ UNCHANGED <<kind, refs, deps, op, id, order, updates>>
       ELSE Fail(p)
    /\ UNCHANGED faults

\* An edge needs both of its segments: the insert breaks a foreign key if
\* one is gone.
CanReplace(p) == rule[p] = {} \/ rule[p] \cup {id[p]} \subseteq Existing

ReplaceDependencies(p) ==
    /\ pc[p] = "edges"
    /\ IF CanReplace(p)
       THEN /\ deps' = {e \in deps : e[2] # id[p]} \cup (rule[p] \X {id[p]})
            /\ pc' = [pc EXCEPT ![p] = "members"]
            /\ UNCHANGED <<kind, refs, work, updates>>
       ELSE Fail(p)
    /\ UNCHANGED faults

\* Metrics, the parents' members, those of the segment.
ReadMembers(p) ==
    /\ pc[p] = "members"
    /\ pc' = [pc EXCEPT ![p] = "commit"]
    /\ UNCHANGED <<kind, refs, deps, work, updates, faults>>

\* Members, deltas and outbox event.  If the segment is gone, rows that
\* refer to it break a foreign key.
CommitMembers(p) ==
    /\ pc[p] = "commit"
    /\ \/ Done(p) /\ UNCHANGED <<kind, refs, deps, order, updates>>
       \/ id[p] \notin Existing /\ Fail(p)
    /\ UNCHANGED faults

Rollback(p) ==
    /\ pc[p] = "rollback"
    /\ DeleteRow(id[p])
    /\ Done(p)
    /\ UNCHANGED <<order, updates, faults>>

-----------------------------------------------------------------------------
(* rebuildAllDynamic, at boot.                                             *)

\* topoSort: parents that are not dynamic do not count.
TopoSorts == {s \in SetToSeqs(Dynamic) :
    \A k \in 1..Len(s) :
        refs[s[k]] \cap Dynamic \subseteq {s[j] : j \in 1..(k - 1)}}

Snapshot(p) ==
    /\ pc[p] = "snapshot"
    /\ IF TopoSorts = {}
       THEN Fail(p)
       ELSE /\ order' \in {[order EXCEPT ![p] = s] : s \in TopoSorts}
            /\ pc' = [pc EXCEPT ![p] = "next"]
            /\ UNCHANGED <<kind, refs, deps, op, id, rule, updates>>
    /\ UNCHANGED faults

NextSegment(p) ==
    /\ pc[p] = "next"
    /\ IF order[p] = <<>>
       THEN pc' = [pc EXCEPT ![p] = "idle"] /\ UNCHANGED <<id, order>>
       ELSE /\ id' = [id EXCEPT ![p] = Head(order[p])]
            /\ order' = [order EXCEPT ![p] = Tail(@)]
            /\ pc' = [pc EXCEPT ![p] = "load"]
    /\ UNCHANGED <<kind, refs, deps, op, rule, updates, faults>>

EvaluationStep(p) ==
    \/ Load(p)
    \/ ReplaceDependencies(p)
    \/ ReadMembers(p)
    \/ CommitMembers(p)

-----------------------------------------------------------------------------
(* Faults. *)

\* The query at which p waits throws for a reason of its own, and has changed
\* nothing.  It may be any of them, the delete of a rollback included.
QueryFails(p) ==
    /\ pc[p] \notin {"idle", "next"}
    /\ faults < MaxFaults
    /\ faults' = faults + 1
    /\ Fail(p)

\* The API dies, whatever it was doing, and boots.
Restart ==
    /\ faults < MaxFaults
    /\ faults' = faults + 1
    /\ pc' = [p \in Procs |-> IF p = "boot" THEN "snapshot" ELSE "idle"]
    /\ op' = [p \in Procs |-> "none"]
    /\ id' = [p \in Procs |-> NoId]
    /\ rule' = [p \in Procs |-> {}]
    /\ order' = [p \in Procs |-> <<>>]
    /\ UNCHANGED <<kind, refs, deps, updates>>

-----------------------------------------------------------------------------
RequestStep(p) ==
    \/ CheckCreate(p)
    \/ CheckUpdate(p)
    \/ CheckRemove(p)
    \/ Refresh(p)
    \/ Insert(p)
    \/ Store(p)
    \/ Delete(p)
    \/ Rollback(p)

Next ==
    \/ \E p \in Callers : RequestStep(p) \/ EvaluationStep(p)
    \/ Snapshot("boot")
    \/ NextSegment("boot")
    \/ EvaluationStep("boot")
    \/ \E p \in Callers \cup {"boot"} : QueryFails(p)
    \/ Restart

Spec == Init /\ [][Next]_vars

-----------------------------------------------------------------------------
(* Properties. *)

TypeOK ==
    /\ kind \in [Ids -> Types \cup {"unused", "deleted"}]
    /\ refs \in [Ids -> SUBSET Ids]
    /\ deps \subseteq Existing \X Existing
    /\ pc \in [Procs -> {"idle", "snapshot", "lookup", "next", "insert",
                         "store", "delete", "load", "edges", "members",
                         "commit", "rollback"}]
    /\ op \in [Procs -> {"none", "create dynamic", "create static", "update",
                         "remove", "refresh"}]
    /\ id \in [Procs -> Ids \cup {NoId}]
    /\ rule \in [Procs -> SUBSET Ids]
    /\ order \in [Procs -> Seq(Ids)]
    /\ updates \in 0..MaxUpdates
    /\ faults \in 0..MaxFaults

(* A rebuild that gets to its end leaves the dependency graph of the       *)
(* dynamic segments exactly as their stored rules ask for, whatever it     *)
(* found: seeds without edges, rules stored by requests that then threw or *)
(* died, edges of two updates that overlapped, creates whose rollback      *)
(* failed.  An edge too few, and the cascade skips a dependent; one too    *)
(* many, and it may requeue a message for ever.                            *)
RebuildRepairs == pc["boot"] = "next" /\ order["boot"] = <<>> =>
    {e \in deps : e[2] \in Dynamic} = RuleEdges(Dynamic)

AtRest == \A p \in Procs : pc[p] = "idle"

(* "Blocked if any other segment references this one via in_segment": no   *)
(* rule of a dynamic segment refers to a deleted one.                      *)
RulesResolve == AtRest => \A i \in Dynamic : refs[i] \subseteq Existing

(* The same of all segments.                                               *)
AllRulesResolve == \A i \in Existing : refs[i] \subseteq Existing
=============================================================================
