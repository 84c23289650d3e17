------------------------- MODULE SegmentSyncProofs -------------------------
(***************************************************************************)
(* SegmentSync's invariants hold for every value of the constants: type    *)
(* correctness for any rules, and, for rules of the shape TwoLevel, that a *)
(* system at rest is in sync.                                              *)
(***************************************************************************)
EXTENDS SegmentSync, TLAPS

Leaf(s) == Parents[s] = {}

Sweeping(p) == pc[p] \in EvalSteps \cup {"pick"}

\* The data may have changed since a process read it.
DataMoved == Signal /\ pc["boot"] = "idle"

\* Applying the diff of want and read to rows that agree gives want.
Agrees(rows, want, read) == \A c \in Customers :
    (c \in rows <=> c \in want) \/ (c \in rows <=> c \in read)

\* Who is where.
Control ==
    /\ \A p \in Procs : todo[p] # {} => Sweeping(p)
    /\ pc["boot"] \notin {"snapshot", "lookup"}
    /\ pc["boot"] # "idle" => \A h \in Handlers : handler[h] = {}
    /\ pc["flush"] # "lookup"
    /\ pc["cascade"] # "snapshot"
    /\ \A s \in todo["cascade"] : msg \in Parents[s]
    /\ pc["cascade"] \in EvalSteps => msg \in Parents[seg["cascade"]]
    /\ \A p \in Rebuilders :
        pc[p] \in EvalSteps => Parents[seg[p]] \cap todo[p] = {}

\* A process past replaceDependencies has written its edges.
Edges ==
    /\ EdgesComplete
    /\ \A p \in Procs, s \in Segments :
        Evaluating(p, s) /\ pc[p] # "edges" => Parents[s] \X {s} \subseteq deps

\* A rebuild at a leaf works on the current data, or a signal says not.
LeafTarget == \A p \in Rebuilders, s \in Segments :
    Evaluating(p, s) /\ Leaf(s) /\ ~DataMoved =>
        /\ pc[p] \in {"parents", "current", "commit"} =>
            target[p] = Qualifying(s)
        /\ pc[p] = "commit" => Agrees(member[s], Qualifying(s), current[p])

LeafOwed == \A s \in Segments : Leaf(s) =>
    member[s] = Qualifying(s) \/ Signal \/ RebuildOwes(s)

\* While the boot rebuild runs no data changes, so a leaf that a rebuild
\* has passed is right.
LeafDone == pc["boot"] # "idle" => \A p \in Rebuilders, s \in Segments :
    Leaf(s) /\ Sweeping(p) /\ s \notin todo[p] /\ ~Evaluating(p, s) =>
        member[s] = Qualifying(s)

\* Every customer passes the compare nodes of a rule that has none.
ChildMetrics == \A p \in Procs, s \in Segments :
    Evaluating(p, s) /\ ~Leaf(s) /\ pc[p] = "parents" => target[p] = Customers

\* A rebuild reads the parents of a segment after it evaluated them, and
\* nobody changes them until it is done.
ChildTarget == \A p \in Rebuilders, s \in Segments :
    Evaluating(p, s) /\ ~Leaf(s) =>
        /\ pc[p] \in {"current", "commit"} => target[p] = RuleTarget(s)
        /\ pc[p] = "commit" =>
            \/ Agrees(member[s], RuleTarget(s), current[p])
            \/ CascadeOwes(s)

\* The cascade works on the current parents, or another event will come.
CascadeTarget == \A s \in Segments :
    Evaluating("cascade", s) /\ ~EventPending(s) =>
        /\ pc["cascade"] \in {"current", "commit"} =>
            target["cascade"] = RuleTarget(s)
        /\ pc["cascade"] = "commit" =>
            Agrees(member[s], RuleTarget(s), current["cascade"])

ChildOwed == \A s \in Segments : ~Leaf(s) =>
    InSync(s) \/ RebuildOwes(s) \/ CascadeOwes(s)

\* The inductive invariant: StaleIsOwed with what it takes to preserve it.
IndInv ==
    /\ TypeOK
    /\ Control
    /\ Edges
    /\ LeafTarget
    /\ LeafOwed
    /\ LeafDone
    /\ ChildMetrics
    /\ ChildTarget
    /\ CascadeTarget
    /\ ChildOwed
-----------------------------------------------------------------------------
(* Type correctness. *)

\* The four simulator endpoints write the same way: see Write.
LEMMA WriteCases ==
    ASSUME TypeOK, NEW h \in Handlers,
           \/ SimulateTransaction(h)
           \/ SimulateProfile(h)
           \/ SimulateBulk(h)
           \/ AdvanceTime(h)
    PROVE  \E touched \in SUBSET Customers, data \in [Customers -> Metrics] :
                Write(h, touched, data)
BY DEF TypeOK, SimulateTransaction, SimulateProfile, SimulateBulk, AdvanceTime

\* Each kind of step once, for the proofs that go through them all.
LEMMA StepCases ==
    ASSUME TypeOK, Next
    PROVE  \/ \E h \in Handlers, touched \in SUBSET Customers,
                 data \in [Customers -> Metrics] : Write(h, touched, data)
           \/ \E h \in Handlers : MarkChanged(h)
           \/ FlushRename
           \/ FlushRebuild
           \/ \E p \in Procs : EvaluationStep(p)
           \/ \E s \in Segments : Publish(s)
           \/ \E s \in Segments : PublishUnmarked(s)
           \/ \E s \in Segments : Deliver(s)
           \/ LookupDependents
           \/ Nack
           \/ Restart
BY WriteCases DEF Next

LEMMA TypeOKStep == TypeOK /\ [Next]_vars => TypeOK'
<1> SUFFICES ASSUME TypeOK, [Next]_vars PROVE TypeOK'
  OBVIOUS
<1> USE ParentsAssumption, NoSegmentAssumption, BoundsAssumption
<1>1. ASSUME NEW h \in Handlers, NEW touched \in SUBSET Customers,
             NEW data \in [Customers -> Metrics], Write(h, touched, data)
      PROVE  TypeOK'
  BY <1>1 DEF TypeOK, Write, local
<1>2. ASSUME NEW h \in Handlers, MarkChanged(h) PROVE TypeOK'
  BY <1>2 DEF TypeOK, MarkChanged, db, local
<1>3. CASE FlushRename
  BY <1>3 DEF TypeOK, FlushRename, db, Steps, EvalSteps, Procs, Rebuilders
<1>4. CASE FlushRebuild
  BY <1>4 DEF TypeOK, FlushRebuild, db, Steps, EvalSteps, Procs, Rebuilders
<1>5. ASSUME NEW p \in Procs, EvaluationStep(p) PROVE TypeOK'
  <2>1. CASE Evaluate(p)
    BY <2>1 DEF TypeOK, Evaluate, Ready, db, Steps, EvalSteps
  <2>2. CASE ReplaceDependencies(p)
    BY <2>2 DEF TypeOK, ReplaceDependencies, Steps, EvalSteps, RuleEdges
  <2>3. CASE ComputeMetrics(p)
    BY <2>3 DEF TypeOK, ComputeMetrics, db, Steps, EvalSteps, Qualifying
  <2>4. CASE LoadParents(p)
    BY <2>4 DEF TypeOK, LoadParents, db, Steps, EvalSteps
  <2>5. CASE ReadCurrent(p)
    BY <2>5 DEF TypeOK, ReadCurrent, db, Steps, EvalSteps
  <2>6. CASE Commit(p)
    BY <2>6 DEF TypeOK, Commit, Added, Removed, Steps, EvalSteps
  <2>7. CASE Finish(p)
    BY <2>7 DEF TypeOK, Finish, db, Steps, EvalSteps
  <2>8. QED
    BY <1>5, <2>1, <2>2, <2>3, <2>4, <2>5, <2>6, <2>7 DEF EvaluationStep
<1>6. ASSUME NEW s \in Segments, Publish(s) PROVE TypeOK'
  BY <1>6 DEF TypeOK, Publish, local
<1>7. ASSUME NEW s \in Segments, PublishUnmarked(s) PROVE TypeOK'
  BY <1>7 DEF TypeOK, PublishUnmarked, db, local
<1>8. ASSUME NEW s \in Segments, Deliver(s) PROVE TypeOK'
  BY <1>8 DEF TypeOK, Deliver, db, Steps, EvalSteps, Procs, Rebuilders
<1>9. CASE LookupDependents
  BY <1>9 DEF TypeOK, LookupDependents, db, Steps, EvalSteps, Procs, Rebuilders
<1>10. CASE Nack
  BY <1>10 DEF TypeOK, Nack, Abandon, db, Steps, EvalSteps, Procs, Rebuilders
<1>11. CASE Restart
  <2>1. PICK kept \in Unlost :
            queue' = IF msg = NoSegment THEN kept
                     ELSE [kept EXCEPT ![msg] = @ + 1]
    BY <1>11 DEF Restart
  <2>2. kept \in [Segments -> Nat]
    <3>1. ASSUME NEW n PROVE 0..n \subseteq Nat
      OBVIOUS
    <3>2. QED
      BY <3>1 DEF Unlost
  <2>3. queue' \in [Segments -> Nat]
    BY <2>1, <2>2 DEF TypeOK
  <2>4. QED
    BY <1>11, <2>3 DEF TypeOK, Restart, Idle, db, Steps, EvalSteps, Procs,
                       Rebuilders
<1>12. CASE UNCHANGED vars
  BY <1>12 DEF TypeOK, vars
<1>13. QED
  BY StepCases, <1>1, <1>2, <1>3, <1>4, <1>5, <1>6, <1>7, <1>8, <1>9, <1>10,
     <1>11, <1>12

LEMMA TypeOKInit == Init => TypeOK
BY ParentsAssumption, NoSegmentAssumption, BoundsAssumption
   DEF Init, TypeOK, Idle, Steps, EvalSteps, Procs, Rebuilders

(* Every variable keeps its type, for any rules and any number of          *)
(* customers, segments and concurrent calls.                               *)
THEOREM TypeCorrect == Spec => []TypeOK
BY TypeOKInit, TypeOKStep, PTL DEF Spec
-----------------------------------------------------------------------------
(* Lemmas on rules, diffs and what is owed. *)

LEMMA LeafRule ==
    ASSUME NEW s \in Segments, Leaf(s) PROVE RuleTarget(s) = Qualifying(s)
BY DEF Leaf, RuleTarget, Qualifying

LEMMA ChildRule ==
    ASSUME TwoLevel, TypeOK, NEW s \in Segments, ~Leaf(s)
    PROVE  /\ Qualifying(s) = Customers
           /\ \A q \in Parents[s] : q \in Segments /\ Leaf(q)
BY ParentsAssumption DEF TwoLevel, TypeOK, Leaf, Qualifying

\* What the transaction leaves in the rows, customer by customer.
LEMMA CommitRows ==
    ASSUME TypeOK, NEW p \in Procs, Commit(p)
    PROVE  /\ seg[p] \in Segments
           /\ \A c \in Customers : c \in member'[seg[p]] <=>
                IF c \in target[p] <=> c \in current[p]
                THEN c \in member[seg[p]] ELSE c \in target[p]
           /\ \A s \in Segments \ {seg[p]} : member'[s] = member[s]
           /\ \A s \in Segments : outbox'[s] >= outbox[s]
           /\ \/ member'[seg[p]] = member[seg[p]]
              \/ outbox'[seg[p]] > 0
<1>1. seg[p] \in Segments
  BY DEF TypeOK, Commit, EvalSteps
<1>2. /\ member'[seg[p]] = (member[seg[p]] \cup Added(p)) \ Removed(p)
      /\ \A s \in Segments \ {seg[p]} : member'[s] = member[s]
  BY <1>1 DEF TypeOK, Commit
<1>3. \A c \in Customers : c \in member'[seg[p]] <=>
        IF c \in target[p] <=> c \in current[p]
        THEN c \in member[seg[p]] ELSE c \in target[p]
  BY <1>2 DEF Added, Removed
<1>4. /\ \A s \in Segments : outbox'[s] >= outbox[s]
      /\ Added(p) \cup Removed(p) # {} => outbox'[seg[p]] > 0
  BY <1>1 DEF TypeOK, Commit
<1>5. Added(p) \cup Removed(p) = {} => member'[seg[p]] = member[seg[p]]
  BY <1>2
<1>6. QED
  BY <1>1, <1>2, <1>3, <1>4, <1>5

\* A fresh diff applied to rows that agree makes the rows right...
LEMMA CommitSettles ==
    ASSUME TypeOK, TypeOK', NEW p \in Procs, Commit(p),
           NEW want \in SUBSET Customers, target[p] = want,
           Agrees(member[seg[p]], want, current[p])
    PROVE  member'[seg[p]] = want
<1>1. member'[seg[p]] \subseteq Customers
  BY CommitRows DEF TypeOK
<1>2. \A c \in Customers : c \in member'[seg[p]] <=> c \in want
  BY CommitRows DEF Agrees
<1>3. QED
  BY <1>1, <1>2

\* ... and does not spoil what another process is about to do to them.
LEMMA CommitAgrees ==
    ASSUME TypeOK, NEW p \in Procs, Commit(p),
           NEW want, NEW read, target[p] = want,
           Agrees(member[seg[p]], want, read)
    PROVE  Agrees(member'[seg[p]], want, read)
BY CommitRows DEF Agrees

\* Only the cascade evaluates on account of an event, and never a leaf.
LEMMA LeafSweep ==
    ASSUME IndInv, NEW p \in Procs, NEW s \in Segments, Leaf(s),
           Evaluating(p, s)
    PROVE  p \in Rebuilders
BY DEF IndInv, TypeOK, Control, Evaluating, Leaf, Procs,
       Rebuilders, EvalSteps

LEMMA WhoEvaluates ==
    ASSUME IndInv, NEW p \in Procs, pc[p] # "idle"
    PROVE  p \in Rebuilders \cup {"cascade"}
BY DEF IndInv, Control, Procs, Rebuilders
-----------------------------------------------------------------------------
(* Each part of the invariant is preserved. *)

LEMMA ControlStep ==
    ASSUME TypeOK, Control, Next, TypeOK' PROVE Control'
<1> USE ParentsAssumption, NoSegmentAssumption
    DEF TypeOK, Control, Sweeping, Procs, Rebuilders,
        EvalSteps
<1>1. ASSUME NEW h \in Handlers, NEW touched \in SUBSET Customers,
             NEW data \in [Customers -> Metrics], Write(h, touched, data)
      PROVE  Control'
  BY <1>1 DEF Write, local
<1>2. ASSUME NEW h \in Handlers, MarkChanged(h) PROVE Control'
  BY <1>2 DEF MarkChanged, db, local
<1>3. CASE FlushRename
  BY <1>3 DEF FlushRename, db
<1>4. CASE FlushRebuild
  BY <1>4 DEF FlushRebuild, db
<1>5. ASSUME NEW p \in Procs, EvaluationStep(p) PROVE Control'
  <2>1. CASE Evaluate(p)
    BY <2>1 DEF Evaluate, Ready, db
  <2>2. CASE ReplaceDependencies(p)
    BY <2>2 DEF ReplaceDependencies
  <2>3. CASE ComputeMetrics(p)
    BY <2>3 DEF ComputeMetrics, db
  <2>4. CASE LoadParents(p)
    BY <2>4 DEF LoadParents, db
  <2>5. CASE ReadCurrent(p)
    BY <2>5 DEF ReadCurrent, db
  <2>6. CASE Commit(p)
    BY <2>6 DEF Commit
  <2>7. CASE Finish(p)
    BY <2>7 DEF Finish, db
  <2>8. QED
    BY <1>5, <2>1, <2>2, <2>3, <2>4, <2>5, <2>6, <2>7 DEF EvaluationStep
<1>6. ASSUME NEW s \in Segments, Publish(s) PROVE Control'
  BY <1>6 DEF Publish, local
<1>7. ASSUME NEW s \in Segments, PublishUnmarked(s) PROVE Control'
  BY <1>7 DEF PublishUnmarked, db, local
<1>8. ASSUME NEW s \in Segments, Deliver(s) PROVE Control'
  BY <1>8 DEF Deliver, db
<1>9. CASE LookupDependents
  <2>1. \A s \in Segments : <<msg, s>> \in deps => msg \in Parents[s]
    BY DEF RuleEdges
  <2>2. QED
    BY <1>9, <2>1 DEF LookupDependents, db
<1>10. CASE Nack
  BY <1>10 DEF Nack, Abandon, db
<1>11. CASE Restart
  BY <1>11 DEF Restart, Idle, db
<1>12. QED
  BY StepCases, <1>1, <1>2, <1>3, <1>4, <1>5, <1>6, <1>7, <1>8, <1>9, <1>10,
     <1>11

LEMMA EdgesStep ==
    ASSUME TypeOK, Edges, Next, TypeOK' PROVE Edges'
<1> USE ParentsAssumption, NoSegmentAssumption
    DEF TypeOK, Edges, EdgesComplete, Evaluating, Procs, Rebuilders,
        EvalSteps
<1>1. ASSUME NEW h \in Handlers, NEW touched \in SUBSET Customers,
             NEW data \in [Customers -> Metrics], Write(h, touched, data)
      PROVE  Edges'
  BY <1>1 DEF Write, local
<1>2. ASSUME NEW h \in Handlers, MarkChanged(h) PROVE Edges'
  BY <1>2 DEF MarkChanged, db, local
<1>3. CASE FlushRename
  BY <1>3 DEF FlushRename, db
<1>4. CASE FlushRebuild
  BY <1>4 DEF FlushRebuild, db
<1>5. ASSUME NEW p \in Procs, EvaluationStep(p) PROVE Edges'
  <2>1. CASE Evaluate(p)
    BY <2>1 DEF Evaluate, Ready, db
  <2>2. CASE ReplaceDependencies(p)
    <3>1. deps \subseteq deps' /\ Parents[seg[p]] \X {seg[p]} \subseteq deps'
      BY <2>2 DEF ReplaceDependencies, RuleEdges
    <3>2. QED
      BY <2>2, <3>1 DEF ReplaceDependencies
  <2>3. CASE ComputeMetrics(p)
    BY <2>3 DEF ComputeMetrics, db
  <2>4. CASE LoadParents(p)
    BY <2>4 DEF LoadParents, db
  <2>5. CASE ReadCurrent(p)
    BY <2>5 DEF ReadCurrent, db
  <2>6. CASE Commit(p)
    BY <2>6 DEF Commit
  <2>7. CASE Finish(p)
    BY <2>7 DEF Finish, db
  <2>8. QED
    BY <1>5, <2>1, <2>2, <2>3, <2>4, <2>5, <2>6, <2>7 DEF EvaluationStep
<1>6. ASSUME NEW s \in Segments, Publish(s) PROVE Edges'
  BY <1>6 DEF Publish, local
<1>7. ASSUME NEW s \in Segments, PublishUnmarked(s) PROVE Edges'
  BY <1>7 DEF PublishUnmarked, db, local
<1>8. ASSUME NEW s \in Segments, Deliver(s) PROVE Edges'
  BY <1>8 DEF Deliver, db
<1>9. CASE LookupDependents
  BY <1>9 DEF LookupDependents, db
<1>10. CASE Nack
  BY <1>10 DEF Nack, Abandon, db
<1>11. CASE Restart
  BY <1>11 DEF Restart, Idle, db
<1>12. QED
  BY StepCases, <1>1, <1>2, <1>3, <1>4, <1>5, <1>6, <1>7, <1>8, <1>9, <1>10,
     <1>11
-----------------------------------------------------------------------------
(* What a step can do to the parts of the state the invariant relates. *)

\* A step that touches neither the data nor an evaluation under way.
Aside ==
    /\ metrics' = metrics
    /\ member' = member
    /\ \A p \in Procs : pc'[p] \in EvalSteps =>
        /\ pc'[p] = pc[p]
        /\ seg'[p] = seg[p]
        /\ target'[p] = target[p]
        /\ current'[p] = current[p]

LEMMA AsideCases ==
    ASSUME TypeOK, Next
    PROVE  \/ \E h \in Handlers, touched \in SUBSET Customers,
                 data \in [Customers -> Metrics] : Write(h, touched, data)
           \/ \E p \in Procs : EvaluationStep(p)
           \/ Aside
<1> USE DEF TypeOK, Aside, db, local, Procs, Rebuilders, EvalSteps
<1>1. ASSUME NEW h \in Handlers, MarkChanged(h) PROVE Aside
  BY <1>1 DEF MarkChanged
<1>2. FlushRename => Aside
  BY DEF FlushRename
<1>3. FlushRebuild => Aside
  BY DEF FlushRebuild
<1>4. ASSUME NEW s \in Segments, Publish(s) PROVE Aside
  BY <1>4 DEF Publish
<1>5. ASSUME NEW s \in Segments, PublishUnmarked(s) PROVE Aside
  BY <1>5 DEF PublishUnmarked
<1>6. ASSUME NEW s \in Segments, Deliver(s) PROVE Aside
  BY <1>6 DEF Deliver
<1>7. LookupDependents => Aside
  BY DEF LookupDependents
<1>8. Nack => Aside
  BY DEF Nack, Abandon
<1>9. Restart => Aside
  BY DEF Restart, Idle
<1>10. QED
  BY StepCases, <1>1, <1>2, <1>3, <1>4, <1>5, <1>6, <1>7, <1>8, <1>9

\* A step of one process leaves the others where they are.
LEMMA EvaluationFrame ==
    ASSUME TypeOK, NEW r \in Procs, EvaluationStep(r)
    PROVE  /\ UNCHANGED <<metrics, buffer, handler, queue>>
           /\ member' = member \/ Commit(r)
           /\ \A p \in Procs \ {r} :
                /\ pc'[p] = pc[p]
                /\ todo'[p] = todo[p]
                /\ seg'[p] = seg[p]
                /\ target'[p] = target[p]
                /\ current'[p] = current[p]
BY DEF TypeOK, EvaluationStep, Evaluate, Ready,
       ReplaceDependencies, ComputeMetrics,
       LoadParents, ReadCurrent, Commit, Finish, db

LEMMA SignalStep ==
    ASSUME TypeOK, Next, Signal PROVE Signal' \/ FlushRename \/ Restart
<1> USE DEF TypeOK, Signal, db, local
<1>1. ASSUME NEW h \in Handlers, NEW touched \in SUBSET Customers,
             NEW data \in [Customers -> Metrics], Write(h, touched, data)
      PROVE  Signal'
  BY <1>1 DEF Write
<1>2. ASSUME NEW h \in Handlers, MarkChanged(h) PROVE Signal'
  BY <1>2 DEF MarkChanged
<1>3. ASSUME NEW p \in Procs, EvaluationStep(p) PROVE Signal'
  BY <1>3, EvaluationFrame
<1>4. QED
  BY StepCases, <1>1, <1>2, <1>3
     DEF FlushRebuild, Publish, PublishUnmarked, Deliver, LookupDependents,
         Nack

\* The boot rebuild starts with the process and never again.
LEMMA BootStep ==
    ASSUME TypeOK, Next, pc["boot"] = "idle"
    PROVE  pc'["boot"] = "idle" \/ Restart
<1> USE DEF TypeOK, db, local, Procs, Rebuilders
<1>1. ASSUME NEW p \in Procs, EvaluationStep(p) PROVE pc'["boot"] = "idle"
  BY <1>1, EvaluationFrame
     DEF EvaluationStep, Evaluate, Ready, ReplaceDependencies, ComputeMetrics,
         LoadParents, ReadCurrent, Commit, Finish
<1>2. QED
  BY StepCases, <1>1
     DEF Write, MarkChanged, FlushRename, FlushRebuild, Publish,
         PublishUnmarked, Deliver, LookupDependents, Nack, Abandon

\* Data changes only when HTTP is served, and leaves a signal.
LEMMA WriteMoves ==
    ASSUME TypeOK, NEW h \in Handlers, NEW touched \in SUBSET Customers,
           NEW data \in [Customers -> Metrics], Write(h, touched, data)
    PROVE  /\ DataMoved'
           /\ UNCHANGED <<member, outbox, queue, msg, local>>
BY DEF TypeOK, Write, DataMoved, Signal, local

LEMMA DataStep ==
    ASSUME TypeOK, Next
    PROVE  metrics' = metrics \/ DataMoved'
BY AsideCases, EvaluationFrame, WriteMoves DEF Aside

\* A signal outlives every evaluation it may concern.
LEMMA MovedStep ==
    ASSUME TypeOK, Next, NEW p \in Rebuilders, pc'[p] \in EvalSteps, DataMoved
    PROVE  DataMoved'
<1>1. ~Restart
  BY DEF Restart, Idle, Procs, Rebuilders, EvalSteps
<1>2. pc'["boot"] = "idle"
  BY <1>1, BootStep DEF DataMoved
<1>3. ~FlushRename
  BY <1>2 DEF FlushRename, Procs, Rebuilders, EvalSteps, TypeOK
<1>4. QED
  BY <1>1, <1>2, <1>3, SignalStep DEF DataMoved

LEMMA EventStep ==
    ASSUME TypeOK, Next, NEW s \in Segments, EventPending(s)
    PROVE  \/ EventPending(s)'
           \/ \E q \in Parents[s] : Deliver(q)
           \/ Restart
<1> USE ParentsAssumption DEF TypeOK, db, local
<1>1. PICK q \in Parents[s] : outbox[q] > 0 \/ queue[q] > 0
  BY DEF EventPending
<1>2. q \in Segments
  OBVIOUS
<1>3. SUFFICES ASSUME ~Deliver(q), ~Restart
               PROVE  outbox'[q] > 0 \/ queue'[q] > 0
  BY DEF EventPending
<1>4. ASSUME NEW p \in Procs, EvaluationStep(p)
      PROVE  outbox'[q] > 0 \/ queue'[q] > 0
  <2>1. CASE Commit(p)
    BY <1>1, <1>2, <2>1, CommitRows DEF Commit
  <2>2. CASE ~Commit(p)
    BY <1>1, <1>2, <1>4, <2>2
       DEF EvaluationStep, Evaluate, Ready, ReplaceDependencies, ComputeMetrics,
           LoadParents, ReadCurrent, Finish
  <2>3. QED
    BY <2>1, <2>2
<1>5. ASSUME NEW x \in Segments,
             Publish(x) \/ PublishUnmarked(x) \/ Deliver(x)
      PROVE  outbox'[q] > 0 \/ queue'[q] > 0
  BY <1>1, <1>2, <1>3, <1>5 DEF Publish, PublishUnmarked, Deliver
<1>6. CASE Nack
  BY <1>1, <1>2, <1>6 DEF Nack
<1>7. QED
  BY <1>1, <1>2, <1>3, <1>4, <1>5, <1>6, StepCases, WriteMoves
     DEF MarkChanged, FlushRename, FlushRebuild, LookupDependents

LEMMA RebuildOwesStep ==
    ASSUME IndInv, Next, NEW s \in Segments, RebuildOwes(s)
    PROVE  \/ RebuildOwes(s)'
           \/ \E p \in Rebuilders : Commit(p) /\ seg[p] = s
<1> USE DEF IndInv, TypeOK, RebuildOwes, Evaluating, Procs,
            Rebuilders, EvalSteps, db, local
<1>1. ASSUME NEW h \in Handlers, NEW touched \in SUBSET Customers,
             NEW data \in [Customers -> Metrics], Write(h, touched, data)
      PROVE  RebuildOwes(s)'
  BY <1>1, WriteMoves
<1>2. ASSUME NEW p \in Procs, EvaluationStep(p),
             ~(p \in Rebuilders /\ Commit(p) /\ seg[p] = s)
      PROVE  RebuildOwes(s)'
  <2>1. PICK r \in Rebuilders :
            pc[r] = "snapshot" \/ s \in todo[r] \/ Evaluating(r, s)
    OBVIOUS
  <2>2. CASE r # p
    <3>1. pc'[r] = pc[r] /\ todo'[r] = todo[r] /\ seg'[r] = seg[r]
      BY <1>2, <2>2, EvaluationFrame
    <3>2. QED
      BY <2>1, <3>1
  <2>3. CASE r = p
    <3>1. EvaluationStep(r) /\ ~(Commit(r) /\ seg[r] = s)
      BY <1>2, <2>3
    <3>2. CASE Commit(r)
      BY <2>1, <3>1, <3>2 DEF Commit
    <3>3. CASE ~Commit(r)
      BY <2>1, <3>1, <3>3
         DEF EvaluationStep, Evaluate, Ready, ReplaceDependencies, ComputeMetrics,
             LoadParents, ReadCurrent, Finish
    <3>4. QED
      BY <3>2, <3>3
  <2>4. QED
    BY <2>2, <2>3
<1>3. CASE Restart
  BY <1>3 DEF Restart, Idle
<1>4. CASE Nack \/ LookupDependents \/ \E x \in Segments : Deliver(x)
  BY <1>4 DEF Nack, LookupDependents, Deliver, Abandon
<1>5. QED
  BY <1>1, <1>2, <1>3, <1>4, StepCases
     DEF MarkChanged, FlushRename, FlushRebuild, Publish, PublishUnmarked

LEMMA CascadeOwesStep ==
    ASSUME IndInv, Next, NEW s \in Segments, CascadeOwes(s)
    PROVE  \/ CascadeOwes(s)'
           \/ LookupDependents /\ ~(Parents[s] \X {s} \subseteq deps)
           \/ Restart
           \/ Commit("cascade") /\ seg["cascade"] = s
<1> USE ParentsAssumption
    DEF IndInv, TypeOK, CascadeOwes, Evaluating, Procs, Rebuilders,
        EvalSteps, db, local
<1>1. CASE EventPending(s)
  BY <1>1, EventStep DEF Deliver
<1>2. CASE ~EventPending(s)
  <2>1. \/ pc["cascade"] = "lookup" /\ msg \in Parents[s]
        \/ s \in todo["cascade"]
        \/ Evaluating("cascade", s)
    BY <1>2
  <2>2. msg \in Parents[s] /\ msg \in Segments
    BY <2>1, NoSegmentAssumption DEF Control
  <2>3. ASSUME NEW p \in Procs, EvaluationStep(p), p # "cascade"
        PROVE  CascadeOwes(s)'
    <3>1. msg' = msg
      BY <2>3 DEF EvaluationStep, Evaluate, Ready, ReplaceDependencies,
         ComputeMetrics, LoadParents, ReadCurrent, Commit, Finish
    <3>2. QED
      BY <2>1, <2>3, <3>1, EvaluationFrame
  <2>4. CASE /\ EvaluationStep("cascade")
             /\ ~(Commit("cascade") /\ seg["cascade"] = s)
    BY <2>1, <2>4
       DEF EvaluationStep, Evaluate, Ready, ReplaceDependencies, ComputeMetrics,
           LoadParents, ReadCurrent, Commit, Finish, Control, Sweeping
  <2>5. CASE Nack
    BY <2>2, <2>5 DEF Nack, EventPending
  <2>6. CASE LookupDependents /\ Parents[s] \X {s} \subseteq deps
    <3>1. <<msg, s>> \in deps
      BY <2>2, <2>6
    <3>2. QED
      BY <2>6, <3>1 DEF LookupDependents
  <2>7. ASSUME NEW x \in Segments, Deliver(x) PROVE CascadeOwes(s)'
    BY <2>2, <2>7, NoSegmentAssumption DEF Deliver
  <2>8. ASSUME NEW h \in Handlers, NEW touched \in SUBSET Customers,
               NEW data \in [Customers -> Metrics], Write(h, touched, data)
        PROVE  CascadeOwes(s)'
    BY <2>1, <2>8, WriteMoves
  <2>9. QED
    BY <2>1, <2>3, <2>4, <2>5, <2>6, <2>7, <2>8, StepCases
       DEF MarkChanged, FlushRename, FlushRebuild, Publish, PublishUnmarked
<1>3. QED
  BY <1>1, <1>2
-----------------------------------------------------------------------------
(* What a commit does to a leaf and to a child, given the invariant. *)

LEMMA LeafCommit ==
    ASSUME IndInv, TypeOK', NEW r \in Procs, Commit(r), Leaf(seg[r]),
           ~DataMoved
    PROVE  member'[seg[r]] = Qualifying(seg[r])
<1>1. TypeOK
  BY DEF IndInv
<1>2. seg[r] \in Segments /\ Evaluating(r, seg[r]) /\ pc[r] = "commit"
  BY <1>1, CommitRows DEF Commit, Evaluating, EvalSteps
<1>3. r \in Rebuilders
  BY <1>2, LeafSweep
<1>4. /\ target[r] = Qualifying(seg[r])
      /\ Agrees(member[seg[r]], Qualifying(seg[r]), current[r])
  BY <1>2, <1>3 DEF IndInv, LeafTarget
<1>5. Qualifying(seg[r]) \subseteq Customers
  BY DEF Qualifying
<1>6. QED
  BY <1>1, <1>4, <1>5, CommitSettles

\* Whoever commits a child: the rows become right, or the cascade will
\* visit the child again.
LEMMA ChildCommit ==
    ASSUME IndInv, TypeOK', NEW r \in Procs, Commit(r), ~Leaf(seg[r])
    PROVE  \/ member'[seg[r]] = RuleTarget(seg[r])
           \/ r # "cascade" /\ CascadeOwes(seg[r])
           \/ EventPending(seg[r])
<1>1. TypeOK
  BY DEF IndInv
<1>2. seg[r] \in Segments /\ Evaluating(r, seg[r]) /\ pc[r] = "commit"
  BY <1>1, CommitRows DEF Commit, Evaluating, EvalSteps
<1>3. r \in Rebuilders \cup {"cascade"}
  BY <1>2, WhoEvaluates
<1>4. SUFFICES ASSUME ~EventPending(seg[r]),
                      r = "cascade" \/ ~CascadeOwes(seg[r])
               PROVE  member'[seg[r]] = RuleTarget(seg[r])
  OBVIOUS
<1>5. /\ target[r] = RuleTarget(seg[r])
      /\ Agrees(member[seg[r]], RuleTarget(seg[r]), current[r])
  BY <1>2, <1>3, <1>4 DEF IndInv, ChildTarget, CascadeTarget
<1>6. RuleTarget(seg[r]) \subseteq Customers
  BY DEF RuleTarget, Qualifying
<1>7. QED
  BY <1>1, <1>5, <1>6, CommitSettles

LEMMA CommitKeepsEvents ==
    ASSUME TypeOK, NEW r \in Procs, Commit(r), NEW s \in Segments,
           EventPending(s)
    PROVE  EventPending(s)'
BY CommitRows, ParentsAssumption DEF TypeOK, EventPending, Commit

\* The target of a child moves only with its parents' rows.
LEMMA ChildRuleStep ==
    ASSUME TwoLevel, TypeOK, TypeOK', NEW s \in Segments, ~Leaf(s),
           \A q \in Parents[s] : member'[q] = member[q]
    PROVE  RuleTarget(s)' = RuleTarget(s)
<1>1. Qualifying(s) = Customers /\ Qualifying(s)' = Customers
  BY ParentsAssumption DEF TwoLevel, TypeOK, Leaf, Qualifying
<1>2. QED
  BY <1>1 DEF RuleTarget

LEMMA LeafRuleStep ==
    ASSUME NEW s \in Segments, metrics' = metrics
    PROVE  Qualifying(s)' = Qualifying(s)
BY DEF Qualifying

\* Rows change by a commit to them, and leave an event.
LEMMA RowStep ==
    ASSUME TypeOK, Next, NEW s \in Segments, member'[s] # member[s]
    PROVE  /\ \E r \in Procs : Commit(r) /\ seg[r] = s
           /\ outbox'[s] > 0
<1>1. PICK r \in Procs : Commit(r)
  BY AsideCases, WriteMoves, EvaluationFrame DEF Aside
<1>2. QED
  BY <1>1, CommitRows

LEMMA ParentStep ==
    ASSUME TypeOK, Next, NEW s \in Segments
    PROVE  \/ \A q \in Parents[s] : member'[q] = member[q]
           \/ EventPending(s)'
BY RowStep, ParentsAssumption DEF EventPending

\* Nobody changes the parents of a child while a rebuild works on it: a
\* second rebuild there would write what the first has already written.
LEMMA ParentsFixed ==
    ASSUME IndInv, TwoLevel, Next, TypeOK', NEW p \in Rebuilders,
           NEW s \in Segments, ~Leaf(s), Evaluating(p, s),
           NEW q \in Parents[s]
    PROVE  member'[q] = member[q]
<1>1. TypeOK /\ q \in Segments /\ Leaf(q) /\ p \in Procs
  BY ChildRule DEF IndInv, Procs, Rebuilders
<1>2. SUFFICES ASSUME member'[q] # member[q] PROVE FALSE
  OBVIOUS
<1>3. PICK r \in Procs : Commit(r) /\ seg[r] = q
  BY <1>1, <1>2, RowStep
<1>4. Evaluating(r, q)
  BY <1>3 DEF Commit, Evaluating, EvalSteps
<1>5. r \in Rebuilders /\ r # p
  BY <1>1, <1>4, LeafSweep DEF Evaluating
<1>6. pc["boot"] # "idle"
  BY <1>4, <1>5 DEF Evaluating, Rebuilders, EvalSteps
<1>7. q \notin todo[p] /\ Sweeping(p) /\ ~Evaluating(p, q)
  BY <1>1 DEF IndInv, Control, Evaluating, Sweeping
<1>8. member[q] = Qualifying(q)
  BY <1>1, <1>6, <1>7 DEF IndInv, LeafDone
<1>9. member'[q] = Qualifying(q)
  BY <1>1, <1>3, <1>6, LeafCommit DEF DataMoved
<1>10. QED
  BY <1>2, <1>8, <1>9
-----------------------------------------------------------------------------
(* The rest of the invariant is preserved. *)

\* Where a process that evaluates s after a step was before it.
LEMMA EvaluatingStep ==
    ASSUME IndInv, Next, NEW p \in Procs, NEW s \in Segments,
           Evaluating(p, s)'
    PROVE  \/ Evaluate(p) /\ pc'[p] = "edges"
           \/ /\ Evaluating(p, s)
              /\ \/ ReplaceDependencies(p) /\ pc'[p] = "metrics"
                 \/ ComputeMetrics(p) /\ pc'[p] = "parents"
                 \/ LoadParents(p) /\ pc[p] = "parents" /\ pc'[p] = "current"
                 \/ ReadCurrent(p) /\ pc[p] = "current" /\ pc'[p] = "commit"
           \/ /\ Evaluating(p, s)
              /\ pc'[p] = pc[p]
              /\ target'[p] = target[p]
              /\ current'[p] = current[p]
<1> USE DEF IndInv, TypeOK, Evaluating, EvalSteps
<1>1. ASSUME NEW h \in Handlers, NEW touched \in SUBSET Customers,
             NEW data \in [Customers -> Metrics], Write(h, touched, data)
      PROVE  UNCHANGED local
  BY <1>1, WriteMoves
<1>2. ASSUME NEW r \in Procs \ {p}, EvaluationStep(r)
      PROVE  /\ pc'[p] = pc[p]
             /\ seg'[p] = seg[p]
             /\ target'[p] = target[p]
             /\ current'[p] = current[p]
  BY <1>2, EvaluationFrame
<1>3. CASE EvaluationStep(p)
  BY <1>3
     DEF EvaluationStep, Evaluate, Ready, ReplaceDependencies, ComputeMetrics,
         LoadParents, ReadCurrent, Commit, Finish
<1>4. CASE Aside
  BY <1>4 DEF Aside
<1>5. QED
  BY <1>1, <1>2, <1>3, <1>4, AsideCases DEF local

LEMMA LeafTargetStep ==
    ASSUME IndInv, Next, TypeOK', Control' PROVE LeafTarget'
<1>1. SUFFICES ASSUME NEW p \in Rebuilders, NEW s \in Segments,
                      Evaluating(p, s)', Leaf(s), ~DataMoved'
      PROVE  /\ pc'[p] \in {"parents", "current", "commit"} =>
                    target'[p] = Qualifying(s)'
             /\ pc'[p] = "commit" =>
                    Agrees(member'[s], Qualifying(s)', current'[p])
  BY DEF LeafTarget, Leaf, Agrees
<1>2. TypeOK /\ LeafTarget /\ p \in Procs
  BY DEF IndInv, Procs, Rebuilders
<1>3. ~DataMoved
  BY <1>1, <1>2, MovedStep DEF Evaluating
<1>4. Qualifying(s)' = Qualifying(s)
  BY <1>1, <1>2, DataStep, LeafRuleStep
<1>5. CASE Evaluate(p) /\ pc'[p] = "edges"
  BY <1>5
<1>6. CASE ReplaceDependencies(p) /\ pc'[p] = "metrics"
  BY <1>6
<1>7. CASE Evaluating(p, s) /\ ComputeMetrics(p) /\ pc'[p] = "parents"
  BY <1>2, <1>4, <1>7 DEF ComputeMetrics, Evaluating, TypeOK
<1>8. CASE /\ Evaluating(p, s) /\ LoadParents(p)
           /\ pc[p] = "parents" /\ pc'[p] = "current"
  <2>1. target'[p] = {c \in target[p] : \A q \in Parents[s] : c \in member[q]}
    BY <1>2, <1>8 DEF LoadParents, Evaluating, TypeOK
  <2>2. target'[p] = target[p]
    BY <1>1, <2>1 DEF Leaf
  <2>3. target[p] = Qualifying(s)
    BY <1>1, <1>2, <1>3, <1>8 DEF LeafTarget
  <2>4. QED
    BY <1>4, <1>8, <2>2, <2>3
<1>9. CASE /\ Evaluating(p, s) /\ ReadCurrent(p)
           /\ pc[p] = "current" /\ pc'[p] = "commit"
  <2>1. target'[p] = target[p] /\ current'[p] = member[s] /\ member' = member
    BY <1>2, <1>9 DEF ReadCurrent, Evaluating, TypeOK, db
  <2>2. target[p] = Qualifying(s)
    BY <1>1, <1>2, <1>3, <1>9 DEF LeafTarget
  <2>3. QED
    BY <1>4, <2>1, <2>2 DEF Agrees
<1>10. CASE /\ Evaluating(p, s) /\ pc'[p] = pc[p]
            /\ target'[p] = target[p] /\ current'[p] = current[p]
  <2>1. CASE member'[s] = member[s]
    BY <1>1, <1>2, <1>3, <1>4, <1>10, <2>1 DEF LeafTarget
  <2>2. CASE member'[s] # member[s]
    <3>1. PICK r \in Procs : Commit(r) /\ seg[r] = s
      BY <1>2, <2>2, RowStep
    <3>2. member'[s] = Qualifying(s)
      BY <1>1, <1>3, <3>1, LeafCommit
    <3>3. QED
      BY <1>1, <1>2, <1>3, <1>4, <1>10, <3>2 DEF LeafTarget, Agrees
  <2>3. QED
    BY <2>1, <2>2
<1>11. QED
  BY <1>1, <1>2, <1>5, <1>6, <1>7, <1>8, <1>9, <1>10, EvaluatingStep

LEMMA LeafOwedStep ==
    ASSUME IndInv, Next, TypeOK' PROVE LeafOwed'
<1>1. SUFFICES ASSUME NEW s \in Segments, Leaf(s), ~Signal', ~RebuildOwes(s)'
               PROVE  member'[s] = Qualifying(s)'
  BY DEF LeafOwed, Leaf
<1>2. TypeOK /\ LeafOwed
  BY DEF IndInv
<1>3. Qualifying(s)' = Qualifying(s)
  BY <1>1, <1>2, DataStep, LeafRuleStep DEF DataMoved
<1>4. ~FlushRename /\ ~Restart
  BY <1>1, <1>2 DEF FlushRename, Restart, RebuildOwes, Idle, TypeOK, Procs,
                    Rebuilders
<1>5. ~Signal
  BY <1>1, <1>2, <1>4, SignalStep
<1>6. ASSUME NEW r \in Procs, Commit(r), seg[r] = s
      PROVE  member'[s] = Qualifying(s)'
  BY <1>1, <1>3, <1>5, <1>6, LeafCommit DEF DataMoved
<1>7. CASE RebuildOwes(s)
  BY <1>1, <1>6, <1>7, RebuildOwesStep DEF Procs, Rebuilders
<1>8. CASE ~RebuildOwes(s)
  BY <1>1, <1>2, <1>3, <1>5, <1>6, <1>8, RowStep DEF LeafOwed
<1>9. QED
  BY <1>7, <1>8

\* A sweep that has passed s had passed it before, or commits it now.
LEMMA PassedStep ==
    ASSUME IndInv, Next, NEW p \in Rebuilders, NEW s \in Segments,
           ~Restart,
           Sweeping(p)', s \notin todo'[p], ~Evaluating(p, s)'
    PROVE  \/ Sweeping(p) /\ s \notin todo[p] /\ ~Evaluating(p, s)
           \/ Commit(p) /\ seg[p] = s
<1> USE DEF IndInv, TypeOK, Sweeping, Evaluating, Procs, Rebuilders,
            EvalSteps, db, local
<1>1. ASSUME NEW h \in Handlers, NEW touched \in SUBSET Customers,
             NEW data \in [Customers -> Metrics], Write(h, touched, data)
      PROVE  Sweeping(p) /\ s \notin todo[p] /\ ~Evaluating(p, s)
  BY <1>1, WriteMoves
<1>2. ASSUME NEW r \in Procs \ {p}, EvaluationStep(r)
      PROVE  Sweeping(p) /\ s \notin todo[p] /\ ~Evaluating(p, s)
  <2>1. pc'[p] = pc[p] /\ todo'[p] = todo[p] /\ seg'[p] = seg[p]
    BY <1>2, EvaluationFrame
  <2>2. QED
    BY <2>1
<1>3. CASE EvaluationStep(p)
  <2>1. CASE Evaluate(p)
    BY <2>1 DEF Evaluate, Ready
  <2>2. CASE Commit(p)
    BY <2>2 DEF Commit
  <2>3. CASE ~Evaluate(p) /\ ~Commit(p)
    BY <1>3, <2>3
       DEF EvaluationStep, ReplaceDependencies, ComputeMetrics, LoadParents,
           ReadCurrent, Finish
  <2>4. QED
    BY <2>1, <2>2, <2>3
<1>4. CASE FlushRename \/ FlushRebuild
  BY <1>4 DEF FlushRename, FlushRebuild
<1>5. CASE Nack \/ LookupDependents \/ \E x \in Segments : Deliver(x)
  BY <1>5 DEF Nack, LookupDependents, Deliver, Abandon
<1>6. QED
  BY <1>1, <1>2, <1>3, <1>4, <1>5, StepCases
     DEF MarkChanged, Publish, PublishUnmarked

LEMMA LeafDoneStep ==
    ASSUME IndInv, Next, TypeOK' PROVE LeafDone'
<1>1. SUFFICES ASSUME pc'["boot"] # "idle", NEW p \in Rebuilders,
                      NEW s \in Segments, Leaf(s), Sweeping(p)',
                      s \notin todo'[p], ~Evaluating(p, s)'
               PROVE  member'[s] = Qualifying(s)'
  BY DEF LeafDone, Leaf
<1>2. TypeOK /\ LeafDone
  BY DEF IndInv
<1>3. ~Restart
  BY <1>1 DEF Restart, Idle, Sweeping, Procs, Rebuilders, EvalSteps
<1>4. pc["boot"] # "idle"
  BY <1>1, <1>2, <1>3, BootStep
<1>5. ~DataMoved /\ ~DataMoved'
  BY <1>1, <1>4 DEF DataMoved
<1>6. Qualifying(s)' = Qualifying(s)
  BY <1>2, <1>5, DataStep, LeafRuleStep
<1>7. ASSUME NEW r \in Procs, Commit(r), seg[r] = s
      PROVE  member'[s] = Qualifying(s)'
  BY <1>1, <1>5, <1>6, <1>7, LeafCommit
<1>8. CASE Sweeping(p) /\ s \notin todo[p] /\ ~Evaluating(p, s)
  BY <1>1, <1>2, <1>4, <1>6, <1>7, <1>8, RowStep DEF LeafDone
<1>9. CASE Commit(p) /\ seg[p] = s
  BY <1>7, <1>9 DEF Procs, Rebuilders
<1>10. QED
  BY <1>1, <1>3, <1>8, <1>9, PassedStep

LEMMA ChildMetricsStep ==
    ASSUME IndInv, TwoLevel, Next, TypeOK' PROVE ChildMetrics'
<1>1. SUFFICES ASSUME NEW p \in Procs, NEW s \in Segments,
                      Evaluating(p, s)', ~Leaf(s), pc'[p] = "parents"
               PROVE  target'[p] = Customers
  BY DEF ChildMetrics, Leaf
<1>2. TypeOK /\ ChildMetrics
  BY DEF IndInv
<1>3. CASE Evaluating(p, s) /\ ComputeMetrics(p)
  BY <1>1, <1>2, <1>3, ChildRule DEF ComputeMetrics, Evaluating, TypeOK
<1>4. CASE Evaluating(p, s) /\ pc'[p] = pc[p] /\ target'[p] = target[p]
  BY <1>1, <1>2, <1>4 DEF ChildMetrics
<1>5. QED
  BY <1>1, <1>3, <1>4, EvaluatingStep

\* LoadParents completes the target of a child.
LEMMA ChildLoads ==
    ASSUME IndInv, TwoLevel, NEW p \in Procs, NEW s \in Segments, ~Leaf(s),
           Evaluating(p, s), pc[p] = "parents", LoadParents(p)
    PROVE  target'[p] = RuleTarget(s) /\ member' = member
<1>1. TypeOK /\ target[p] = Customers
  BY DEF IndInv, ChildMetrics
<1>2. target'[p] = {c \in Customers : \A q \in Parents[s] : c \in member[q]}
  BY <1>1 DEF LoadParents, Evaluating, TypeOK
<1>3. QED
  BY <1>1, <1>2, ChildRule DEF RuleTarget, LoadParents, db

LEMMA ChildTargetStep ==
    ASSUME IndInv, TwoLevel, Next, TypeOK' PROVE ChildTarget'
<1>1. SUFFICES ASSUME NEW p \in Rebuilders, NEW s \in Segments,
                      Evaluating(p, s)', ~Leaf(s)
      PROVE  /\ pc'[p] \in {"current", "commit"} =>
                    target'[p] = RuleTarget(s)'
             /\ pc'[p] = "commit" =>
                    \/ Agrees(member'[s], RuleTarget(s)', current'[p])
                    \/ CascadeOwes(s)'
  BY DEF ChildTarget, Leaf, Agrees
<1>2. TypeOK /\ ChildTarget /\ p \in Procs
  BY DEF IndInv, Procs, Rebuilders
<1>3. Evaluating(p, s) => RuleTarget(s)' = RuleTarget(s)
  BY <1>1, <1>2, ParentsFixed, ChildRuleStep
<1>4. CASE Evaluate(p) /\ pc'[p] = "edges"
  BY <1>4
<1>5. CASE \/ ReplaceDependencies(p) /\ pc'[p] = "metrics"
           \/ ComputeMetrics(p) /\ pc'[p] = "parents"
  BY <1>5
<1>6. CASE /\ Evaluating(p, s) /\ LoadParents(p)
           /\ pc[p] = "parents" /\ pc'[p] = "current"
  BY <1>1, <1>2, <1>3, <1>6, ChildLoads
<1>7. CASE /\ Evaluating(p, s) /\ ReadCurrent(p)
           /\ pc[p] = "current" /\ pc'[p] = "commit"
  <2>1. target'[p] = target[p] /\ current'[p] = member[s] /\ member' = member
    BY <1>2, <1>7 DEF ReadCurrent, Evaluating, TypeOK, db
  <2>2. target[p] = RuleTarget(s)
    BY <1>1, <1>2, <1>7 DEF ChildTarget
  <2>3. QED
    BY <1>3, <1>7, <2>1, <2>2 DEF Agrees
<1>8. CASE /\ Evaluating(p, s) /\ pc'[p] = pc[p]
           /\ target'[p] = target[p] /\ current'[p] = current[p]
  <2>1. pc[p] \in {"current", "commit"} => target[p] = RuleTarget(s)
    BY <1>1, <1>2, <1>8 DEF ChildTarget
  <2>2. SUFFICES ASSUME pc[p] = "commit", ~CascadeOwes(s)'
                 PROVE  Agrees(member'[s], RuleTarget(s), current[p])
    BY <1>3, <1>8, <2>1
  <2>3. Parents[s] \X {s} \subseteq deps
    BY <1>2, <1>8, <2>2 DEF IndInv, Edges
  <2>4. ~Restart
    BY <1>1 DEF Restart, Idle, Evaluating, Procs, Rebuilders,
                EvalSteps
  <2>5. CASE Commit("cascade") /\ seg["cascade"] = s
    BY <1>1, <1>2, <2>2, <2>5, ChildCommit, CommitKeepsEvents
       DEF Agrees, Procs, CascadeOwes
  <2>6. CASE ~(Commit("cascade") /\ seg["cascade"] = s)
    <3>1. ~CascadeOwes(s)
      BY <2>2, <2>3, <2>4, <2>6, CascadeOwesStep
    <3>2. Agrees(member[s], RuleTarget(s), current[p])
      BY <1>1, <1>2, <1>8, <2>2, <3>1 DEF ChildTarget
    <3>3. CASE member'[s] = member[s]
      BY <3>2, <3>3
    <3>4. CASE member'[s] # member[s]
      <4>1. PICK r \in Procs : Commit(r) /\ seg[r] = s
        BY <1>2, <3>4, RowStep
      <4>2. member'[s] = RuleTarget(s)
        BY <1>1, <3>1, <4>1, ChildCommit DEF CascadeOwes
      <4>3. QED
        BY <4>2 DEF Agrees
    <3>5. QED
      BY <3>3, <3>4
  <2>7. QED
    BY <2>5, <2>6
<1>9. QED
  BY <1>1, <1>2, <1>4, <1>5, <1>6, <1>7, <1>8, EvaluatingStep

\* An edge can be missing only if the boot rebuild will visit the child.
LEMMA BootEdges ==
    ASSUME IndInv, NEW s \in Segments, ~RebuildOwes(s)
    PROVE  Parents[s] \X {s} \subseteq deps
BY DEF IndInv, Edges, EdgesComplete, RebuildOwes, Evaluating, EvalSteps

LEMMA CascadeTargetStep ==
    ASSUME IndInv, TwoLevel, Next, TypeOK' PROVE CascadeTarget'
<1> DEFINE p == "cascade"
<1>1. SUFFICES ASSUME NEW s \in Segments, Evaluating(p, s)', ~EventPending(s)'
      PROVE  /\ pc'[p] \in {"current", "commit"} =>
                    target'[p] = RuleTarget(s)'
             /\ pc'[p] = "commit" =>
                    Agrees(member'[s], RuleTarget(s)', current'[p])
  BY DEF CascadeTarget, Agrees
<1>2. TypeOK /\ CascadeTarget /\ p \in Procs
  BY DEF IndInv, Procs
<1>3. ~EventPending(s)
  <2>1. ASSUME NEW q \in Parents[s], Deliver(q) PROVE FALSE
    BY <1>1, <1>2, <2>1 DEF Deliver, Evaluating, TypeOK, EvalSteps
  <2>2. ~Restart
    BY <1>1 DEF Restart, Idle, Evaluating, Procs, Rebuilders, EvalSteps
  <2>3. QED
    BY <1>1, <1>2, <2>1, <2>2, EventStep
<1>4. CASE Evaluate(p) /\ pc'[p] = "edges"
  BY <1>4
<1>5. CASE \/ ReplaceDependencies(p) /\ pc'[p] = "metrics"
           \/ ComputeMetrics(p) /\ pc'[p] = "parents"
  BY <1>5
<1>6. ASSUME Evaluating(p, s)
      PROVE  ~Leaf(s) /\ RuleTarget(s)' = RuleTarget(s)
  <2>1. ~Leaf(s)
    BY <1>6 DEF IndInv, Control, Evaluating, Leaf
  <2>2. QED
    BY <1>1, <1>2, <2>1, ParentStep, ChildRuleStep
<1>7. CASE /\ Evaluating(p, s) /\ LoadParents(p)
           /\ pc[p] = "parents" /\ pc'[p] = "current"
  BY <1>2, <1>6, <1>7, ChildLoads
<1>8. CASE /\ Evaluating(p, s) /\ ReadCurrent(p)
           /\ pc[p] = "current" /\ pc'[p] = "commit"
  <2>1. target'[p] = target[p] /\ current'[p] = member[s] /\ member' = member
    BY <1>2, <1>8 DEF ReadCurrent, Evaluating, TypeOK, db
  <2>2. target[p] = RuleTarget(s)
    BY <1>2, <1>3, <1>8 DEF CascadeTarget
  <2>3. QED
    BY <1>6, <1>8, <2>1, <2>2 DEF Agrees
<1>9. CASE /\ Evaluating(p, s) /\ pc'[p] = pc[p]
           /\ target'[p] = target[p] /\ current'[p] = current[p]
  <2>1. CASE member'[s] = member[s]
    BY <1>2, <1>3, <1>6, <1>9, <2>1 DEF CascadeTarget
  <2>2. CASE member'[s] # member[s]
    <3>1. PICK r \in Procs : Commit(r) /\ seg[r] = s
      BY <1>2, <2>2, RowStep
    <3>2. Evaluating(r, s) /\ r # p
      <4>1. Evaluating(r, s) /\ pc'[r] = "pick" /\ pc[r] = "commit"
        BY <1>2, <3>1 DEF Commit, Evaluating, TypeOK, EvalSteps
      <4>2. QED
        BY <1>9, <4>1
    <3>3. r \in Rebuilders
      BY <3>2, WhoEvaluates DEF Evaluating, EvalSteps
    <3>4. target[r] = RuleTarget(s)
      BY <1>2, <1>6, <1>9, <3>1, <3>2, <3>3
         DEF IndInv, ChildTarget, Commit
    <3>5. Agrees(member[s], RuleTarget(s), current[p])
            => Agrees(member'[s], RuleTarget(s), current[p])
      BY <1>2, <3>1, <3>4, CommitAgrees
    <3>6. QED
      BY <1>2, <1>3, <1>6, <1>9, <3>5 DEF CascadeTarget
  <2>3. QED
    BY <2>1, <2>2
<1>10. QED
  BY <1>1, <1>2, <1>4, <1>5, <1>7, <1>8, <1>9, EvaluatingStep

LEMMA ChildOwedStep ==
    ASSUME IndInv, TwoLevel, Next, TypeOK' PROVE ChildOwed'
<1>1. SUFFICES ASSUME NEW s \in Segments, ~Leaf(s), ~RebuildOwes(s)',
                      ~CascadeOwes(s)'
               PROVE  InSync(s)'
  BY DEF ChildOwed, Leaf
<1>2. TypeOK /\ ChildOwed
  BY DEF IndInv
<1>3. RuleTarget(s)' = RuleTarget(s)
  BY <1>1, <1>2, ParentStep, ChildRuleStep DEF CascadeOwes
<1>4. ~Restart
  BY <1>1 DEF Restart, Idle, RebuildOwes, Procs, Rebuilders
<1>5. ASSUME NEW r \in Procs, Commit(r), seg[r] = s PROVE InSync(s)'
  <2>1. ~EventPending(s)
    BY <1>1, <1>2, <1>5, CommitKeepsEvents DEF CascadeOwes
  <2>2. r = "cascade" \/ ~CascadeOwes(s)
    <3>1. ~LookupDependents
      BY <1>2, <1>5 DEF Commit, LookupDependents, TypeOK, Procs
    <3>2. CASE Commit("cascade")
      <4>1. pc'["cascade"] = "pick" /\ pc["cascade"] = "commit"
        BY <1>2, <3>2 DEF Commit, TypeOK, Procs
      <4>2. QED
        BY <1>2, <1>5, <4>1, EvaluationFrame DEF EvaluationStep, Procs
    <3>3. CASE ~Commit("cascade")
      BY <1>1, <1>4, <3>1, <3>3, CascadeOwesStep
    <3>4. QED
      BY <3>2, <3>3
  <2>3. member'[s] = RuleTarget(s)
    BY <1>1, <1>5, <2>1, <2>2, ChildCommit
  <2>4. QED
    BY <1>3, <2>3 DEF InSync
<1>6. CASE RebuildOwes(s)
  BY <1>1, <1>5, <1>6, RebuildOwesStep DEF Procs, Rebuilders
<1>7. CASE CascadeOwes(s) /\ ~RebuildOwes(s)
  <2>1. Parents[s] \X {s} \subseteq deps
    BY <1>7, BootEdges
  <2>2. QED
    BY <1>1, <1>4, <1>5, <1>7, <2>1, CascadeOwesStep DEF Procs
<1>8. CASE InSync(s) /\ ~RebuildOwes(s)
  BY <1>2, <1>3, <1>5, <1>8, RowStep DEF InSync
<1>9. QED
  BY <1>1, <1>2, <1>6, <1>7, <1>8 DEF ChildOwed

-----------------------------------------------------------------------------
(* The theorems. *)

LEMMA Initially == ASSUME Init, TwoLevel PROVE IndInv
<1>1. TypeOK
  BY TypeOKInit
<1>2. Control /\ Edges /\ ChildMetrics /\ LeafTarget /\ ChildTarget
      /\ CascadeTarget /\ LeafDone
  BY DEF Init, Idle, Control, Edges, EdgesComplete, ChildMetrics, LeafTarget,
         ChildTarget, CascadeTarget, LeafDone, Evaluating, Sweeping, Procs, Rebuilders, EvalSteps
<1>3. LeafOwed /\ ChildOwed
  BY DEF Init, Idle, LeafOwed, ChildOwed, RebuildOwes, Procs, Rebuilders
<1>4. QED
  BY <1>1, <1>2, <1>3 DEF IndInv

LEMMA Inductive == ASSUME TwoLevel, IndInv, [Next]_vars PROVE IndInv'
<1>1. CASE Next
  <2>1. TypeOK'
    BY <1>1, TypeOKStep DEF IndInv
  <2>2. Control' /\ Edges'
    BY <1>1, <2>1, ControlStep, EdgesStep DEF IndInv
  <2>3. QED
    BY <1>1, <2>1, <2>2, LeafTargetStep, LeafOwedStep, LeafDoneStep,
       ChildMetricsStep, ChildTargetStep, CascadeTargetStep, ChildOwedStep
       DEF IndInv
<1>2. CASE UNCHANGED vars
  BY <1>2
     DEF vars, IndInv, TypeOK, Control, Edges, EdgesComplete, LeafTarget,
         LeafOwed, LeafDone, ChildMetrics, ChildTarget, CascadeTarget,
         ChildOwed, Agrees, DataMoved, Signal, EventPending, RebuildOwes,
         CascadeOwes, InSync, RuleTarget, Qualifying, Evaluating, Sweeping
<1>3. QED
  BY <1>1, <1>2

(* The inductive invariant holds of every reachable state, for rules of    *)
(* the seeded shape.                                                       *)
THEOREM Invariance == ASSUME TwoLevel PROVE Spec => []IndInv
<1>1. Init => IndInv
  BY Initially
<1>2. IndInv /\ [Next]_vars => IndInv'
  BY Inductive
<1>3. QED
  BY <1>1, <1>2, PTL DEF Spec

LEMMA IndInvOwed == IndInv => StaleIsOwed
BY LeafRule DEF IndInv, LeafOwed, ChildOwed, StaleIsOwed, InSync, Leaf

LEMMA OwedSettles == TypeOK /\ Control /\ StaleIsOwed => SettledInSync
BY ParentsAssumption
   DEF TypeOK, StaleIsOwed, SettledInSync, Settled, Signal, RebuildOwes,
       CascadeOwes, EventPending, Evaluating, EvalSteps, Procs, Rebuilders,
       Control, Sweeping

(* A segment that is out of sync always has an evaluation coming to it,    *)
(* whatever the interleaving of flushes, boot rebuild, cascade, crashes    *)
(* and redeliveries: evaluateSegment's stale commits are always repaired.  *)
THEOREM NothingForgotten == ASSUME TwoLevel PROVE Spec => []StaleIsOwed
BY Invariance, IndInvOwed, PTL

(* A system at rest shows exactly the customers its rules ask for.         *)
THEOREM RestInSync == ASSUME TwoLevel PROVE Spec => []SettledInSync
<1>1. IndInv => SettledInSync
  BY IndInvOwed, OwedSettles DEF IndInv
<1>2. QED
  BY <1>1, Invariance, PTL

(* The cascade's edge table lacks no edge that an event may need, for any  *)
(* rules.                                                                  *)
THEOREM EdgesKept == Spec => []EdgesComplete
<1> DEFINE Inv == TypeOK /\ Edges
<1>1. Init => Inv
  BY TypeOKInit
     DEF Init, Idle, Edges, EdgesComplete, Evaluating, EvalSteps, Procs,
         Rebuilders
<1>2. Inv /\ [Next]_vars => Inv'
  <2>1. CASE Next
    BY <2>1, TypeOKStep, EdgesStep
  <2>2. CASE UNCHANGED vars
    BY <2>2, TypeOKStep DEF vars, Edges, EdgesComplete, Evaluating
  <2>3. QED
    BY <2>1, <2>2
<1>3. Inv => EdgesComplete
  BY DEF Edges
<1>4. QED
  BY <1>1, <1>2, <1>3, PTL DEF Spec
=============================================================================
