------------------------- MODULE SegmentAdminProofs -------------------------
(***************************************************************************)
(* Type correctness of SegmentAdmin for any number of concurrent requests, *)
(* with queries that throw and crashes.  What the rebuild repairs, and     *)
(* what the cascade consumer makes of the edges, is in                     *)
(* SegmentCascadeProofs.                                                   *)
(***************************************************************************)
EXTENDS SegmentAdmin, FiniteSetTheorems, TLAPS

(* Type correctness. *)

LEMMA ProcsFact ==
    /\ Callers \subseteq Procs
    /\ "boot" \in Procs
    /\ "boot" \notin Callers
BY CallersAssumption DEF Procs, Loops

\* Every accepted request is of a known kind, and its segment may be NoId's
\* place only.
LEMMA AcceptTypes ==
    ASSUME TypeOK, NEW p \in Procs, NEW i \in Ids, NEW R \in SUBSET Ids,
           NEW what \in {"create dynamic", "create static", "update",
                         "remove", "refresh"},
           what = "update" => updates < MaxUpdates,
           NEW next \in {"insert", "store", "delete", "load"},
           Accept(p, what, i, R, next)
    PROVE  TypeOK'
<1>1. kind' = kind /\ deps' = deps /\ Existing' = Existing
    BY DEF Accept, Existing
<1>2. updates' \in 0..MaxUpdates
  <2>1. /\ updates \in 0..MaxUpdates
        /\ updates' = IF what = "update" THEN updates + 1 ELSE updates
      BY DEF TypeOK, Accept
  <2>2. CASE what = "update"
    <3>1. updates < MaxUpdates
        BY <2>2
    <3> QED BY <2>1, <2>2, <3>1, BoundsAssumption
  <2>3. CASE what # "update"
      BY <2>1, <2>3
  <2> QED BY <2>2, <2>3
<1>3. op' \in [Procs -> {"none", "create dynamic", "create static", "update",
                         "remove", "refresh"}]
    BY DEF TypeOK, Accept
<1>4. pc' \in [Procs -> {"idle", "snapshot", "lookup", "next", "insert",
                         "store", "delete", "load", "edges", "members",
                         "commit", "rollback"}]
    BY DEF TypeOK, Accept
<1> QED BY <1>1, <1>2, <1>3, <1>4 DEF TypeOK, Accept

LEMMA FaultTypes ==
    ASSUME TypeOK, faults < MaxFaults, faults' = faults + 1
    PROVE  faults' \in 0..MaxFaults
<1>1. faults \in 0..MaxFaults
    BY DEF TypeOK
<1> QED BY <1>1, BoundsAssumption

LEMMA DoneTypes ==
    ASSUME TypeOK, NEW p \in Procs, Done(p)
    PROVE  /\ pc' \in [Procs -> {"idle", "snapshot", "lookup", "next",
                                 "insert", "store", "delete", "load", "edges",
                                 "members", "commit", "rollback"}]
           /\ op' \in [Procs -> {"none", "create dynamic", "create static",
                                 "update", "remove", "refresh"}]
           /\ id' \in [Procs -> Ids \cup {NoId}]
           /\ rule' \in [Procs -> SUBSET Ids]
BY DEF TypeOK, Done

LEMMA FailTypes ==
    ASSUME TypeOK, NEW p \in Procs, Fail(p), faults' \in 0..MaxFaults
    PROVE  TypeOK'
<1>1. Existing' = Existing
    BY DEF Fail, Existing
<1>2. CASE op[p] = "create dynamic" /\ Evaluating(p)
    BY <1>1, <1>2 DEF TypeOK, Fail, work
<1>3. CASE ~(op[p] = "create dynamic" /\ Evaluating(p))
  <2>1. order' \in [Procs -> Seq(Ids)]
    <3>1. order' = [order EXCEPT ![p] = <<>>]
        BY <1>3 DEF Fail, Forget
    <3>2. order \in [Procs -> Seq(Ids)]
        BY DEF TypeOK
    <3>3. <<>> \in Seq(Ids)
        OBVIOUS
    <3> QED BY <3>1, <3>2, <3>3
  <2>2. kind' = kind /\ refs' = refs /\ deps' = deps /\ updates' = updates
      BY DEF Fail
  <2>3. pc' \in [Procs -> {"idle", "snapshot", "lookup", "next", "insert",
                         "store", "delete", "load", "edges", "members",
                         "commit", "rollback"}]
      BY <1>3 DEF TypeOK, Fail, Forget
  <2>4. op' \in [Procs -> {"none", "create dynamic", "create static",
                         "update", "remove", "refresh"}]
      BY <1>3 DEF TypeOK, Fail, Forget
  <2>5. id' \in [Procs -> Ids \cup {NoId}] /\ rule' \in [Procs -> SUBSET Ids]
      BY <1>3 DEF TypeOK, Fail, Forget
  <2> QED BY <1>1, <2>1, <2>2, <2>3, <2>4, <2>5 DEF TypeOK
<1> QED BY <1>2, <1>3

LEMMA QueryFailsTypes ==
    ASSUME TypeOK, NEW p \in Procs, QueryFails(p) PROVE TypeOK'
<1>1. faults' \in 0..MaxFaults
    BY FaultTypes DEF QueryFails
<1> QED BY <1>1, FailTypes DEF QueryFails

LEMMA DeleteTypes ==
    ASSUME TypeOK, NEW p \in Procs, DeleteRow(id[p]), Done(p),
           UNCHANGED <<order, updates, faults>>
    PROVE  TypeOK'
<1>1. Existing' = Existing \ {id[p]}
    BY NoIdAssumption DEF TypeOK, DeleteRow, Existing, Types
<1>2. deps' \subseteq Existing' \X Existing'
    BY <1>1 DEF TypeOK, DeleteRow
<1> QED BY <1>2 DEF TypeOK, DeleteRow, Done

LEMMA EvaluationTypes ==
    ASSUME TypeOK, NEW p \in Procs, EvaluationStep(p) PROVE TypeOK'
<1>1. ASSUME Load(p) PROVE TypeOK'
  <2>1. CASE CanLoad(p)
    <3>1. Existing' = Existing /\ id[p] \in Ids
        BY <1>1, <2>1 DEF Load, CanLoad, Existing, Dynamic
    <3>2. rule' \in [Procs -> SUBSET Ids]
      <4>1. rule' = [rule EXCEPT ![p] = refs[id[p]]]
          BY <1>1, <2>1 DEF Load
      <4>2. refs[id[p]] \in SUBSET Ids
          BY <3>1 DEF TypeOK
      <4> QED BY <4>1, <4>2 DEF TypeOK
    <3> QED BY <1>1, <2>1, <3>1, <3>2 DEF Load, TypeOK
  <2>2. CASE ~CanLoad(p)
      BY <1>1, <2>2, FailTypes DEF Load, TypeOK
  <2> QED BY <2>1, <2>2
<1>2. ASSUME ReplaceDependencies(p) PROVE TypeOK'
  <2>1. CASE CanReplace(p)
    <3>1. Existing' = Existing
        BY <1>2, <2>1 DEF ReplaceDependencies, Existing
    <3>2. deps' \subseteq Existing \X Existing
      <4>1. rule[p] \X {id[p]} \subseteq Existing \X Existing
          BY <2>1 DEF CanReplace
      <4>2. deps \subseteq Existing \X Existing
          BY DEF TypeOK
      <4> QED BY <1>2, <2>1, <4>1, <4>2 DEF ReplaceDependencies
    <3> QED BY <1>2, <2>1, <3>1, <3>2 DEF ReplaceDependencies, TypeOK, work
  <2>2. CASE ~CanReplace(p)
      BY <1>2, <2>2, FailTypes DEF ReplaceDependencies, TypeOK
  <2> QED BY <2>1, <2>2
<1>3. ASSUME ReadMembers(p) PROVE TypeOK'
    BY <1>3 DEF ReadMembers, TypeOK, work, Existing
<1>4. ASSUME CommitMembers(p) PROVE TypeOK'
  <2>1. CASE Done(p) /\ UNCHANGED <<kind, refs, deps, order, updates>>
      BY <1>4, <2>1 DEF CommitMembers, TypeOK, Done, Existing
  <2>2. CASE Fail(p)
      BY <1>4, <2>2, FailTypes DEF CommitMembers, TypeOK
  <2> QED BY <1>4, <2>1, <2>2 DEF CommitMembers
<1> QED BY <1>1, <1>2, <1>3, <1>4 DEF EvaluationStep

LEMMA NextSegmentTypes ==
    ASSUME TypeOK, NEW p \in Procs, NextSegment(p) PROVE TypeOK'
<1>1. CASE order[p] = <<>>
    BY <1>1 DEF NextSegment, TypeOK, Existing
<1>2. CASE order[p] # <<>>
  <2>1. Head(order[p]) \in Ids /\ Tail(order[p]) \in Seq(Ids)
    <3>1. order[p] \in Seq(Ids)
        BY DEF TypeOK
    <3> QED BY <1>2, <3>1
  <2>2. order' \in [Procs -> Seq(Ids)]
      BY <1>2, <2>1 DEF NextSegment, TypeOK
  <2>3. id' \in [Procs -> Ids \cup {NoId}]
      BY <1>2, <2>1 DEF NextSegment, TypeOK
  <2> QED BY <1>2, <2>2, <2>3 DEF NextSegment, TypeOK, Existing
<1> QED BY <1>1, <1>2

LEMMA TypeStep == TypeOK /\ [Next]_vars => TypeOK'
<1> SUFFICES ASSUME TypeOK, [Next]_vars PROVE TypeOK'
    OBVIOUS
<1> USE ProcsFact
<1>1. ASSUME NEW p \in Callers, CheckCreate(p) PROVE TypeOK'
  <2>1. PICK i \in Ids,
             what \in {"create dynamic", "create static"},
             R \in SUBSET Ids : Accept(p, what, i, R, "insert")
      BY <1>1 DEF CheckCreate
  <2> QED BY <2>1, AcceptTypes
<1>2. ASSUME NEW p \in Callers, CheckUpdate(p) PROVE TypeOK'
  <2>1. PICK i \in Ids, R \in SUBSET Ids :
             updates < MaxUpdates /\ Accept(p, "update", i, R, "store")
      BY <1>2 DEF CheckUpdate, Existing
  <2> QED BY <2>1, AcceptTypes
<1>3. ASSUME NEW p \in Callers, CheckRemove(p) PROVE TypeOK'
  <2>1. PICK i \in Ids : Accept(p, "remove", i, {}, "delete")
      BY <1>3 DEF CheckRemove, Existing
  <2> QED BY <2>1, AcceptTypes
<1>4. ASSUME NEW p \in Callers, Refresh(p) PROVE TypeOK'
  <2>1. PICK i \in Ids : Accept(p, "refresh", i, {}, "load")
      BY <1>4 DEF Refresh, Existing
  <2> QED BY <2>1, AcceptTypes
<1>5. ASSUME NEW p \in Callers, Insert(p) PROVE TypeOK'
  <2>1. kind' \in [Ids -> Types \cup {"unused", "deleted"}]
      BY <1>5 DEF Insert, TypeOK, Types
  <2>2. Existing \subseteq Existing'
      BY <1>5 DEF Insert, TypeOK, Existing, Types
  <2>3. deps' \subseteq Existing' \X Existing'
      BY <1>5, <2>2 DEF Insert, TypeOK, Done
  <2>4. refs' \in [Ids -> SUBSET Ids]
      BY <1>5 DEF Insert, TypeOK
  <2>5. CASE op[p] = "create dynamic"
    <3>1. /\ pc' = [pc EXCEPT ![p] = "load"]
          /\ UNCHANGED <<op, id, rule, order, updates, faults>>
        BY <1>5, <2>5 DEF Insert
    <3> QED BY <2>1, <2>3, <2>4, <3>1 DEF TypeOK
  <2>6. CASE op[p] # "create dynamic"
      BY <1>5, <2>1, <2>3, <2>4, <2>6, DoneTypes DEF Insert, TypeOK
  <2> QED BY <2>5, <2>6
<1>6. ASSUME NEW p \in Callers, Store(p) PROVE TypeOK'
  <2>1. Existing' = Existing
      BY <1>6 DEF Store, Existing
  <2>2. refs' \in [Ids -> SUBSET Ids]
      BY <1>6 DEF Store, TypeOK
  <2> QED BY <1>6, <2>1, <2>2 DEF Store, TypeOK, Done
<1>7. ASSUME NEW p \in Callers, Delete(p) PROVE TypeOK'
    BY <1>7, DeleteTypes DEF Delete
<1>8. ASSUME NEW p \in Callers, Rollback(p) PROVE TypeOK'
    BY <1>8, DeleteTypes DEF Rollback
<1>9. ASSUME NEW p \in Procs, QueryFails(p) PROVE TypeOK'
    BY <1>9, QueryFailsTypes
<1>10. ASSUME NEW p \in Procs, EvaluationStep(p) PROVE TypeOK'
    BY <1>10, EvaluationTypes
<1>11. ASSUME Snapshot("boot") PROVE TypeOK'
  <2>1. CASE TopoSorts = {}
      BY <1>11, <2>1, FailTypes DEF Snapshot, TypeOK
  <2>2. CASE TopoSorts # {}
    <3>1. PICK s \in TopoSorts : order' = [order EXCEPT !["boot"] = s]
        BY <1>11, <2>2 DEF Snapshot
    <3>2. Cardinality(Dynamic) \in Nat
        BY IdsAssumption, FS_Subset, FS_CardinalityType DEF Dynamic
    <3>3. s \in Seq(Ids)
        BY <3>2 DEF TopoSorts, SetToSeqs, Dynamic
    <3> QED BY <1>11, <2>2, <3>1, <3>3 DEF Snapshot, TypeOK, Existing
  <2> QED BY <2>1, <2>2
<1>12. ASSUME NextSegment("boot") PROVE TypeOK'
    BY <1>12, NextSegmentTypes
<1>13. ASSUME Restart PROVE TypeOK'
  <2>1. faults' \in 0..MaxFaults
      BY <1>13, FaultTypes DEF Restart
  <2>2. order' \in [Procs -> Seq(Ids)]
      BY <1>13 DEF Restart
  <2> QED BY <1>13, <2>1, <2>2 DEF Restart, TypeOK, Existing
<1>14. CASE UNCHANGED vars
    BY <1>14 DEF vars, TypeOK, Existing
<1> QED BY <1>1, <1>2, <1>3, <1>4, <1>5, <1>6, <1>7, <1>8, <1>9, <1>10, <1>11,
           <1>12, <1>13, <1>14
        DEF Next, RequestStep

LEMMA TypeInit == Init => TypeOK
<1> SUFFICES ASSUME Init PROVE TypeOK
    OBVIOUS
<1>1. kind \in [Ids -> Types \cup {"unused", "deleted"}]
    BY DEF Init, Types
<1>2. refs \in [Ids -> SUBSET Ids]
    BY SeededAssumption, WritableAssumption DEF Init, Parents
<1> QED BY <1>1, <1>2, BoundsAssumption DEF Init, TypeOK

\* Every row, edge and request has its type, and both segments of an edge
\* are there, however many requests are served at once.
THEOREM TypeCorrect == Spec => []TypeOK
BY TypeInit, TypeStep, PTL DEF Spec
-----------------------------------------------------------------------------
(* The lists of segments that a loop works through.                        *)

LEMMA ListLength ==
    ASSUME NEW D \in SUBSET Ids, NEW s \in SetToSeqs(D)
    PROVE  /\ IsFiniteSet(D)
           /\ Cardinality(D) \in Nat
           /\ s \in [1..Cardinality(D) -> D]
           /\ s \in Seq(D)
           /\ Len(s) = Cardinality(D)
<1>1. IsFiniteSet(D) /\ Cardinality(D) \in Nat
    BY IdsAssumption, FS_Subset, FS_CardinalityType
<1>2. s \in [1..Cardinality(D) -> D]
    BY DEF SetToSeqs
<1> QED BY <1>1, <1>2

\* Such a list has every segment of the set.
LEMMA ListComplete ==
    ASSUME NEW D \in SUBSET Ids, NEW s \in SetToSeqs(D), NEW i \in D
    PROVE  \E k \in 1..Len(s) : s[k] = i
<1> DEFINE n == Cardinality(D)
<1>1. n \in Nat /\ IsFiniteSet(D) /\ s \in [1..n -> D] /\ Len(s) = n
    BY ListLength
<1>2. s \in Injection(1..n, D)
    BY <1>1 DEF SetToSeqs, Injection, IsInjective
<1>3. IsFiniteSet(1..n) /\ Cardinality(1..n) = n
    BY <1>1, FS_Interval
<1>4. s \in Surjection(1..n, D)
    BY <1>1, <1>2, <1>3, FS_Injection
<1> QED BY <1>1, <1>4 DEF Surjection
=============================================================================
