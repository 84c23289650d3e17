------------------------ MODULE SegmentCascadeProofs ------------------------
(***************************************************************************)
(* The cascade for any segments, any rules, with or without cycles, any    *)
(* number of requests at once, and any number of queries that throw and of *)
(* crashes: the consumer misses no change of a parent, the edges it        *)
(* follows agree with the rules at rest, and a rebuild repairs them all.   *)
(***************************************************************************)
EXTENDS SegmentCascade, SegmentAdminProofs, SequenceTheorems

\* A request or the rebuild will store the edges of segment i and evaluate
\* it, or delete it.
Owes(p, i) ==
    \/ p = "boot" /\ pc[p] = "snapshot"
    \/ p = "boot" /\ pc[p] # "idle" /\ i \in ToSet(order[p])
    \/ p # "cascade" /\ id[p] = i /\ pc[p] \in {"load", "edges", "rollback"}

\* The consumer is on its way to i with a message of q, which comes again if
\* it throws.
Brings(p, i, q) ==
    /\ p = "cascade"
    /\ held = q
    /\ \/ pc[p] = "lookup"
       \/ i \in ToSet(order[p])
       \/ id[p] = i /\ pc[p] \in {"load", "edges"}

\* The evaluation of i has not read the members of q, or has read them since
\* q has changed: nothing keeps it from being stored.
WillRead(p, i, q) ==
    /\ id[p] = i
    /\ \/ pc[p] = "members"
       \/ pc[p] = "commit" /\ q \notin behind[p]

Tends(p, i, q) == Owes(p, i) \/ Brings(p, i, q) \/ WillRead(p, i, q)

Awaited(i) == \E p \in Procs : Owes(p, i)

\* i will be evaluated with what q has now.
Tended(i, q) == q \in ToSet(queue) \/ \E p \in Procs : Tends(p, i, q)

EdgesThere(i) == \A q \in Ids :
    <<q, i>> \in deps <=> q \in refs[i] /\ kind[q] # "deleted"

EdgesKept == \A i \in Dynamic \ unsettled : EdgesThere(i) \/ Awaited(i)

StaleTended == \A i \in Dynamic \ (lapped \cup unsettled) :
    \A q \in stale[i] \cap refs[i] : kind[q] # "deleted" => Tended(i, q)

\* What an evaluation has missed will be seen by another one, unless the
\* segment will be lapped.
BehindTended == \A p \in Procs, i \in Dynamic \ unsettled :
    pc[p] = "commit" /\ id[p] = i /\ rule[p] = refs[i] /\ i \notin behind[p] =>
        \A q \in behind[p] \cap refs[i] : kind[q] # "deleted" => Tended(i, q)

NoSelf == \A i \in Ids : i \notin stale[i]

\* The consumer has a message while it is at work; no request is served
\* during the rebuild, so nothing is deleted under it.
Roles ==
    /\ held = NoId <=> pc["cascade"] = "idle"
    /\ op["cascade"] = "none" /\ op["boot"] = "none"
    /\ \A p \in Callers : pc[p] # "idle" => pc["boot"] = "idle"
    /\ pc["boot"] \in {"edges", "members", "commit"} => id["boot"] \in Existing

\* The row of a create is new: nobody else works on it.
NewIds ==
    /\ \A p \in Procs : pc[p] = "insert" =>
        /\ id[p] \in Ids
        /\ kind[id[p]] = "unused"
        /\ \A r \in Procs \ {p} : id[r] # id[p]
    /\ \A p \in Procs : \A i \in ToSet(order[p]) : kind[i] # "unused"

CascadeTypes ==
    /\ queue \in Seq(Ids)
    /\ held \in Ids \cup {NoId}
    /\ behind \in [Procs -> SUBSET (Ids \cup {NoId})]
    /\ stale \in [Ids -> SUBSET (Ids \cup {NoId})]

Basics == TypeOK /\ CascadeTypes /\ Roles /\ NewIds /\ NoSelf

\* The inductive invariant.
CascadeInv == Basics /\ EdgesKept /\ StaleTended /\ BehindTended
-----------------------------------------------------------------------------
(* Sequences as sets. *)

LEMMA ToSetEmpty == ToSet(<<>>) = {}
BY DEF ToSet

LEMMA ToSetAppend ==
    ASSUME NEW S, NEW s \in Seq(S), NEW x \in S
    PROVE  ToSet(Append(s, x)) = ToSet(s) \cup {x}
<1>1. /\ Len(Append(s, x)) = Len(s) + 1
      /\ Append(s, x)[Len(s) + 1] = x
      /\ \A k \in 1..Len(s) : Append(s, x)[k] = s[k]
      /\ DOMAIN s = 1..Len(s) /\ DOMAIN Append(s, x) = 1..(Len(s) + 1)
      /\ Len(s) \in Nat
    OBVIOUS
<1>2. 1..(Len(s) + 1) = (1..Len(s)) \cup {Len(s) + 1}
    BY <1>1
<1> QED BY <1>1, <1>2 DEF ToSet

LEMMA ToSetTail ==
    ASSUME NEW S, NEW s \in Seq(S), s # <<>>
    PROVE  ToSet(s) = {Head(s)} \cup ToSet(Tail(s))
<1>1. /\ Len(s) \in Nat \ {0} /\ Head(s) = s[1]
      /\ Len(Tail(s)) = Len(s) - 1
      /\ \A k \in 1..(Len(s) - 1) : Tail(s)[k] = s[k + 1]
      /\ DOMAIN s = 1..Len(s) /\ DOMAIN Tail(s) = 1..(Len(s) - 1)
    OBVIOUS
<1>2. \A k \in 1..Len(s) : k = 1 \/ (k - 1 \in 1..(Len(s) - 1) /\ (k - 1) + 1 = k)
    BY <1>1
<1>3. \A k \in 1..(Len(s) - 1) : k + 1 \in 1..Len(s)
    BY <1>1
<1>4. 1 \in 1..Len(s)
    BY <1>1
<1>5. ASSUME NEW x \in ToSet(s) PROVE x \in {Head(s)} \cup ToSet(Tail(s))
  <2>1. PICK k \in 1..Len(s) : x = s[k]
      BY <1>1 DEF ToSet
  <2>2. CASE k = 1
      BY <1>1, <2>1, <2>2
  <2>3. CASE k # 1
    <3>1. k - 1 \in 1..(Len(s) - 1) /\ (k - 1) + 1 = k
        BY <1>2, <2>1, <2>3
    <3>2. Tail(s)[k - 1] = x
        BY <1>1, <2>1, <3>1
    <3> QED BY <1>1, <3>1, <3>2 DEF ToSet
  <2> QED BY <2>2, <2>3
<1>6. ASSUME NEW x \in ToSet(Tail(s)) PROVE x \in ToSet(s)
    BY <1>1, <1>3 DEF ToSet
<1>7. Head(s) \in ToSet(s)
    BY <1>1, <1>4 DEF ToSet
<1> QED BY <1>5, <1>6, <1>7

LEMMA ToSetPut ==
    ASSUME NEW S, NEW s \in Seq(S), NEW x \in S
    PROVE  ToSet(<<x>> \o s) = {x} \cup ToSet(s) /\ <<x>> \o s \in Seq(S)
<1> DEFINE t == <<x>> \o s
<1>1. /\ t \in Seq(S) /\ t # <<>> /\ Head(t) = x
      /\ Len(t) = Len(s) + 1 /\ Len(s) \in Nat
      /\ \A k \in 1..Len(s) : t[k + 1] = s[k]
    OBVIOUS
<1>2. Tail(t) = s
  <2>1. Tail(t) \in Seq(S) /\ Len(Tail(t)) = Len(s)
      BY <1>1
  <2>2. \A k \in 1..Len(s) : Tail(t)[k] = s[k]
      BY <1>1
  <2> QED BY <2>1, <2>2, SeqEqual
<1> HIDE DEF t
<1>3. ToSet(t) = {x} \cup ToSet(s)
    BY <1>1, <1>2, ToSetTail
<1> QED BY <1>1, <1>3 DEF t
-----------------------------------------------------------------------------
(* Types, and who does what.                                               *)

LEMMA LoopFacts ==
    /\ "cascade" \in Procs /\ "cascade" \notin Callers /\ "cascade" # "boot"
    /\ "cascade" \in Loops /\ "boot" \in Loops
    /\ Procs = Callers \cup {"boot", "cascade"}
    /\ \A p \in Callers : p \in Procs /\ p \notin Loops /\ p # "boot" /\ p # "cascade"
BY CallersAssumption DEF Procs, Loops

\* Everybody but p stays where he is.
Others(p) == \A r \in Procs \ {p} :
    /\ pc'[r] = pc[r] /\ op'[r] = op[r] /\ id'[r] = id[r]
    /\ rule'[r] = rule[r] /\ order'[r] = order[r]

LEMMA EvaluationKinds ==
    ASSUME NEW p \in Procs, Evaluation(p)
    PROVE  /\ EvaluationStep(p)
           /\ pc[p] \in {"load", "edges", "members", "commit"}
BY DEF Evaluation, Prepare, Read, Commit, EvaluationStep, Load,
       ReplaceDependencies, ReadMembers, CommitMembers

LEMMA DependentsThere ==
    ASSUME TypeOK PROVE \A q : Dependents(q) \subseteq Existing
<1>1. \A e \in deps : e \in Existing \X Existing
    BY DEF TypeOK
<1> QED BY <1>1 DEF Dependents

LEMMA CascadeTypeOK ==
    ASSUME TypeOK, [CascadeNext]_all PROVE TypeOK'
<1>1. ASSUME NEW p \in Callers, RequestStep(p) PROVE TypeOK'
    BY <1>1, TypeStep DEF Next
<1>2. ASSUME NEW p \in Procs, Evaluation(p) PROVE TypeOK'
    BY <1>2, EvaluationKinds, EvaluationTypes
<1>3. ASSUME Snapshot("boot") \/ NextSegment("boot") \/ Restart PROVE TypeOK'
    BY <1>3, TypeStep DEF Next
<1>4. CASE Deliver
  <2>1. /\ pc' = [pc EXCEPT !["cascade"] = "lookup"]
        /\ UNCHANGED <<kind, refs, deps, op, id, rule, order, updates, faults>>
      BY <1>4 DEF Deliver, work
  <2> QED BY <2>1 DEF TypeOK, Existing
<1>5. CASE Lookup
  <2>1. PICK s \in SetToSeqs(Dependents(held)) :
            order' = [order EXCEPT !["cascade"] = s]
      BY <1>5 DEF Lookup
  <2>2. Dependents(held) \in SUBSET Ids
      BY DependentsThere DEF Existing
  <2>3. s \in Seq(Ids)
      BY <2>2, ListLength
  <2>4. order' \in [Procs -> Seq(Ids)]
      BY <2>1, <2>3 DEF TypeOK
  <2>5. pc' \in [Procs -> {"idle", "snapshot", "lookup", "next", "insert",
                           "store", "delete", "load", "edges", "members",
                           "commit", "rollback"}]
      BY <1>5 DEF Lookup, TypeOK
  <2> QED BY <1>5, <2>4, <2>5 DEF Lookup, TypeOK, Existing
<1>6. CASE NextDependent
    BY <1>6, LoopFacts, NextSegmentTypes DEF NextDependent
<1>7. CASE UNCHANGED all
    BY <1>7 DEF all, vars, TypeOK, Existing
<1>8. ASSUME NEW p \in Procs, Throw(p) PROVE TypeOK'
    BY <1>8, QueryFailsTypes DEF Throw
<1> QED BY <1>1, <1>2, <1>3, <1>4, <1>5, <1>6, <1>7, <1>8, LoopFacts, ProcsFact
        DEF CascadeNext, BootStep, CascadeStep, CascadeRestart

LEMMA EnqueuedTypes ==
    ASSUME TypeOK, CascadeTypes, Roles, NEW p \in Procs, pc[p] # "idle",
           NEW q \in Seq(Ids), Enqueued(p, q)
    PROVE  queue' \in Seq(Ids) /\ held' \in Ids \cup {NoId}
<1>1. CASE p = "cascade" /\ pc'[p] = "idle"
  <2>1. held \in Ids
      BY <1>1 DEF Roles, CascadeTypes
  <2>2. queue' = <<held>> \o q /\ held' = NoId
      BY <1>1 DEF Enqueued
  <2> QED BY <2>1, <2>2, ToSetPut
<1>2. CASE ~(p = "cascade" /\ pc'[p] = "idle")
    BY <1>2 DEF Enqueued, CascadeTypes
<1> QED BY <1>1, <1>2

LEMMA CommittedTypes ==
    ASSUME TypeOK, CascadeTypes, NEW p \in Procs, NEW changed,
           Committed(p, id[p], changed)
    PROVE  /\ behind' \in [Procs -> SUBSET (Ids \cup {NoId})]
           /\ stale' \in [Ids -> SUBSET (Ids \cup {NoId})]
<1>1. id[p] \in Ids \cup {NoId}
    BY DEF TypeOK
<1>2. behind[p] \subseteq Ids \cup {NoId}
    BY DEF CascadeTypes
<1>3. behind' = [q \in Procs |->
            IF q = p THEN {}
            ELSE IF pc[q] = "commit" /\ (changed \/ id[q] = id[p])
            THEN behind[q] \cup {id[p]} ELSE behind[q]]
      /\ stale' = [j \in Ids |-> IF j = id[p] THEN behind[p] \ {id[p]}
                               ELSE IF changed THEN stale[j] \cup {id[p]}
                               ELSE stale[j]]
    BY DEF Committed
<1>4. \A q \in Procs : behind[q] \subseteq Ids \cup {NoId}
    BY DEF CascadeTypes
<1>5. \A j \in Ids : stale[j] \subseteq Ids \cup {NoId}
    BY DEF CascadeTypes
<1> QED BY <1>1, <1>2, <1>3, <1>4, <1>5

LEMMA CascadeTypesStep ==
    ASSUME TypeOK, CascadeTypes, Roles, [CascadeNext]_all PROVE CascadeTypes'
<1>1. ASSUME UNCHANGED <<queue, held, behind, stale>> PROVE CascadeTypes'
    BY <1>1 DEF CascadeTypes
<1>2. ASSUME NEW p \in Procs, Evaluation(p) PROVE CascadeTypes'
  <2>1. pc[p] # "idle"
      BY <1>2, EvaluationKinds
  <2>2. CASE Prepare(p)
    <3>1. queue' \in Seq(Ids) /\ held' \in Ids \cup {NoId}
        BY <2>1, <2>2, EnqueuedTypes DEF Prepare, CascadeTypes
    <3> QED BY <2>2, <3>1 DEF Prepare, CascadeTypes
  <2>3. CASE Read(p)
    <3>1. UNCHANGED <<queue, held, stale>> /\ behind' = [behind EXCEPT ![p] = {}]
        BY <2>3 DEF Read, cascade
    <3> QED BY <3>1 DEF CascadeTypes
  <2>4. CASE Commit(p)
    <3>1. PICK changed \in {FALSE, id[p] \in Existing /\ events < MaxEvents} :
            /\ Committed(p, id[p], changed)
            /\ Enqueued(p, IF changed THEN Append(queue, id[p]) ELSE queue)
        BY <2>4 DEF Commit
    <3>2. (IF changed THEN Append(queue, id[p]) ELSE queue) \in Seq(Ids)
      <4>1. CASE changed
        <5>1. id[p] \in Ids /\ queue \in Seq(Ids)
            BY <3>1, <4>1 DEF CascadeTypes, Existing
        <5> QED BY <4>1, <5>1
      <4>2. CASE ~changed
          BY <4>2 DEF CascadeTypes
      <4> QED BY <4>1, <4>2
    <3> QED BY <2>1, <3>1, <3>2, EnqueuedTypes, CommittedTypes DEF CascadeTypes
  <2> QED BY <1>2, <2>2, <2>3, <2>4 DEF Evaluation
<1>3. CASE BootStep
  <2>1. CASE Evaluation("boot")
      BY <1>2, <2>1, ProcsFact
  <2> QED BY <1>1, <1>3, <2>1 DEF BootStep, cascade, history
<1>4. CASE CascadeStep
  <2>1. CASE Deliver
    <3>1. /\ queue # <<>> /\ held' = Head(queue) /\ queue' = Tail(queue)
          /\ UNCHANGED <<behind, stale>>
        BY <2>1 DEF Deliver, history
    <3> QED BY <3>1 DEF CascadeTypes
  <2>2. CASE Lookup
      BY <1>1, <2>2 DEF Lookup, cascade, history
  <2>3. CASE NextDependent
      BY <2>3 DEF NextDependent, history, CascadeTypes
  <2>4. CASE Evaluation("cascade")
      BY <1>2, <2>4, LoopFacts
  <2> QED BY <1>4, <2>1, <2>2, <2>3, <2>4 DEF CascadeStep
<1>5. CASE CascadeRestart
  <2>1. /\ \E m \in 0..Len(queue) : \E n \in m..Len(queue) :
            queue' = (IF held = NoId THEN <<>> ELSE <<held>>)
                     \o SubSeq(queue, 1, m) \o SubSeq(queue, n + 1, Len(queue))
        /\ held' = NoId /\ behind' = [p \in Procs |-> {}] /\ UNCHANGED stale
      BY <1>5 DEF CascadeRestart
  <2>2. PICK m \in 0..Len(queue) : \E n \in m..Len(queue) :
            queue' = (IF held = NoId THEN <<>> ELSE <<held>>)
                     \o SubSeq(queue, 1, m) \o SubSeq(queue, n + 1, Len(queue))
      BY <2>1
  <2>3. PICK n \in m..Len(queue) :
            queue' = (IF held = NoId THEN <<>> ELSE <<held>>)
                     \o SubSeq(queue, 1, m) \o SubSeq(queue, n + 1, Len(queue))
      BY <2>2
  <2>4. queue \in Seq(Ids) /\ Len(queue) \in Nat
      BY DEF CascadeTypes
  <2>5. (IF held = NoId THEN <<>> ELSE <<held>>) \in Seq(Ids)
      BY DEF CascadeTypes
  <2>6. SubSeq(queue, 1, m) \in Seq(Ids)
      BY <2>4
  <2>7. SubSeq(queue, n + 1, Len(queue)) \in Seq(Ids)
      BY <2>4
  <2>8. ASSUME NEW s \in Seq(Ids), NEW t \in Seq(Ids), NEW u \in Seq(Ids)
        PROVE  s \o t \o u \in Seq(Ids)
      OBVIOUS
  <2>9. queue' \in Seq(Ids)
      BY <2>3, <2>5, <2>6, <2>7, <2>8
  <2> QED BY <2>1, <2>9 DEF CascadeTypes
<1>6. CASE UNCHANGED all
    BY <1>1, <1>6 DEF all, cascade, history
<1>7. ASSUME NEW p \in Callers, RequestStep(p) /\ UNCHANGED <<cascade, history, events>>
      PROVE  CascadeTypes'
    BY <1>1, <1>7 DEF cascade, history
<1>8. ASSUME NEW p \in Procs, Throw(p) PROVE CascadeTypes'
  <2>1. queue' \in Seq(Ids) /\ held' \in Ids \cup {NoId}
      BY <1>8, EnqueuedTypes DEF Throw, QueryFails, CascadeTypes
  <2> QED BY <1>8, <2>1 DEF Throw, CascadeTypes
<1> QED BY <1>2, <1>3, <1>4, <1>5, <1>6, <1>7, <1>8, LoopFacts DEF CascadeNext

LEMMA NoSelfStep ==
    ASSUME CascadeTypes, NoSelf, [CascadeNext]_all PROVE NoSelf'
<1>1. ASSUME NEW p \in Procs, Commit(p) PROVE NoSelf'
  <2>1. PICK changed : Committed(p, id[p], changed)
      BY <1>1 DEF Commit
  <2>2. stale' = [j \in Ids |-> IF j = id[p] THEN behind[p] \ {id[p]}
                               ELSE IF changed THEN stale[j] \cup {id[p]}
                               ELSE stale[j]]
      BY <2>1 DEF Committed
  <2> QED BY <2>2 DEF NoSelf
<1>2. ASSUME UNCHANGED stale PROVE NoSelf'
    BY <1>2 DEF NoSelf
<1>3. ASSUME NEW p \in Procs, Evaluation(p) PROVE NoSelf'
    BY <1>1, <1>2, <1>3 DEF Evaluation, Prepare, Read
<1> QED BY <1>2, <1>3, LoopFacts
        DEF CascadeNext, BootStep, CascadeStep, CascadeRestart, Deliver, Lookup,
            NextDependent, Throw, history, all
-----------------------------------------------------------------------------
(* What the steps do. *)

LEMMA AcceptEffect ==
    ASSUME TypeOK, NEW p \in Callers,
           CheckCreate(p) \/ CheckUpdate(p) \/ CheckRemove(p) \/ Refresh(p)
    PROVE  /\ Others(p) /\ UNCHANGED <<kind, refs, deps, order>>
           /\ pc[p] = "idle" /\ pc["boot"] = "idle"
           /\ pc'[p] \in {"insert", "store", "delete", "load"}
           /\ id'[p] \in Ids
           /\ pc'[p] = "insert" => /\ kind[id'[p]] = "unused"
                                   /\ \A r \in Procs : id[r] # id'[p]
           /\ pc'[p] # "insert" => kind[id'[p]] # "unused"
<1> USE ProcsFact
<1>1. ASSUME NEW what, NEW i \in Ids, NEW R, NEW next, Free(p),
             Accept(p, what, i, R, next), next # "idle"
      PROVE  /\ Others(p) /\ UNCHANGED <<kind, refs, deps, order>>
             /\ pc[p] = "idle" /\ pc["boot"] = "idle" /\ pc'[p] = next
             /\ id'[p] = i
    BY <1>1 DEF Accept, Free, TypeOK, Others
<1>2. CASE CheckCreate(p)
  <2>1. PICK i \in Ids :
            /\ Free(p) /\ kind[i] = "unused"
            /\ \A q \in Procs : id[q] # i
            /\ \E what \in {"create dynamic", "create static"}, R \in SUBSET Ids :
                References(i, R) /\ Accept(p, what, i, R, "insert")
      BY <1>2 DEF CheckCreate
  <2>2. PICK what, R : Accept(p, what, i, R, "insert")
      BY <2>1
  <2>3. /\ Others(p) /\ UNCHANGED <<kind, refs, deps, order>>
        /\ pc[p] = "idle" /\ pc["boot"] = "idle" /\ pc'[p] = "insert"
        /\ id'[p] = i
      BY <1>1, <2>1, <2>2
  <2> QED BY <2>1, <2>3
<1>3. ASSUME NEW what, NEW i \in Existing, NEW R,
             NEW next \in {"store", "delete", "load"},
             Free(p), Accept(p, what, i, R, next)
      PROVE  /\ Others(p) /\ UNCHANGED <<kind, refs, deps, order>>
             /\ pc[p] = "idle" /\ pc["boot"] = "idle"
             /\ pc'[p] \in {"store", "delete", "load"}
             /\ id'[p] \in Ids /\ kind[id'[p]] # "unused"
  <2>1. i \in Ids /\ kind[i] # "unused" /\ next # "idle" /\ next # "insert"
      BY DEF Existing, Types
  <2>2. /\ Others(p) /\ UNCHANGED <<kind, refs, deps, order>>
        /\ pc[p] = "idle" /\ pc["boot"] = "idle" /\ pc'[p] = next
        /\ id'[p] = i
      BY <1>1, <1>3, <2>1
  <2> QED BY <2>1, <2>2
<1>4. CASE CheckUpdate(p)
  <2>1. PICK i \in Existing, R \in SUBSET Ids :
            Free(p) /\ Accept(p, "update", i, R, "store")
      BY <1>4 DEF CheckUpdate
  <2> QED BY <1>3, <2>1
<1>5. CASE CheckRemove(p)
  <2>1. PICK i \in Existing : Free(p) /\ Accept(p, "remove", i, {}, "delete")
      BY <1>5 DEF CheckRemove
  <2> QED BY <1>3, <2>1
<1>6. CASE Refresh(p)
  <2>1. PICK i \in Existing : Free(p) /\ Accept(p, "refresh", i, {}, "load")
      BY <1>6 DEF Refresh
  <2> QED BY <1>3, <2>1
<1> QED BY <1>2, <1>4, <1>5, <1>6

LEMMA InsertEffect ==
    ASSUME TypeOK, NEW p \in Callers, Insert(p)
    PROVE  /\ pc[p] = "insert" /\ Others(p) /\ UNCHANGED <<deps, order>>
           /\ \E t \in Types : kind' = [kind EXCEPT ![id[p]] = t]
           /\ refs' = [refs EXCEPT ![id[p]] = rule[p]]
           /\ \/ pc'[p] = "load" /\ id'[p] = id[p]
              \/ /\ pc'[p] = "idle" /\ id'[p] = NoId
                 /\ kind' = [kind EXCEPT ![id[p]] = "STATIC"]
<1> USE ProcsFact, LoopFacts
<1>1. CASE op[p] = "create dynamic"
  <2>1. /\ pc[p] = "insert" /\ pc' = [pc EXCEPT ![p] = "load"]
        /\ UNCHANGED <<op, id, rule, deps, order>>
        /\ refs' = [refs EXCEPT ![id[p]] = rule[p]]
        /\ kind' = [kind EXCEPT ![id[p]] = "DYNAMIC"]
      BY <1>1 DEF Insert
  <2>2. Others(p) /\ pc'[p] = "load" /\ id'[p] = id[p]
      BY <2>1 DEF TypeOK, Others
  <2> QED BY <2>1, <2>2 DEF Types
<1>2. CASE op[p] # "create dynamic"
  <2>1. /\ pc[p] = "insert" /\ Done(p) /\ UNCHANGED <<deps, order>>
        /\ refs' = [refs EXCEPT ![id[p]] = rule[p]]
        /\ kind' = [kind EXCEPT ![id[p]] = "STATIC"]
      BY <1>2 DEF Insert
  <2>2. Others(p) /\ pc'[p] = "idle" /\ id'[p] = NoId
      BY <2>1 DEF TypeOK, Others, Done
  <2> QED BY <2>1, <2>2 DEF Types
<1> QED BY <1>1, <1>2

LEMMA StoreEffect ==
    ASSUME TypeOK, NEW p \in Callers, Store(p)
    PROVE  /\ pc[p] = "store" /\ Others(p) /\ UNCHANGED <<kind, deps, order>>
           /\ refs' = refs \/ refs' = [refs EXCEPT ![id[p]] = rule[p]]
           /\ \/ id[p] \in Dynamic /\ pc'[p] = "load" /\ id'[p] = id[p]
              \/ id[p] \notin Dynamic /\ pc'[p] = "idle" /\ id'[p] = NoId
<1> USE ProcsFact, LoopFacts
<1>1. /\ pc[p] = "store" /\ UNCHANGED <<kind, deps, order>>
      /\ refs' = refs \/ refs' = [refs EXCEPT ![id[p]] = rule[p]]
    BY DEF Store
<1>2. CASE id[p] \in Dynamic
  <2>1. pc' = [pc EXCEPT ![p] = "load"] /\ UNCHANGED <<op, id, rule>>
      BY <1>2 DEF Store
  <2>2. Others(p) /\ pc'[p] = "load" /\ id'[p] = id[p]
      BY <1>1, <2>1 DEF TypeOK, Others
  <2> QED BY <1>1, <1>2, <2>2
<1>3. CASE id[p] \notin Dynamic
  <2>1. Done(p)
      BY <1>3 DEF Store
  <2>2. Others(p) /\ pc'[p] = "idle" /\ id'[p] = NoId
      BY <1>1, <2>1 DEF TypeOK, Others, Done
  <2> QED BY <1>1, <1>3, <2>2
<1> QED BY <1>2, <1>3

LEMMA DeleteEffect ==
    ASSUME TypeOK, NEW p \in Callers, Delete(p) \/ Rollback(p)
    PROVE  /\ pc[p] \in {"delete", "rollback"} /\ Others(p) /\ UNCHANGED order
           /\ DeleteRow(id[p])
           /\ pc'[p] = "idle" /\ id'[p] = NoId
BY ProcsFact, LoopFacts DEF Delete, Rollback, TypeOK, Others, Done

LEMMA FailEffect ==
    ASSUME TypeOK, NEW p \in Procs, Fail(p)
    PROVE  /\ Others(p) /\ UNCHANGED <<kind, refs, deps>>
           /\ \/ /\ op[p] = "create dynamic" /\ Evaluating(p)
                 /\ pc'[p] = "rollback" /\ UNCHANGED work
              \/ /\ ~(op[p] = "create dynamic" /\ Evaluating(p))
                 /\ pc'[p] = "idle" /\ op'[p] = "none" /\ id'[p] = NoId
                 /\ order'[p] = <<>>
<1>1. CASE op[p] = "create dynamic" /\ Evaluating(p)
    BY <1>1 DEF Fail, TypeOK, Others, work
<1>2. CASE ~(op[p] = "create dynamic" /\ Evaluating(p))
    BY <1>2 DEF Fail, Forget, TypeOK, Others
<1> QED BY <1>1, <1>2

LEMMA LoadEffect ==
    ASSUME TypeOK, NEW p \in Procs, Load(p)
    PROVE  /\ pc[p] = "load"
           /\ CanLoad(p) => /\ Others(p) /\ pc'[p] = "edges"
                            /\ UNCHANGED <<kind, refs, deps, op, id, order>>
           /\ ~CanLoad(p) => Fail(p)
BY DEF Load, TypeOK, Others

LEMMA ReplaceEffect ==
    ASSUME TypeOK, NEW p \in Procs, ReplaceDependencies(p)
    PROVE  /\ pc[p] = "edges"
           /\ CanReplace(p) =>
                /\ Others(p) /\ pc'[p] = "members"
                /\ deps' = {e \in deps : e[2] # id[p]} \cup (rule[p] \X {id[p]})
                /\ UNCHANGED <<kind, refs, op, id, rule, order>>
           /\ ~CanReplace(p) => Fail(p)
BY DEF ReplaceDependencies, TypeOK, Others, work

LEMMA MembersEffect ==
    ASSUME TypeOK, NEW p \in Procs, ReadMembers(p)
    PROVE  /\ pc[p] = "members" /\ pc'[p] = "commit" /\ Others(p)
           /\ UNCHANGED <<kind, refs, deps, op, id, rule, order>>
BY DEF ReadMembers, TypeOK, Others, work

LEMMA CommitEffect ==
    ASSUME TypeOK, NEW p \in Procs, CommitMembers(p)
    PROVE  /\ pc[p] = "commit" /\ Others(p) /\ UNCHANGED <<kind, refs, deps>>
           /\ \/ /\ pc'[p] = (IF p \in Loops THEN "next" ELSE "idle")
                 /\ op'[p] = "none" /\ id'[p] = NoId /\ UNCHANGED order
              \/ id[p] \notin Existing /\ Fail(p)
<1>1. CASE Done(p) /\ UNCHANGED <<kind, refs, deps, order, updates>>
    BY <1>1 DEF CommitMembers, Done, TypeOK, Others
<1>2. CASE id[p] \notin Existing /\ Fail(p)
    BY <1>2, FailEffect DEF CommitMembers
<1> QED BY <1>1, <1>2 DEF CommitMembers

LEMMA NextEffect ==
    ASSUME TypeOK, NEW p \in Procs, NextSegment(p)
    PROVE  /\ pc[p] = "next" /\ Others(p) /\ UNCHANGED <<kind, refs, deps, op>>
           /\ order[p] = <<>> => pc'[p] = "idle" /\ UNCHANGED <<id, order>>
           /\ order[p] # <<>> =>
                /\ pc'[p] = "load"
                /\ id'[p] = Head(order[p]) /\ order'[p] = Tail(order[p])
                /\ ToSet(order[p]) = {id'[p]} \cup ToSet(order'[p])
<1>1. order[p] \in Seq(Ids)
    BY DEF TypeOK
<1>2. CASE order[p] = <<>>
    BY <1>2 DEF NextSegment, TypeOK, Others
<1>3. CASE order[p] # <<>>
  <2>1. /\ pc'[p] = "load" /\ Others(p)
        /\ id'[p] = Head(order[p]) /\ order'[p] = Tail(order[p])
      BY <1>3 DEF NextSegment, TypeOK, Others
  <2> QED BY <1>1, <1>3, <2>1, ToSetTail DEF NextSegment
<1> QED BY <1>2, <1>3

LEMMA SnapshotEffect ==
    ASSUME TypeOK, Snapshot("boot")
    PROVE  /\ pc["boot"] = "snapshot"
           /\ TopoSorts = {} => Fail("boot")
           /\ TopoSorts # {} =>
                /\ Others("boot") /\ UNCHANGED <<kind, refs, deps, op, id>>
                /\ pc'["boot"] = "next" /\ ToSet(order'["boot"]) = Dynamic
<1> USE ProcsFact
<1>1. CASE TopoSorts = {}
    BY <1>1 DEF Snapshot
<1>2. CASE TopoSorts # {}
  <2>1. PICK s \in TopoSorts : order' = [order EXCEPT !["boot"] = s]
      BY <1>2 DEF Snapshot
  <2>2. Dynamic \in SUBSET Ids /\ s \in SetToSeqs(Dynamic)
      BY DEF TopoSorts, Dynamic
  <2>3. s \in Seq(Dynamic) /\ \A i \in Dynamic : \E k \in 1..Len(s) : s[k] = i
      BY <2>2, ListLength, ListComplete
  <2>4. ToSet(s) = Dynamic
      BY <2>3 DEF ToSet
  <2>5. order'["boot"] = s /\ Others("boot")
      BY <1>2, <2>1 DEF Snapshot, TypeOK, Others
  <2> QED BY <1>2, <2>4, <2>5 DEF Snapshot, TypeOK
<1> QED BY <1>1, <1>2

LEMMA LookupEffect ==
    ASSUME TypeOK, Lookup
    PROVE  /\ pc["cascade"] = "lookup" /\ pc'["cascade"] = "next"
           /\ Others("cascade") /\ UNCHANGED <<kind, refs, deps, op, id, cascade>>
           /\ ToSet(order'["cascade"]) = Dependents(held)
<1> USE LoopFacts
<1>1. PICK s \in SetToSeqs(Dependents(held)) :
            order' = [order EXCEPT !["cascade"] = s]
    BY DEF Lookup
<1>2. Dependents(held) \in SUBSET Ids
    BY DependentsThere DEF Existing
<1>3. /\ s \in Seq(Dependents(held))
      /\ \A i \in Dependents(held) : \E k \in 1..Len(s) : s[k] = i
    BY <1>2, ListLength, ListComplete
<1>4. ToSet(s) = Dependents(held)
    BY <1>3 DEF ToSet
<1>5. order'["cascade"] = s /\ Others("cascade")
    BY <1>1 DEF Lookup, TypeOK, Others
<1> QED BY <1>4, <1>5 DEF Lookup, TypeOK

LEMMA RestartEffect ==
    ASSUME Restart
    PROVE  /\ pc'["boot"] = "snapshot" /\ \A p \in Procs : p # "boot" => pc'[p] = "idle"
           /\ \A p \in Procs : /\ op'[p] = "none" /\ id'[p] = NoId
                               /\ order'[p] = <<>>
           /\ UNCHANGED <<kind, refs, deps>>
BY ProcsFact DEF Restart
-----------------------------------------------------------------------------
(* NewIds and Roles are kept.                                              *)

LEMMA ToSetIds ==
    ASSUME TypeOK, NEW p \in Procs PROVE ToSet(order[p]) \subseteq Ids
<1>1. order[p] \in Seq(Ids)
    BY DEF TypeOK
<1>2. \A k \in DOMAIN order[p] : order[p][k] \in Ids
    BY <1>1
<1> QED BY <1>2 DEF ToSet

\* What a step of p may do to the ids.
LEMMA NewIdsFrame ==
    ASSUME TypeOK, NewIds, NEW p \in Procs, Others(p), pc'[p] # "insert",
           id'[p] # id[p] /\ id'[p] # NoId => kind[id'[p]] # "unused",
           \A i \in Ids : kind'[i] = kind[i] \/ (i = id[p] /\ kind'[i] # "unused"),
           \A i \in ToSet(order'[p]) : i \in Ids /\ kind[i] # "unused"
    PROVE  NewIds'
<1>1. ASSUME NEW r \in Procs, pc'[r] = "insert"
      PROVE  /\ id'[r] \in Ids /\ kind'[id'[r]] = "unused"
             /\ \A s \in Procs \ {r} : id'[s] # id'[r]
  <2>1. r # p /\ pc[r] = "insert" /\ id'[r] = id[r]
      BY <1>1 DEF Others
  <2>2. /\ id[r] \in Ids /\ kind[id[r]] = "unused"
        /\ \A s \in Procs \ {r} : id[s] # id[r]
      BY <2>1 DEF NewIds
  <2>3. kind'[id[r]] = "unused"
      BY <2>1, <2>2
  <2>4. id'[p] # id[r]
      BY <2>1, <2>2, NoIdAssumption
  <2> QED BY <2>1, <2>2, <2>3, <2>4 DEF Others
<1>2. ASSUME NEW r \in Procs, NEW i \in ToSet(order'[r]) PROVE kind'[i] # "unused"
  <2>1. i \in Ids /\ kind[i] # "unused"
    <3>1. CASE r = p
        BY <1>2, <3>1
    <3>2. CASE r # p
        BY <1>2, <3>2, ToSetIds DEF Others, NewIds
    <3> QED BY <3>1, <3>2
  <2> QED BY <2>1
<1> QED BY <1>1, <1>2 DEF NewIds

LEMMA NewIdsCreate ==
    ASSUME TypeOK, NewIds, NEW p \in Procs, Others(p), UNCHANGED <<kind, order>>,
           id'[p] \in Ids, kind[id'[p]] = "unused",
           \A r \in Procs : id[r] # id'[p]
    PROVE  NewIds'
<1>1. ASSUME NEW r \in Procs, pc'[r] = "insert"
      PROVE  /\ id'[r] \in Ids /\ kind'[id'[r]] = "unused"
             /\ \A s \in Procs \ {r} : id'[s] # id'[r]
  <2>1. CASE r = p
      BY <1>1, <2>1 DEF Others
  <2>2. CASE r # p
      BY <1>1, <2>2 DEF Others, NewIds
  <2> QED BY <2>1, <2>2
<1> QED BY <1>1 DEF NewIds

LEMMA NewIdsStep ==
    ASSUME TypeOK, NewIds, [CascadeNext]_all PROVE NewIds'
<1> USE LoopFacts, ProcsFact
<1>1. \A p \in Procs : \A i \in ToSet(order[p]) : i \in Ids /\ kind[i] # "unused"
    BY ToSetIds DEF NewIds
<1>2. ASSUME NEW p \in Callers, RequestStep(p) PROVE NewIds'
  <2>1. CASE CheckCreate(p) \/ CheckUpdate(p) \/ CheckRemove(p) \/ Refresh(p)
    <3>1. CASE pc'[p] = "insert"
        BY <2>1, <3>1, AcceptEffect, NewIdsCreate
    <3>2. CASE pc'[p] # "insert"
        BY <1>1, <2>1, <3>2, AcceptEffect, NewIdsFrame
    <3> QED BY <3>1, <3>2
  <2>2. CASE Insert(p)
    <3>1. PICK t \in Types : kind' = [kind EXCEPT ![id[p]] = t]
        BY <2>2, InsertEffect
    <3>2. \A i \in Ids : kind'[i] = kind[i] \/ (i = id[p] /\ kind'[i] # "unused")
        BY <3>1 DEF Types, TypeOK
    <3> QED BY <1>1, <2>2, <3>2, InsertEffect, NewIdsFrame
  <2>3. CASE Store(p)
      BY <1>1, <2>3, StoreEffect, NewIdsFrame
  <2>4. CASE Delete(p) \/ Rollback(p)
    <3>1. kind' = [kind EXCEPT ![id[p]] = "deleted"]
        BY <2>4, DeleteEffect DEF DeleteRow
    <3>2. \A i \in Ids : kind'[i] = kind[i] \/ (i = id[p] /\ kind'[i] # "unused")
        BY <3>1 DEF TypeOK
    <3> QED BY <1>1, <2>4, <3>2, DeleteEffect, NewIdsFrame
  <2> QED BY <1>2, <2>1, <2>2, <2>3, <2>4 DEF RequestStep
<1>3. ASSUME NEW p \in Procs, Fail(p) PROVE NewIds'
  <2>1. /\ Others(p) /\ UNCHANGED kind /\ pc'[p] # "insert"
        /\ \/ id'[p] = id[p] /\ order'[p] = order[p]
           \/ id'[p] = NoId /\ order'[p] = <<>>
      BY <1>3, FailEffect DEF work
  <2>2. \A i \in ToSet(order'[p]) : i \in Ids /\ kind[i] # "unused"
      BY <1>1, <2>1, ToSetEmpty
  <2> QED BY <2>1, <2>2, NewIdsFrame
<1>4. ASSUME NEW p \in Procs, Evaluation(p) PROVE NewIds'
  <2>1. CASE Load(p)
      BY <1>1, <1>3, <2>1, LoadEffect, NewIdsFrame
  <2>2. CASE ReplaceDependencies(p)
      BY <1>1, <1>3, <2>2, ReplaceEffect, NewIdsFrame
  <2>3. CASE ReadMembers(p)
      BY <1>1, <2>3, MembersEffect, NewIdsFrame
  <2>4. CASE CommitMembers(p)
      BY <1>1, <1>3, <2>4, CommitEffect, NewIdsFrame
  <2> QED BY <1>4, <2>1, <2>2, <2>3, <2>4 DEF Evaluation, Prepare, Read, Commit
<1>5. ASSUME NEW p \in Procs, NextSegment(p) PROVE NewIds'
  <2>1. CASE order[p] = <<>>
      BY <1>1, <1>5, <2>1, NextEffect, NewIdsFrame
  <2>2. CASE order[p] # <<>>
    <3>1. /\ Others(p) /\ UNCHANGED kind /\ pc'[p] = "load"
          /\ ToSet(order[p]) = {id'[p]} \cup ToSet(order'[p])
        BY <1>5, <2>2, NextEffect
    <3> QED BY <1>1, <3>1, NewIdsFrame
  <2> QED BY <2>1, <2>2
<1>6. CASE Snapshot("boot")
  <2>1. CASE TopoSorts = {}
      BY <1>3, <1>6, <2>1, SnapshotEffect
  <2>2. CASE TopoSorts # {}
    <3>1. \A i \in ToSet(order'["boot"]) : i \in Ids /\ kind[i] # "unused"
        BY <1>6, <2>2, SnapshotEffect DEF Dynamic
    <3> QED BY <1>6, <2>2, <3>1, SnapshotEffect, NewIdsFrame
  <2> QED BY <2>1, <2>2
<1>7. CASE Deliver
  <2>1. /\ pc' = [pc EXCEPT !["cascade"] = "lookup"]
        /\ UNCHANGED <<kind, op, id, rule, order>>
      BY <1>7 DEF Deliver, work
  <2>2. Others("cascade") /\ pc'["cascade"] = "lookup"
      BY <2>1 DEF Others, TypeOK
  <2> QED BY <1>1, <2>1, <2>2, NewIdsFrame
<1>8. CASE Lookup
  <2>1. \A i \in ToSet(order'["cascade"]) : i \in Ids /\ kind[i] # "unused"
      BY <1>8, LookupEffect, DependentsThere DEF Existing, Types
  <2> QED BY <1>8, <2>1, LookupEffect, NewIdsFrame
<1>9. CASE Restart
    BY <1>9, RestartEffect, ToSetEmpty DEF NewIds
<1>10. CASE UNCHANGED all
    BY <1>10 DEF all, vars, NewIds
<1>11. ASSUME NEW p \in Procs, Throw(p) PROVE NewIds'
    BY <1>3, <1>11 DEF Throw, QueryFails
<1> QED BY <1>2, <1>4, <1>5, <1>6, <1>7, <1>8, <1>9, <1>10, <1>11
        DEF CascadeNext, BootStep, CascadeStep, CascadeRestart, NextDependent

\* A step of p that leaves the consumer's message alone.
LEMMA RolesFrame ==
    ASSUME Roles, NEW p \in Procs, Others(p), UNCHANGED held,
           p \notin Callers => op'[p] = "none",
           p = "cascade" => pc'[p] # "idle" /\ pc[p] # "idle",
           p \in Callers => pc["boot"] = "idle",
           p = "boot" => \A r \in Callers : pc[r] = "idle",
           \A i \in Existing : i = id["boot"] /\ pc["boot"] # "idle" => i \in Existing',
           p = "boot" /\ pc'[p] \in {"edges", "members", "commit"} =>
              id'[p] \in Existing'
    PROVE  Roles'
<1> USE LoopFacts
<1>1. (held = NoId <=> pc["cascade"] = "idle")'
    BY DEF Roles, Others
<1>2. (op["cascade"] = "none" /\ op["boot"] = "none")'
    BY DEF Roles, Others
<1>3. (\A r \in Callers : pc[r] # "idle" => pc["boot"] = "idle")'
    BY DEF Roles, Others
<1>4. (pc["boot"] \in {"edges", "members", "commit"} => id["boot"] \in Existing)'
  <2>1. CASE p = "boot"
      BY <2>1
  <2>2. CASE p # "boot"
      BY <2>2 DEF Roles, Others
  <2> QED BY <2>1, <2>2
<1> QED BY <1>1, <1>2, <1>3, <1>4 DEF Roles

\* A step of the consumer.
LEMMA RolesCascade ==
    ASSUME Roles, Others("cascade"), op'["cascade"] = "none", UNCHANGED kind,
           held' = NoId <=> pc'["cascade"] = "idle"
    PROVE  Roles'
<1>1. Existing' = Existing
    BY DEF Existing
<1> QED BY <1>1, LoopFacts DEF Roles, Others

LEMMA EvaluationMoves ==
    ASSUME TypeOK, Roles, NEW p \in Procs, Evaluation(p)
    PROVE  /\ Others(p) /\ UNCHANGED kind
           /\ p \notin Callers => op'[p] = "none"
           /\ p = "boot" /\ pc'[p] \in {"edges", "members", "commit"} =>
                id'[p] \in Existing
<1> USE LoopFacts
<1>1. op[p] = "none" \/ p \in Callers
    BY DEF Roles
<1>2. CASE Fail(p)
    BY <1>1, <1>2, FailEffect
<1>3. CASE Load(p) /\ CanLoad(p)
  <2>1. id[p] \in Existing
      BY <1>3 DEF CanLoad, Dynamic, Existing, Types
  <2> QED BY <1>1, <1>3, <2>1, LoadEffect
<1>4. CASE ReplaceDependencies(p) /\ CanReplace(p)
    BY <1>1, <1>4, ReplaceEffect DEF Roles
<1>5. CASE ReadMembers(p)
    BY <1>1, <1>5, MembersEffect DEF Roles
<1>6. CASE CommitMembers(p) /\ ~Fail(p)
    BY <1>6, CommitEffect
<1> QED BY <1>2, <1>3, <1>4, <1>5, <1>6, LoadEffect, ReplaceEffect
        DEF Evaluation, Prepare, Read, Commit

LEMMA RolesStep ==
    ASSUME TypeOK, CascadeTypes, Roles, NewIds, [CascadeNext]_all PROVE Roles'
<1> USE LoopFacts, ProcsFact
<1>1. ASSUME UNCHANGED kind PROVE Existing' = Existing
    BY <1>1 DEF Existing
<1>2. ASSUME NEW p \in Callers, RequestStep(p), UNCHANGED held PROVE Roles'
  <2>1. CASE CheckCreate(p) \/ CheckUpdate(p) \/ CheckRemove(p) \/ Refresh(p)
      BY <1>1, <1>2, <2>1, AcceptEffect, RolesFrame
  <2>2. ASSUME pc[p] # "idle" PROVE pc["boot"] = "idle"
      BY <2>2 DEF Roles
  <2>3. CASE Insert(p)
    <3>1. PICK t \in Types : kind' = [kind EXCEPT ![id[p]] = t]
        BY <2>3, InsertEffect
    <3>2. Existing \subseteq Existing'
        BY <3>1 DEF Types, TypeOK, Existing
    <3> QED BY <1>2, <2>2, <2>3, <3>2, InsertEffect, RolesFrame
  <2>4. CASE Store(p)
      BY <1>1, <1>2, <2>2, <2>4, StoreEffect, RolesFrame
  <2>5. CASE Delete(p) \/ Rollback(p)
      BY <1>2, <2>2, <2>5, DeleteEffect, RolesFrame
  <2> QED BY <1>2, <2>1, <2>3, <2>4, <2>5 DEF RequestStep
<1>3. ASSUME NEW p \in Procs, Evaluation(p) PROVE Roles'
  <2>1. /\ pc[p] # "idle" /\ Others(p) /\ UNCHANGED kind
        /\ p \notin Callers => op'[p] = "none"
        /\ p = "boot" /\ pc'[p] \in {"edges", "members", "commit"} =>
             id'[p] \in Existing
      BY <1>3, EvaluationKinds, EvaluationMoves
  <2>2. (\E q : Enqueued(p, q)) \/ (UNCHANGED cascade /\ ReadMembers(p))
    <3>1. CASE Prepare(p)
        BY <3>1 DEF Prepare
    <3>2. CASE Read(p)
        BY <3>2 DEF Read
    <3>3. CASE Commit(p)
        BY <3>3 DEF Commit
    <3> QED BY <1>3, <3>1, <3>2, <3>3 DEF Evaluation
  <2>3. CASE p = "cascade"
    <3>1. held # NoId
        BY <2>1, <2>3 DEF Roles
    <3>2. held' = NoId <=> pc'["cascade"] = "idle"
      <4>1. CASE \E q : Enqueued(p, q)
          BY <2>3, <3>1, <4>1 DEF Enqueued
      <4>2. CASE UNCHANGED cascade /\ ReadMembers(p)
          BY <2>3, <3>1, <4>2, MembersEffect DEF cascade
      <4> QED BY <2>2, <4>1, <4>2
    <3> QED BY <2>1, <2>3, <3>2, RolesCascade
  <2>4. CASE p # "cascade"
    <3>1. UNCHANGED held
        BY <2>2, <2>4 DEF Enqueued, cascade
    <3>2. (p \in Callers => pc["boot"] = "idle")
          /\ (p = "boot" => \A r \in Callers : pc[r] = "idle")
        BY <2>1 DEF Roles
    <3> QED BY <1>1, <2>1, <2>4, <3>1, <3>2, RolesFrame
  <2> QED BY <2>3, <2>4
<1>4. ASSUME NextSegment("boot") \/ Snapshot("boot"), UNCHANGED held PROVE Roles'
  <2>1. /\ Others("boot") /\ UNCHANGED kind /\ pc["boot"] # "idle"
        /\ op'["boot"] = "none"
        /\ pc'["boot"] \notin {"edges", "members", "commit"}
    <3>1. op["boot"] = "none"
        BY DEF Roles
    <3>2. CASE Snapshot("boot")
        BY <3>1, <3>2, SnapshotEffect, FailEffect
    <3>3. CASE NextSegment("boot")
        BY <3>1, <3>3, NextEffect
    <3> QED BY <1>4, <3>2, <3>3
  <2>2. \A r \in Callers : pc[r] = "idle"
      BY <2>1 DEF Roles
  <2> QED BY <1>1, <1>4, <2>1, <2>2, RolesFrame
<1>5. CASE Deliver
  <2>1. /\ pc' = [pc EXCEPT !["cascade"] = "lookup"]
        /\ UNCHANGED <<kind, op, id, rule, order>>
        /\ queue # <<>> /\ held' = Head(queue)
      BY <1>5 DEF Deliver, work
  <2>2. Others("cascade") /\ pc'["cascade"] = "lookup"
      BY <2>1 DEF Others, TypeOK
  <2>3. held' \in Ids
      BY <2>1 DEF CascadeTypes
  <2>4. op'["cascade"] = "none" /\ (held' = NoId <=> pc'["cascade"] = "idle")
      BY <2>1, <2>2, <2>3, NoIdAssumption DEF Roles
  <2> QED BY <2>1, <2>2, <2>4, RolesCascade
<1>6. CASE Lookup
  <2>1. op'["cascade"] = "none" /\ (held' = NoId <=> pc'["cascade"] = "idle")
      BY <1>6, LookupEffect DEF Roles, cascade
  <2> QED BY <1>6, <2>1, LookupEffect, RolesCascade
<1>7. CASE NextDependent
  <2>1. NextSegment("cascade")
        /\ held' = IF order["cascade"] = <<>> THEN NoId ELSE held
      BY <1>7 DEF NextDependent
  <2>2. op'["cascade"] = "none" /\ (held' = NoId <=> pc'["cascade"] = "idle")
      BY <2>1, NextEffect DEF Roles
  <2> QED BY <2>1, <2>2, NextEffect, RolesCascade
<1>8. CASE CascadeRestart
    BY <1>8, RestartEffect DEF Roles, CascadeRestart
<1>9. CASE UNCHANGED all
  <2>1. UNCHANGED <<kind, pc, op, id, held>>
      BY <1>9 DEF all, vars, work, cascade
  <2> QED BY <1>1, <2>1 DEF Roles
<1>10. ASSUME NEW p \in Procs, Throw(p) PROVE Roles'
  <2>1. /\ Others(p) /\ UNCHANGED kind /\ pc[p] # "idle" /\ Enqueued(p, queue)
        /\ pc'[p] = "idle" \/ op'[p] # "none"
        /\ pc'[p] \in {"idle", "rollback"}
        /\ p \notin Callers => op'[p] = "none"
    <3>1. Fail(p) /\ pc[p] # "idle" /\ Enqueued(p, queue)
        BY <1>10 DEF Throw, QueryFails
    <3>2. op[p] = "none" \/ p \in Callers
        BY DEF Roles
    <3> QED BY <3>1, <3>2, FailEffect DEF work
  <2>2. CASE p = "cascade"
    <3>1. pc'[p] = "idle" /\ held' = NoId
        BY <2>1, <2>2 DEF Enqueued
    <3> QED BY <2>1, <2>2, <3>1, RolesCascade
  <2>3. CASE p # "cascade"
    <3>1. UNCHANGED held
        BY <2>1, <2>3 DEF Enqueued
    <3>2. (p \in Callers => pc["boot"] = "idle")
          /\ (p = "boot" => \A r \in Callers : pc[r] = "idle")
        BY <2>1 DEF Roles
    <3> QED BY <1>1, <2>1, <2>3, <3>1, <3>2, RolesFrame
  <2> QED BY <2>2, <2>3
<1> QED BY <1>2, <1>3, <1>4, <1>5, <1>6, <1>7, <1>8, <1>9, <1>10
        DEF CascadeNext, BootStep, CascadeStep, cascade
-----------------------------------------------------------------------------
(* Who is tended stays tended.                                             *)

LEMMA AwaitedTended ==
    ASSUME NEW i, NEW q PROVE Awaited(i)' => Tended(i, q)'
BY DEF Awaited, Tended, Tends

LEMMA AwaitedFrame ==
    ASSUME NEW p \in Procs, Others(p), NEW i, Awaited(i),
           Owes(p, i) => Awaited(i)'
    PROVE  Awaited(i)'
<1>1. PICK r \in Procs : Owes(r, i)
    BY DEF Awaited
<1>2. CASE r = p
    BY <1>1, <1>2
<1>3. CASE r # p
  <2>1. Owes(r, i)'
      BY <1>1, <1>3 DEF Owes, Others
  <2> QED BY <2>1 DEF Awaited
<1> QED BY <1>2, <1>3

LEMMA TendedFrame ==
    ASSUME NEW p \in Procs, Others(p), NEW i, NEW q, Tended(i, q),
           p = "cascade" \/ UNCHANGED held,
           \A r \in Procs \ {p} : behind'[r] = behind[r],
           q \in ToSet(queue) => Tended(i, q)',
           Tends(p, i, q) => Tended(i, q)'
    PROVE  Tended(i, q)'
<1>1. CASE q \in ToSet(queue)
    BY <1>1
<1>2. CASE q \notin ToSet(queue)
  <2>1. PICK r \in Procs : Tends(r, i, q)
      BY <1>2 DEF Tended
  <2>2. CASE r = p
      BY <2>1, <2>2
  <2>3. CASE r # p
    <3>1. Owes(r, i) => Owes(r, i)'
        BY <2>3 DEF Owes, Others
    <3>2. Brings(r, i, q) => Brings(r, i, q)'
        BY <2>3 DEF Brings, Others
    <3>3. WillRead(r, i, q) => WillRead(r, i, q)'
        BY <2>3 DEF WillRead, Others
    <3>4. Tends(r, i, q)'
        BY <2>1, <3>1, <3>2, <3>3 DEF Tends
    <3> QED BY <3>4 DEF Tended
  <2> QED BY <2>2, <2>3
<1> QED BY <1>1, <1>2

\* What a step that stores no evaluation does for a segment i.
Minded(i) ==
    /\ EdgesThere(i)' \/ Awaited(i)'
    /\ \A q \in refs'[i] : kind'[q] # "deleted" =>
        \/ Tended(i, q)'
        \/ /\ i \in Dynamic \ unsettled /\ refs'[i] = refs[i]
           /\ kind[q] # "deleted" /\ ~Tended(i, q)

LEMMA MindedAwaited ==
    ASSUME NEW i, Awaited(i)' PROVE Minded(i)
BY AwaitedTended DEF Minded

LEMMA MindedFrame ==
    ASSUME EdgesKept, NEW p \in Procs, Others(p), NEW i \in Dynamic \ unsettled,
           refs'[i] = refs[i],
           \A q \in refs[i] : kind'[q] # "deleted" => kind[q] # "deleted",
           EdgesThere(i) => EdgesThere(i)',
           p = "cascade" \/ UNCHANGED held,
           \A r \in Procs \ {p} : behind'[r] = behind[r],
           Owes(p, i) => Awaited(i)',
           \A q \in refs[i] : (q \in ToSet(queue) \/ Tends(p, i, q)) /\ kind[q] # "deleted"
                => Tended(i, q)'
    PROVE  Minded(i)
<1>1. EdgesThere(i)' \/ Awaited(i)'
    BY AwaitedFrame DEF EdgesKept
<1>2. ASSUME NEW q \in refs'[i], kind'[q] # "deleted", Tended(i, q)
      PROVE  Tended(i, q)'
  <2>1. q \in refs[i] /\ kind[q] # "deleted"
      BY <1>2
  <2>2. (q \in ToSet(queue) => Tended(i, q)') /\ (Tends(p, i, q) => Tended(i, q)')
      BY <2>1
  <2> QED BY <1>2, <2>2, TendedFrame
<1> QED BY <1>1, <1>2 DEF Minded

\* The graph is left alone by all but four operations.
LEMMA EdgesFrame ==
    ASSUME UNCHANGED <<kind, refs, deps>>, NEW i
    PROVE  /\ EdgesThere(i) => EdgesThere(i)'
           /\ Dynamic' = Dynamic /\ refs'[i] = refs[i]
           /\ \A q \in refs[i] : kind'[q] # "deleted" => kind[q] # "deleted"
BY DEF EdgesThere, Dynamic

LEMMA RequestMinds ==
    ASSUME TypeOK, Roles, NewIds, EdgesKept, NEW p \in Callers, RequestStep(p),
           UNCHANGED <<cascade, history>>,
           NEW i \in Dynamic', i \notin unsettled
    PROVE  Minded(i)
<1> USE LoopFacts, ProcsFact
<1>0. /\ UNCHANGED <<held, queue, behind>> /\ p # "cascade" /\ i \in Ids
      /\ \A q \in Ids : q \in ToSet(queue) => Tended(i, q)'
    BY DEF cascade, history, Tended, Dynamic
<1>1. refs[i] \subseteq Ids
    BY <1>0 DEF TypeOK
<1>2. ASSUME Others(p), UNCHANGED <<kind, refs, deps>>, i \in Dynamic,
             Owes(p, i) => Awaited(i)',
             \A q \in Ids : Tends(p, i, q) => Tended(i, q)'
      PROVE  Minded(i)
    BY <1>0, <1>1, <1>2, EdgesFrame, MindedFrame
<1>3. ASSUME pc[p] \notin {"load", "edges", "rollback", "members", "commit"}
      PROVE  ~Owes(p, i) /\ \A q : ~Tends(p, i, q)
    BY <1>3 DEF Owes, Brings, WillRead, Tends
<1>4. CASE CheckCreate(p) \/ CheckUpdate(p) \/ CheckRemove(p) \/ Refresh(p)
    BY <1>2, <1>3, <1>4, AcceptEffect DEF Dynamic
<1>5. CASE Insert(p)
  <2>1. CASE i = id[p]
    <3>1. PICK t \in Types : kind' = [kind EXCEPT ![id[p]] = t]
        BY <1>5, InsertEffect
    <3>2. pc'[p] = "load" /\ id'[p] = id[p]
      <4>1. kind'[i] = "DYNAMIC"
          BY DEF Dynamic
      <4>2. kind' # [kind EXCEPT ![id[p]] = "STATIC"]
          BY <1>0, <2>1, <4>1 DEF TypeOK
      <4> QED BY <1>5, <4>2, InsertEffect
    <3>3. Owes(p, i)'
        BY <2>1, <3>2 DEF Owes
    <3> QED BY <3>3, MindedAwaited DEF Awaited
  <2>2. CASE i # id[p]
    <3>1. PICK t \in Types : kind' = [kind EXCEPT ![id[p]] = t]
        BY <1>5, InsertEffect
    <3>2. /\ pc[p] = "insert" /\ Others(p) /\ UNCHANGED deps
          /\ refs' = [refs EXCEPT ![id[p]] = rule[p]]
        BY <1>5, InsertEffect
    <3>3. id[p] \in Ids /\ kind[id[p]] = "unused"
        BY <3>2 DEF NewIds
    <3>4. i \in Dynamic /\ refs'[i] = refs[i]
        BY <2>2, <3>1, <3>2 DEF Dynamic, TypeOK
    <3>5. \A q \in refs[i] : kind'[q] # "deleted" => kind[q] # "deleted"
        BY <1>1, <3>1, <3>3 DEF TypeOK
    <3>6. \A q \in Ids : kind'[q] = "deleted" <=> kind[q] = "deleted"
        BY <1>0, <3>1, <3>3 DEF TypeOK, Types
    <3>7. EdgesThere(i) => EdgesThere(i)'
        BY <3>2, <3>4, <3>6 DEF EdgesThere
    <3> QED BY <1>0, <1>1, <1>3, <3>2, <3>4, <3>5, <3>7, MindedFrame
  <2> QED BY <2>1, <2>2
<1>6. CASE Store(p)
  <2>1. /\ pc[p] = "store" /\ Others(p) /\ UNCHANGED <<kind, deps>>
        /\ refs' = refs \/ refs' = [refs EXCEPT ![id[p]] = rule[p]]
        /\ (id[p] \in Dynamic /\ pc'[p] = "load" /\ id'[p] = id[p]) \/ id[p] \notin Dynamic
      BY <1>6, StoreEffect
  <2>2. i \in Dynamic
      BY <2>1 DEF Dynamic
  <2>3. CASE i = id[p]
    <3>1. Owes(p, i)'
        BY <2>1, <2>2, <2>3 DEF Owes
    <3> QED BY <3>1, MindedAwaited DEF Awaited
  <2>4. CASE i # id[p]
    <3>1. refs'[i] = refs[i]
        BY <1>0, <2>1, <2>4 DEF TypeOK
    <3>2. EdgesThere(i) => EdgesThere(i)'
        BY <2>1, <3>1 DEF EdgesThere
    <3> QED BY <1>0, <1>1, <1>3, <2>1, <2>2, <3>1, <3>2, MindedFrame
  <2> QED BY <2>3, <2>4
<1>7. CASE Delete(p) \/ Rollback(p)
  <2>1. /\ pc[p] \in {"delete", "rollback"} /\ Others(p)
        /\ kind' = [kind EXCEPT ![id[p]] = "deleted"]
        /\ refs' = [refs EXCEPT ![id[p]] = {}]
        /\ deps' = {e \in deps : id[p] \notin {e[1], e[2]}}
      BY <1>7, DeleteEffect DEF DeleteRow
  <2>2. i # id[p]
      BY <1>0, <2>1 DEF Dynamic, TypeOK
  <2>3. i \in Dynamic /\ refs'[i] = refs[i]
      BY <1>0, <2>1, <2>2 DEF Dynamic, TypeOK
  <2>4. \A q \in refs[i] : kind'[q] # "deleted" => kind[q] # "deleted" /\ q # id[p]
      BY <1>1, <2>1 DEF TypeOK
  <2>5. EdgesThere(i) => EdgesThere(i)'
      BY <2>1, <2>2, <2>3, <2>4 DEF EdgesThere
  <2>6. ~Owes(p, i) /\ \A q : ~Tends(p, i, q)
      BY <1>0, <2>1, <2>2 DEF Owes, Brings, WillRead, Tends
  <2> QED BY <1>0, <1>1, <2>1, <2>3, <2>4, <2>5, <2>6, MindedFrame
<1> QED BY <1>4, <1>5, <1>6, <1>7 DEF RequestStep

\* Who throws has given up what he tends, or tends it still: the consumer's
\* message comes again, and a create is rolled back.
LEMMA FailMinds ==
    ASSUME TypeOK, CascadeTypes, Roles, EdgesKept, NEW p \in Procs, Fail(p),
           pc[p] \notin {"idle", "next"},
           Enqueued(p, queue), UNCHANGED behind,
           NEW i \in Dynamic \ unsettled, i \notin GivenUp(p)
    PROVE  Minded(i)
<1> USE LoopFacts
<1>1. Others(p) /\ UNCHANGED <<kind, refs, deps>> /\ refs[i] \subseteq Ids
    BY FailEffect DEF TypeOK, Dynamic
<1>2. CASE p = "cascade"
  <2>1. pc'[p] = "idle"
      BY <1>2, FailEffect DEF Roles
  <2>2. queue' = <<held>> \o queue /\ held \in Ids
      BY <1>2, <2>1 DEF Enqueued, Roles, CascadeTypes
  <2>3. ToSet(queue') = {held} \cup ToSet(queue)
      BY <2>2, ToSetPut DEF CascadeTypes
  <2>4. \A q : ~WillRead(p, i, q)
      BY <1>2 DEF WillRead, GivenUp, Dynamic
  <2>5. ~Owes(p, i)
      BY <1>2 DEF Owes
  <2>6. \A q \in refs[i] : (q \in ToSet(queue) \/ Tends(p, i, q)) => Tended(i, q)'
      BY <2>3, <2>4, <2>5 DEF Tends, Brings, Tended
  <2> QED BY <1>1, <1>2, <2>5, <2>6, EdgesFrame, MindedFrame
<1>3. CASE p # "cascade" /\ op[p] = "create dynamic" /\ Evaluating(p)
  <2>1. UNCHANGED <<queue, held>> /\ pc'[p] = "rollback" /\ id'[p] = id[p]
      BY <1>3, FailEffect DEF Enqueued, work
  <2>2. CASE i = id[p]
    <3>1. Owes(p, i)'
        BY <1>3, <2>1, <2>2 DEF Owes
    <3> QED BY <3>1, MindedAwaited DEF Awaited
  <2>3. CASE i # id[p]
    <3>1. ~Owes(p, i) /\ \A q : ~Tends(p, i, q)
        BY <1>3, <2>3 DEF Tends, Owes, Brings, WillRead, Roles
    <3>2. \A q \in refs[i] : q \in ToSet(queue) => Tended(i, q)'
        BY <2>1 DEF Tended
    <3> QED BY <1>1, <2>1, <3>1, <3>2, EdgesFrame, MindedFrame
  <2> QED BY <2>2, <2>3
<1>4. CASE p # "cascade" /\ ~(op[p] = "create dynamic" /\ Evaluating(p))
  <2>1. UNCHANGED <<queue, held>>
      BY <1>4 DEF Enqueued
  <2>2. ~Owes(p, i) /\ \A q : ~Tends(p, i, q)
    <3>1. i \in Ids
        BY DEF Dynamic
    <3> QED BY <1>4, <3>1
            DEF Tends, Owes, Brings, WillRead, GivenUp, Evaluating
  <2>3. \A q \in refs[i] : q \in ToSet(queue) => Tended(i, q)'
      BY <2>1 DEF Tended
  <2> QED BY <1>1, <2>1, <2>2, <2>3, EdgesFrame, MindedFrame
<1> QED BY <1>2, <1>3, <1>4

LEMMA EvaluationMinds ==
    ASSUME TypeOK, CascadeTypes, Roles, EdgesKept, NEW p \in Procs,
           Prepare(p) \/ Read(p), NEW i \in Dynamic', i \notin unsettled'
    PROVE  Minded(i)
<1> USE LoopFacts
<1>1. ASSUME Others(p), UNCHANGED <<kind, refs, deps, queue, held>>,
             i \notin unsettled, \A r \in Procs \ {p} : behind'[r] = behind[r],
             Owes(p, i) => Awaited(i)',
             \A q \in refs[i] : Tends(p, i, q) => Tended(i, q)'
      PROVE  Minded(i)
  <2>1. \A q \in refs[i] : q \in ToSet(queue) => Tended(i, q)'
      BY <1>1 DEF Tended
  <2>2. i \in Dynamic \ unsettled
      BY <1>1 DEF Dynamic
  <2> QED BY <1>1, <2>1, <2>2, EdgesFrame, MindedFrame
<1>2. CASE Load(p) /\ CanLoad(p) /\ Prepare(p)
  <2>1. /\ pc[p] = "load" /\ Others(p) /\ pc'[p] = "edges"
        /\ UNCHANGED <<kind, refs, deps, op, id, order, behind>>
      BY <1>2, LoadEffect DEF Prepare
  <2>2. UNCHANGED <<queue, held, unsettled>>
      BY <1>2, <2>1 DEF Prepare, Enqueued, ReplaceDependencies
  <2>3. Owes(p, i) => Awaited(i)'
      BY <2>1 DEF Owes, Awaited
  <2>4. \A q \in refs[i] : Tends(p, i, q) => Tends(p, i, q)'
      BY <2>1, <2>2 DEF Tends, Owes, Brings, WillRead
  <2>5. \A q \in refs[i] : Tends(p, i, q) => Tended(i, q)'
      BY <2>4 DEF Tended
  <2> QED BY <1>1, <2>1, <2>2, <2>3, <2>5
<1>3. CASE ReplaceDependencies(p) /\ CanReplace(p) /\ Prepare(p)
  <2>1. /\ pc[p] = "edges" /\ Others(p) /\ pc'[p] = "members"
        /\ deps' = {e \in deps : e[2] # id[p]} \cup (rule[p] \X {id[p]})
        /\ UNCHANGED <<kind, refs, op, id, rule, order, behind>>
      BY <1>3, ReplaceEffect DEF Prepare
  <2>2. /\ UNCHANGED <<queue, held>>
        /\ unsettled' = IF rule[p] = refs[id[p]] THEN unsettled \ {id[p]}
                        ELSE unsettled \cup {id[p]}
      BY <1>3, <2>1 DEF Prepare, Enqueued, Load
  <2>3. CASE i = id[p]
    <3>1. rule[p] = refs[i]
        BY <2>2, <2>3
    <3>2. EdgesThere(i)'
      <4>1. rule[p] \subseteq Existing
          BY <1>3 DEF CanReplace
      <4>2. \A q \in rule[p] : kind[q] # "deleted"
          BY <4>1 DEF Existing, Types
      <4>3. \A q \in Ids : <<q, i>> \in deps' <=> q \in rule[p]
          BY <2>1, <2>3
      <4> QED BY <2>1, <3>1, <4>2, <4>3 DEF EdgesThere
    <3>3. \A q : WillRead(p, i, q)'
        BY <2>1, <2>3 DEF WillRead
    <3>4. \A q : Tended(i, q)'
        BY <3>3 DEF Tended, Tends
    <3> QED BY <3>2, <3>4 DEF Minded
  <2>4. CASE i # id[p]
    <3>1. i \in Dynamic \ unsettled
        BY <2>1, <2>2, <2>4 DEF Dynamic
    <3>2. refs'[i] = refs[i]
          /\ \A q \in refs[i] : kind'[q] # "deleted" => kind[q] # "deleted"
        BY <2>1
    <3>3. EdgesThere(i) => EdgesThere(i)'
        BY <2>1, <2>4, <3>2 DEF EdgesThere
    <3>4. Owes(p, i) => Awaited(i)'
        BY <2>1, <2>4 DEF Owes, Awaited
    <3>5. \A q \in refs[i] : Tends(p, i, q) => Tends(p, i, q)'
        BY <2>1, <2>2, <2>4 DEF Tends, Owes, Brings, WillRead
    <3>6. \A q \in refs[i] : (q \in ToSet(queue) \/ Tends(p, i, q)) => Tended(i, q)'
        BY <2>2, <3>5 DEF Tended
    <3> QED BY <2>1, <2>2, <3>1, <3>2, <3>3, <3>4, <3>6, MindedFrame
  <2> QED BY <2>3, <2>4
<1>4. CASE Read(p)
  <2>1. /\ pc[p] = "members" /\ pc'[p] = "commit" /\ Others(p)
        /\ UNCHANGED <<kind, refs, deps, op, id, rule, order>>
        /\ behind' = [behind EXCEPT ![p] = {}]
        /\ UNCHANGED <<queue, held, unsettled>>
      BY <1>4, MembersEffect DEF Read, cascade
  <2>2. behind'[p] = {} /\ \A r \in Procs \ {p} : behind'[r] = behind[r]
      BY <2>1 DEF CascadeTypes
  <2>3. Owes(p, i) => Awaited(i)'
      BY <2>1 DEF Owes, Awaited
  <2>4. \A q \in refs[i] : Tends(p, i, q) => Tends(p, i, q)'
      BY <2>1, <2>2 DEF Tends, Owes, Brings, WillRead
  <2>5. \A q \in refs[i] : Tends(p, i, q) => Tended(i, q)'
      BY <2>4 DEF Tended
  <2> QED BY <1>1, <2>1, <2>2, <2>3, <2>5
<1>5. CASE Prepare(p) /\ Fail(p) /\ pc[p] \in {"load", "edges"}
                      /\ unsettled' = unsettled \cup GivenUp(p)
  <2>1. i \in Dynamic \ unsettled /\ i \notin GivenUp(p)
      BY <1>5, FailEffect DEF Dynamic
  <2> QED BY <1>5, <2>1, FailMinds DEF Prepare
<1>6. CASE Prepare(p) /\ Load(p) /\ ~CanLoad(p)
  <2>1. Fail(p) /\ pc[p] = "load"
      BY <1>6, LoadEffect
  <2>2. unsettled' = unsettled \cup GivenUp(p)
      BY <1>6, <2>1 DEF Prepare, ReplaceDependencies
  <2> QED BY <1>5, <1>6, <2>1, <2>2
<1>7. CASE Prepare(p) /\ ReplaceDependencies(p) /\ ~CanReplace(p)
  <2>1. Fail(p) /\ pc[p] = "edges"
      BY <1>7, ReplaceEffect
  <2>2. unsettled' = unsettled \cup GivenUp(p)
      BY <1>7, <2>1 DEF Prepare, Load
  <2> QED BY <1>5, <1>7, <2>1, <2>2
<1> QED BY <1>2, <1>3, <1>4, <1>6, <1>7 DEF Prepare

LEMMA ThrowMinds ==
    ASSUME TypeOK, CascadeTypes, Roles, EdgesKept, NEW p \in Procs, Throw(p),
           NEW i \in Dynamic', i \notin unsettled'
    PROVE  Minded(i)
<1>1. /\ Fail(p) /\ pc[p] \notin {"idle", "next"} /\ Enqueued(p, queue)
      /\ UNCHANGED behind /\ unsettled' = unsettled \cup GivenUp(p)
    BY DEF Throw, QueryFails
<1>2. i \in Dynamic \ unsettled /\ i \notin GivenUp(p)
    BY <1>1, FailEffect DEF Dynamic
<1> QED BY <1>1, <1>2, FailMinds

LEMMA NextMinds ==
    ASSUME TypeOK, CascadeTypes, EdgesKept, NEW p \in Loops, NextSegment(p),
           UNCHANGED <<queue, behind, unsettled>>,
           held' = held \/ (p = "cascade" /\ order[p] = <<>>),
           NEW i \in Dynamic', i \notin unsettled
    PROVE  Minded(i)
<1> USE LoopFacts
<1>1. /\ pc[p] = "next" /\ Others(p) /\ UNCHANGED <<kind, refs, deps, op>>
      /\ p \in Procs
    BY NextEffect DEF Procs
<1>2. i \in Dynamic \ unsettled
    BY <1>1 DEF Dynamic
<1>3. \A q \in refs[i] : q \in ToSet(queue) => Tended(i, q)'
    BY DEF Tended
<1>4. CASE order[p] = <<>>
  <2>1. ~Owes(p, i) /\ \A q : ~Tends(p, i, q)
      BY <1>1, <1>4, ToSetEmpty DEF Tends, Owes, Brings, WillRead
  <2> QED BY <1>1, <1>2, <1>3, <2>1, EdgesFrame, MindedFrame
<1>5. CASE order[p] # <<>>
  <2>1. /\ pc'[p] = "load" /\ ToSet(order[p]) = {id'[p]} \cup ToSet(order'[p])
        /\ UNCHANGED held
      BY <1>1, <1>5, NextEffect
  <2>2. Owes(p, i) => Awaited(i)'
      BY <1>1, <2>1 DEF Owes, Awaited
  <2>3. \A q \in refs[i] : Tends(p, i, q) => Tends(p, i, q)'
      BY <1>1, <2>1 DEF Tends, Owes, Brings, WillRead
  <2>4. \A q \in refs[i] : Tends(p, i, q) => Tended(i, q)'
      BY <1>1, <2>3 DEF Tended
  <2> QED BY <1>1, <1>2, <1>3, <2>1, <2>2, <2>4, EdgesFrame, MindedFrame
<1> QED BY <1>4, <1>5

LEMMA DeliverMinds ==
    ASSUME TypeOK, CascadeTypes, Roles, EdgesKept, Deliver,
           NEW i \in Dynamic', i \notin unsettled'
    PROVE  Minded(i)
<1> USE LoopFacts
<1>1. /\ held = NoId /\ queue # <<>> /\ held' = Head(queue) /\ queue' = Tail(queue)
      /\ pc' = [pc EXCEPT !["cascade"] = "lookup"]
      /\ UNCHANGED <<kind, refs, deps, op, id, rule, order, behind, unsettled>>
    BY DEF Deliver, work, history
<1>2. Others("cascade") /\ pc'["cascade"] = "lookup" /\ pc["cascade"] = "idle"
    BY <1>1 DEF Others, TypeOK, Roles
<1>3. i \in Dynamic \ unsettled
    BY <1>1 DEF Dynamic
<1>4. refs[i] \subseteq Ids
    BY <1>3 DEF TypeOK, Dynamic
<1>5. ~Owes("cascade", i) /\ \A q \in refs[i] : ~Tends("cascade", i, q)
    BY <1>1, <1>2, <1>4, NoIdAssumption DEF Tends, Owes, Brings, WillRead
<1>6. ToSet(queue) = {held'} \cup ToSet(queue')
    BY <1>1, ToSetTail DEF CascadeTypes
<1>7. ASSUME NEW q \in refs[i], q \in ToSet(queue) PROVE Tended(i, q)'
  <2>1. CASE q = held'
    <3>1. Brings("cascade", i, q)'
        BY <1>2, <2>1 DEF Brings
    <3> QED BY <3>1 DEF Tended, Tends
  <2>2. CASE q # held'
      BY <1>6, <1>7, <2>2 DEF Tended
  <2> QED BY <2>1, <2>2
<1> QED BY <1>1, <1>2, <1>3, <1>5, <1>7, EdgesFrame, MindedFrame

\* The lookup finds every dependent that is not awaited elsewhere.
LEMMA LookupMinds ==
    ASSUME TypeOK, EdgesKept, Lookup, NEW i \in Dynamic', i \notin unsettled'
    PROVE  Minded(i)
<1> USE LoopFacts
<1>1. /\ pc["cascade"] = "lookup" /\ Others("cascade")
      /\ UNCHANGED <<kind, refs, deps, op, id, queue, held, behind, unsettled>>
      /\ ToSet(order'["cascade"]) = Dependents(held)
    BY LookupEffect DEF Lookup, cascade, history
<1>2. i \in Dynamic \ unsettled
    BY <1>1 DEF Dynamic
<1>3. CASE Awaited(i)
  <2>1. Awaited(i)'
      BY <1>1, <1>3, AwaitedFrame DEF Owes
  <2> QED BY <2>1, MindedAwaited
<1>4. CASE ~Awaited(i)
  <2>1. EdgesThere(i)
      BY <1>2, <1>4 DEF EdgesKept
  <2>2. ASSUME NEW q \in refs[i], Tends("cascade", i, q), kind[q] # "deleted"
        PROVE  Tended(i, q)'
    <3>1. held = q
        BY <1>1, <2>2 DEF Tends, Owes, Brings, WillRead
    <3>2. <<q, i>> \in deps
        BY <1>2, <2>1, <2>2 DEF EdgesThere, Dynamic, TypeOK
    <3>3. i \in Dependents(held)
        BY <3>1, <3>2 DEF Dependents
    <3>4. Brings("cascade", i, q)'
        BY <1>1, <3>1, <3>3 DEF Brings
    <3> QED BY <3>4 DEF Tended, Tends
  <2>3. \A q \in refs[i] : q \in ToSet(queue) => Tended(i, q)'
      BY <1>1 DEF Tended
  <2>4. ~Owes("cascade", i)
      BY DEF Owes
  <2> QED BY <1>1, <1>2, <2>2, <2>3, <2>4, EdgesFrame, MindedFrame
<1> QED BY <1>3, <1>4

LEMMA SnapshotMinds ==
    ASSUME TypeOK, Snapshot("boot"),
           unsettled' = IF TopoSorts = {} THEN unsettled \cup GivenUp("boot")
                        ELSE unsettled,
           NEW i \in Dynamic', i \notin unsettled'
    PROVE  Minded(i)
<1> USE ProcsFact
<1>1. UNCHANGED kind
    BY SnapshotEffect, FailEffect
<1>2. i \in Dynamic
    BY <1>1 DEF Dynamic
<1>3. pc'["boot"] = "next" /\ ToSet(order'["boot"]) = Dynamic
  <2>1. Dynamic \subseteq GivenUp("boot")
      BY SnapshotEffect, LoopFacts DEF GivenUp, Dynamic
  <2> QED BY <1>2, <2>1, SnapshotEffect
<1>4. Owes("boot", i)'
    BY <1>2, <1>3 DEF Owes
<1> QED BY <1>4, MindedAwaited DEF Awaited

LEMMA RestartMinds ==
    ASSUME Restart, NEW i PROVE Minded(i)
<1>1. Owes("boot", i)'
    BY RestartEffect DEF Owes
<1> QED BY <1>1, ProcsFact, MindedAwaited DEF Awaited

LEMMA NothingMinds ==
    ASSUME TypeOK, EdgesKept, UNCHANGED all, NEW i \in Dynamic', i \notin unsettled'
    PROVE  Minded(i)
<1> USE LoopFacts
<1>1. UNCHANGED <<kind, refs, deps, pc, op, id, rule, order, queue, held, behind, unsettled>>
    BY DEF all, vars, cascade, history
<1>2. i \in Dynamic \ unsettled /\ Others("cascade")
    BY <1>1 DEF Dynamic, Others
<1>3. Owes("cascade", i) => Awaited(i)'
    BY <1>1 DEF Owes
<1>4. \A q \in refs[i] : Tends("cascade", i, q) => Tends("cascade", i, q)'
    BY <1>1 DEF Tends, Owes, Brings, WillRead
<1>5. \A q \in refs[i] : (q \in ToSet(queue) \/ Tends("cascade", i, q)) => Tended(i, q)'
    BY <1>1, <1>4 DEF Tended
<1> QED BY <1>1, <1>2, <1>3, <1>5, EdgesFrame, MindedFrame

-----------------------------------------------------------------------------
(* The steps that store no evaluation.                                     *)

LEMMA MindedSuffices ==
    ASSUME StaleTended, BehindTended, UNCHANGED <<stale, lapped>>,
           \A i \in Dynamic' \ unsettled' : Minded(i),
           \A p \in Procs : pc'[p] = "commit" =>
                \/ behind'[p] = {}
                \/ /\ pc[p] = "commit" /\ id'[p] = id[p] /\ rule'[p] = rule[p]
                   /\ behind'[p] = behind[p]
    PROVE  EdgesKept' /\ StaleTended' /\ BehindTended'
<1>1. EdgesKept'
    BY DEF EdgesKept, Minded
<1>2. ASSUME NEW i \in Dynamic' \ (lapped' \cup unsettled'),
             NEW q \in stale'[i] \cap refs'[i], kind'[q] # "deleted"
      PROVE  Tended(i, q)'
  <2>1. Minded(i)
      BY <1>2
  <2>2. SUFFICES ASSUME i \in Dynamic \ unsettled, refs'[i] = refs[i],
                        kind[q] # "deleted", ~Tended(i, q)
                 PROVE  FALSE
      BY <1>2, <2>1 DEF Minded
  <2>3. i \in Dynamic \ (lapped \cup unsettled) /\ q \in stale[i] \cap refs[i]
      BY <1>2, <2>2
  <2> QED BY <2>2, <2>3 DEF StaleTended
<1>3. ASSUME NEW p \in Procs, NEW i \in Dynamic' \ unsettled',
             pc'[p] = "commit", id'[p] = i, rule'[p] = refs'[i], i \notin behind'[p],
             NEW q \in behind'[p] \cap refs'[i], kind'[q] # "deleted"
      PROVE  Tended(i, q)'
  <2>1. Minded(i)
      BY <1>3
  <2>2. SUFFICES ASSUME i \in Dynamic \ unsettled, refs'[i] = refs[i],
                        kind[q] # "deleted", ~Tended(i, q)
                 PROVE  FALSE
      BY <1>3, <2>1 DEF Minded
  <2>3. /\ pc[p] = "commit" /\ id[p] = i /\ rule[p] = refs[i] /\ i \notin behind[p]
        /\ q \in behind[p] \cap refs[i]
      BY <1>3, <2>2
  <2> QED BY <2>2, <2>3 DEF BehindTended
<1>4. StaleTended'
    BY <1>2 DEF StaleTended
<1>5. BehindTended'
    BY <1>3 DEF BehindTended
<1> QED BY <1>1, <1>4, <1>5

\* A step of p whose evaluation is not about to be committed, or reads.
LEMMA CommitsFrame ==
    ASSUME NEW p \in Procs, Others(p), pc'[p] # "commit", UNCHANGED behind
    PROVE  \A r \in Procs : pc'[r] = "commit" =>
                \/ behind'[r] = {}
                \/ /\ pc[r] = "commit" /\ id'[r] = id[r] /\ rule'[r] = rule[r]
                   /\ behind'[r] = behind[r]
BY DEF Others

LEMMA QuietStep ==
    ASSUME Basics, EdgesKept, StaleTended, BehindTended, [CascadeNext]_all,
           \A p \in Procs : ~Commit(p)
    PROVE  EdgesKept' /\ StaleTended' /\ BehindTended'
<1> USE LoopFacts, ProcsFact
<1>0. TypeOK /\ CascadeTypes /\ Roles /\ NewIds /\ NoSelf
    BY DEF Basics
<1>1. ASSUME NEW p \in Procs, Others(p), pc'[p] # "commit", UNCHANGED behind,
             UNCHANGED <<stale, lapped>>,
             \A i \in Dynamic' \ unsettled' : Minded(i)
      PROVE  EdgesKept' /\ StaleTended' /\ BehindTended'
    BY <1>1, CommitsFrame, MindedSuffices
<1>2. ASSUME NEW p \in Callers, RequestStep(p), UNCHANGED <<cascade, history>>
      PROVE  EdgesKept' /\ StaleTended' /\ BehindTended'
  <2>1. UNCHANGED <<behind, stale, lapped, unsettled>>
      BY <1>2 DEF history
  <2>2. \A i \in Dynamic' \ unsettled' : Minded(i)
      BY <1>0, <1>2, <2>1, RequestMinds
  <2>3. CASE Others(p) /\ pc'[p] # "commit"
      BY <1>1, <2>1, <2>2, <2>3
  <2>4. CASE CheckCreate(p) \/ CheckUpdate(p) \/ CheckRemove(p) \/ Refresh(p)
    <3>1. Others(p) /\ pc'[p] # "commit"
        BY <1>0, <2>4, AcceptEffect
    <3> QED BY <2>3, <3>1
  <2> QED BY <1>0, <1>2, <2>3, <2>4, InsertEffect, StoreEffect, DeleteEffect
          DEF RequestStep
<1>3. ASSUME NEW p \in Procs, Prepare(p) \/ Read(p)
      PROVE  EdgesKept' /\ StaleTended' /\ BehindTended'
  <2>1. \A i \in Dynamic' \ unsettled' : Minded(i)
      BY <1>0, <1>3, EvaluationMinds
  <2>2. UNCHANGED <<stale, lapped>>
      BY <1>3 DEF Prepare, Read
  <2>3. CASE Prepare(p)
    <3>1. Others(p) /\ pc'[p] # "commit"
      <4>1. ASSUME Fail(p) PROVE Others(p) /\ pc'[p] # "commit"
          BY <1>0, <4>1, FailEffect
      <4> QED BY <1>0, <2>3, <4>1, LoadEffect, ReplaceEffect DEF Prepare
    <3> QED BY <1>1, <2>1, <2>2, <2>3, <3>1 DEF Prepare
  <2>4. CASE Read(p)
    <3>1. Others(p) /\ behind' = [behind EXCEPT ![p] = {}]
        BY <1>0, <2>4, MembersEffect DEF Read
    <3>2. behind'[p] = {} /\ \A r \in Procs \ {p} : behind'[r] = behind[r]
        BY <1>0, <3>1 DEF CascadeTypes
    <3>3. \A r \in Procs : pc'[r] = "commit" =>
                \/ behind'[r] = {}
                \/ /\ pc[r] = "commit" /\ id'[r] = id[r] /\ rule'[r] = rule[r]
                   /\ behind'[r] = behind[r]
        BY <3>1, <3>2 DEF Others
    <3> QED BY <2>1, <2>2, <3>3, MindedSuffices
  <2> QED BY <1>3, <2>3, <2>4
<1>4. CASE BootStep
  <2>1. CASE Evaluation("boot")
      BY <1>3, <2>1 DEF Evaluation
  <2>2. CASE NextSegment("boot") /\ UNCHANGED <<cascade, history, events>>
    <3>1. UNCHANGED <<queue, held, behind, stale, lapped, unsettled>>
        BY <2>2 DEF cascade, history
    <3>2. \A i \in Dynamic' \ unsettled' : Minded(i)
        BY <1>0, <2>2, <3>1, NextMinds
    <3>3. Others("boot") /\ pc'["boot"] # "commit"
        BY <1>0, <2>2, NextEffect
    <3> QED BY <1>1, <3>1, <3>2, <3>3
  <2>3. CASE /\ Snapshot("boot")
             /\ unsettled' = IF TopoSorts = {} THEN unsettled \cup GivenUp("boot")
                            ELSE unsettled
             /\ UNCHANGED <<cascade, behind, stale, lapped, events>>
    <3>1. /\ unsettled' = IF TopoSorts = {} THEN unsettled \cup GivenUp("boot")
                            ELSE unsettled
          /\ UNCHANGED <<behind, stale, lapped>>
        BY <2>3
    <3>2. \A i \in Dynamic' \ unsettled' : Minded(i)
        BY <1>0, <2>3, <3>1, SnapshotMinds
    <3>3. Others("boot") /\ pc'["boot"] # "commit"
        BY <1>0, <2>3, SnapshotEffect, FailEffect
    <3> QED BY <1>1, <3>1, <3>2, <3>3
  <2> QED BY <1>4, <2>1, <2>2, <2>3 DEF BootStep
<1>5. CASE Deliver
  <2>1. UNCHANGED <<behind, stale, lapped, id, rule, order, op>>
        /\ pc' = [pc EXCEPT !["cascade"] = "lookup"]
      BY <1>5 DEF Deliver, history, work
  <2>2. Others("cascade") /\ pc'["cascade"] # "commit"
      BY <1>0, <2>1 DEF Others, TypeOK
  <2>3. \A i \in Dynamic' \ unsettled' : Minded(i)
      BY <1>0, <1>5, DeliverMinds
  <2> QED BY <1>1, <2>1, <2>2, <2>3
<1>6. CASE Lookup
  <2>1. UNCHANGED <<behind, stale, lapped>>
      BY <1>6 DEF Lookup, history
  <2>2. \A i \in Dynamic' \ unsettled' : Minded(i)
      BY <1>0, <1>6, LookupMinds
  <2> QED BY <1>0, <1>1, <1>6, <2>1, <2>2, LookupEffect
<1>7. CASE NextDependent
  <2>1. /\ UNCHANGED <<queue, behind, stale, lapped, unsettled>>
        /\ NextSegment("cascade")
        /\ held' = held \/ order["cascade"] = <<>>
      BY <1>7 DEF NextDependent, history
  <2>2. \A i \in Dynamic' \ unsettled' : Minded(i)
      BY <1>0, <2>1, NextMinds
  <2>3. Others("cascade") /\ pc'["cascade"] # "commit"
      BY <1>0, <2>1, NextEffect
  <2> QED BY <1>1, <2>1, <2>2, <2>3
<1>8. CASE CascadeRestart
  <2>1. Restart /\ UNCHANGED <<stale, lapped>>
      BY <1>8 DEF CascadeRestart
  <2>2. \A i \in Dynamic' \ unsettled' : Minded(i)
      BY <2>1, RestartMinds
  <2>3. \A r \in Procs : pc'[r] # "commit"
      BY <2>1, RestartEffect
  <2> QED BY <2>1, <2>2, <2>3, MindedSuffices
<1>9. CASE UNCHANGED all
  <2>1. UNCHANGED <<pc, op, id, rule, order, behind, stale, lapped>>
      BY <1>9 DEF all, vars, history
  <2>2. \A i \in Dynamic' \ unsettled' : Minded(i)
      BY <1>0, <1>9, NothingMinds
  <2> QED BY <2>1, <2>2, MindedSuffices
<1>10. ASSUME NEW p \in Procs, Throw(p)
       PROVE  EdgesKept' /\ StaleTended' /\ BehindTended'
  <2>1. Fail(p) /\ UNCHANGED <<behind, stale, lapped>>
      BY <1>10 DEF Throw, QueryFails
  <2>2. \A i \in Dynamic' \ unsettled' : Minded(i)
      BY <1>0, <1>10, ThrowMinds
  <2>3. Others(p) /\ pc'[p] # "commit"
      BY <1>0, <2>1, FailEffect
  <2> QED BY <1>1, <2>1, <2>2, <2>3
<1> QED BY <1>2, <1>3, <1>4, <1>5, <1>6, <1>7, <1>8, <1>9, <1>10
        DEF CascadeNext, CascadeStep, Evaluation
-----------------------------------------------------------------------------
(* The step that stores an evaluation.                                     *)

\* The queue grows, or has the consumer's message again.
LEMMA CommitQueue ==
    ASSUME CascadeTypes, Roles, NEW p \in Procs, pc[p] = "commit", NEW changed,
           changed => id[p] \in Ids,
           Enqueued(p, IF changed THEN Append(queue, id[p]) ELSE queue)
    PROVE  /\ ToSet(queue) \subseteq ToSet(queue')
           /\ p = "cascade" /\ pc'[p] = "idle" => held \in ToSet(queue')
           /\ changed => id[p] \in ToSet(queue')
           /\ p # "cascade" \/ pc'[p] # "idle" => UNCHANGED held
<1> DEFINE new == IF changed THEN Append(queue, id[p]) ELSE queue
<1>1. new \in Seq(Ids) /\ ToSet(queue) \subseteq ToSet(new)
      /\ (changed => id[p] \in ToSet(new))
  <2>1. CASE changed
      BY <2>1, ToSetAppend DEF CascadeTypes
  <2>2. CASE ~changed
      BY <2>2 DEF CascadeTypes
  <2> QED BY <2>1, <2>2
<1> HIDE DEF new
<1>2. Enqueued(p, new)
    BY DEF new
<1>3. CASE p = "cascade" /\ pc'[p] = "idle"
  <2>1. held \in Ids /\ queue' = <<held>> \o new
      BY <1>2, <1>3 DEF Enqueued, Roles, CascadeTypes
  <2> QED BY <1>1, <1>3, <2>1, ToSetPut
<1>4. CASE ~(p = "cascade" /\ pc'[p] = "idle")
    BY <1>1, <1>2, <1>4 DEF Enqueued
<1> QED BY <1>3, <1>4

\* What is tended stays so, but for the segments whose members this very
\* evaluation has seen.
LEMMA CommitTended ==
    ASSUME Basics, NEW p \in Procs, CommitMembers(p), NEW changed,
           changed => id[p] \in Ids,
           Committed(p, id[p], changed),
           Enqueued(p, IF changed THEN Append(queue, id[p]) ELSE queue),
           NEW i \in Ids, NEW q \in Ids, q # i, Tended(i, q),
           ~WillRead(p, i, q)
    PROVE  Tended(i, q)'
<1> USE LoopFacts
<1>0. TypeOK /\ CascadeTypes /\ Roles
    BY DEF Basics
<1>1. /\ pc[p] = "commit" /\ Others(p) /\ UNCHANGED <<kind, refs, deps>>
      /\ \/ /\ pc'[p] = (IF p \in Loops THEN "next" ELSE "idle")
            /\ op'[p] = "none" /\ id'[p] = NoId /\ UNCHANGED order
         \/ id[p] \notin Existing /\ Fail(p)
    BY <1>0, CommitEffect
<1>2. /\ ToSet(queue) \subseteq ToSet(queue')
      /\ p = "cascade" /\ pc'[p] = "idle" => held \in ToSet(queue')
      /\ changed => id[p] \in ToSet(queue')
      /\ p # "cascade" \/ pc'[p] # "idle" => UNCHANGED held
    BY <1>0, <1>1, CommitQueue
<1>3. CASE q \in ToSet(queue')
    BY <1>3 DEF Tended
<1>4. CASE q \notin ToSet(queue')
  <2>1. PICK r \in Procs : Tends(r, i, q)
      BY <1>2, <1>4 DEF Tended
  <2>2. CASE r = p
    <3>1. CASE Owes(p, i)
      <4>1. p = "boot" /\ i \in ToSet(order[p])
          BY <1>1, <3>1 DEF Owes
      <4>2. id[p] \in Existing
          BY <1>0, <1>1, <4>1 DEF Roles
      <4>3. Owes(p, i)'
          BY <1>1, <4>1, <4>2 DEF Owes
      <4> QED BY <4>3 DEF Tended, Tends
    <3>2. CASE Brings(p, i, q)
      <4>1. p = "cascade" /\ held = q /\ i \in ToSet(order[p])
          BY <1>1, <3>2 DEF Brings
      <4>2. pc'[p] # "idle"
          BY <1>2, <1>4, <4>1
      <4>3. pc'[p] = "next" /\ UNCHANGED order
          BY <1>0, <1>1, <4>1, <4>2, FailEffect DEF Roles
      <4>4. Brings(p, i, q)'
          BY <1>2, <4>1, <4>3 DEF Brings
      <4> QED BY <4>4 DEF Tended, Tends
    <3> QED BY <2>1, <2>2, <3>1, <3>2 DEF Tends
  <2>3. CASE r # p
    <3>1. Owes(r, i) => Owes(r, i)'
        BY <1>1, <2>3 DEF Owes, Others
    <3>2. Brings(r, i, q) => Brings(r, i, q)'
        BY <1>1, <1>2, <2>3 DEF Brings, Others
    <3>3. WillRead(r, i, q) => WillRead(r, i, q)'
      <4>1. SUFFICES ASSUME id[r] = i, q \notin behind[r], pc[r] = "commit"
                     PROVE  q \notin behind'[r]
          BY <1>1, <2>3 DEF WillRead, Others
      <4>2. behind'[r] = IF pc[r] = "commit" /\ (changed \/ id[r] = id[p])
                         THEN behind[r] \cup {id[p]} ELSE behind[r]
          BY <2>3 DEF Committed
      <4>3. q = id[p] => ~changed
          BY <1>2, <1>4
      <4> QED BY <4>1, <4>2, <4>3
    <3>4. Tends(r, i, q)'
        BY <2>1, <3>1, <3>2, <3>3 DEF Tends
    <3> QED BY <3>4 DEF Tended
  <2> QED BY <2>2, <2>3
<1> QED BY <1>3, <1>4

LEMMA CommitStep ==
    ASSUME Basics, EdgesKept, StaleTended, BehindTended,
           NEW p \in Procs, Commit(p)
    PROVE  EdgesKept' /\ StaleTended' /\ BehindTended'
<1> USE LoopFacts
<1>0. TypeOK /\ CascadeTypes /\ Roles /\ NoSelf
    BY DEF Basics
<1>1. PICK changed \in {FALSE, id[p] \in Existing /\ events < MaxEvents} :
        /\ Committed(p, id[p], changed)
        /\ Enqueued(p, IF changed THEN Append(queue, id[p]) ELSE queue)
    BY DEF Commit
<1>2. /\ CommitMembers(p) /\ pc[p] = "commit" /\ Others(p)
      /\ UNCHANGED <<kind, refs, deps, unsettled>>
      /\ pc'[p] # "commit"
      /\ \/ /\ pc'[p] = (IF p \in Loops THEN "next" ELSE "idle") /\ UNCHANGED order
         \/ id[p] \notin Existing
  <2>1. CommitMembers(p) /\ UNCHANGED unsettled
      BY <1>1 DEF Commit, Committed
  <2> QED BY <1>0, <2>1, CommitEffect, FailEffect
<1>3. Dynamic' = Dynamic /\ (changed => id[p] \in Ids)
    BY <1>1, <1>2 DEF Dynamic, Existing
<1>4. /\ \A r \in Procs : behind'[r] =
            IF r = p THEN {}
            ELSE IF pc[r] = "commit" /\ (changed \/ id[r] = id[p])
            THEN behind[r] \cup {id[p]} ELSE behind[r]
      /\ \A j \in Ids : stale'[j] =
            IF j = id[p] THEN behind[p] \ {id[p]}
            ELSE IF changed THEN stale[j] \cup {id[p]} ELSE stale[j]
      /\ lapped' = IF id[p] \in behind[p] \/ rule[p] # refs[id[p]]
                   THEN lapped \cup {id[p]} ELSE lapped \ {id[p]}
    BY <1>1 DEF Committed
<1>5. ASSUME NEW i \in Ids, NEW q \in Ids, q # i, Tended(i, q), ~WillRead(p, i, q)
      PROVE  Tended(i, q)'
    BY <1>1, <1>2, <1>3, <1>5, CommitTended
<1>6. ASSUME changed, NEW i, NEW q, q = id[p] PROVE Tended(i, q)'
  <2>1. q \in ToSet(queue')
      BY <1>0, <1>1, <1>2, <1>3, <1>6, CommitQueue
  <2> QED BY <2>1 DEF Tended
<1>7. EdgesKept'
  <2>1. ASSUME NEW i \in Dynamic \ unsettled PROVE EdgesThere(i)' \/ Awaited(i)'
    <3>1. CASE EdgesThere(i)
        BY <1>2, <3>1, EdgesFrame
    <3>2. CASE Awaited(i)
      <4>1. ASSUME Owes(p, i) PROVE Owes(p, i)'
        <5>1. p = "boot" /\ i \in ToSet(order[p])
            BY <1>2, <4>1 DEF Owes
        <5>2. id[p] \in Existing
            BY <1>0, <1>2, <5>1 DEF Roles
        <5> QED BY <1>2, <5>1, <5>2 DEF Owes
      <4>2. Owes(p, i) => Awaited(i)'
          BY <4>1 DEF Awaited
      <4> QED BY <1>2, <3>2, <4>2, AwaitedFrame
    <3> QED BY <2>1, <3>1, <3>2 DEF EdgesKept
  <2> QED BY <1>2, <1>3, <2>1 DEF EdgesKept
<1>8. ASSUME NEW i \in Dynamic \ (lapped' \cup unsettled),
             NEW q \in stale'[i] \cap refs[i], kind[q] # "deleted"
      PROVE  Tended(i, q)'
  <2>0. i \in Ids /\ q \in Ids
      BY <1>0 DEF TypeOK, Dynamic
  <2>1. CASE i = id[p]
    <3>0. /\ stale'[i] = behind[p] \ {i}
          /\ lapped' = IF i \in behind[p] \/ rule[p] # refs[i]
                       THEN lapped \cup {i} ELSE lapped \ {i}
        BY <1>4, <2>0, <2>1
    <3>1. /\ q \in behind[p] /\ q # i
          /\ i \notin behind[p] /\ rule[p] = refs[i]
        BY <1>8, <3>0
    <3>2. Tended(i, q)
        BY <1>2, <1>8, <2>1, <3>1 DEF BehindTended
    <3>3. ~WillRead(p, i, q)
        BY <1>2, <3>1 DEF WillRead
    <3> QED BY <1>5, <2>0, <3>1, <3>2, <3>3
  <2>2. CASE i # id[p]
    <3>1. CASE changed /\ q = id[p]
        BY <1>6, <3>1
    <3>2. CASE ~(changed /\ q = id[p])
      <4>0. /\ stale'[i] = IF changed THEN stale[i] \cup {id[p]} ELSE stale[i]
            /\ lapped \subseteq lapped' \cup {id[p]}
          BY <1>4, <2>0, <2>2
      <4>1. q \in stale[i] /\ i \notin lapped
          BY <1>8, <2>2, <3>2, <4>0
      <4>2. Tended(i, q) /\ q # i
          BY <1>0, <1>8, <2>0, <4>1 DEF StaleTended, NoSelf
      <4>3. ~WillRead(p, i, q)
          BY <2>2 DEF WillRead
      <4> QED BY <1>5, <2>0, <4>2, <4>3
    <3> QED BY <3>1, <3>2
  <2> QED BY <2>1, <2>2
<1>9. ASSUME NEW r \in Procs, NEW i \in Dynamic \ unsettled,
             pc'[r] = "commit", id'[r] = i, rule'[r] = refs[i], i \notin behind'[r],
             NEW q \in behind'[r] \cap refs[i], kind[q] # "deleted"
      PROVE  Tended(i, q)'
  <2>0. i \in Ids /\ q \in Ids /\ q # i
      BY <1>0, <1>9 DEF TypeOK, Dynamic
  <2>1. /\ r # p /\ pc[r] = "commit" /\ id[r] = i /\ rule[r] = refs[i]
        /\ i # id[p] /\ i \notin behind[r]
    <3>1. r # p
        BY <1>2, <1>9
    <3>2. pc[r] = "commit" /\ id[r] = i /\ rule[r] = refs[i]
        BY <1>2, <1>9, <3>1 DEF Others
    <3> QED BY <1>4, <1>9, <3>1, <3>2
  <2>2. CASE q \in behind[r]
    <3>1. Tended(i, q)
        BY <1>9, <2>1, <2>2 DEF BehindTended
    <3>2. ~WillRead(p, i, q)
        BY <2>1 DEF WillRead
    <3> QED BY <1>5, <2>0, <3>1, <3>2
  <2>3. CASE q \notin behind[r]
    <3>0. behind'[r] = IF pc[r] = "commit" /\ (changed \/ id[r] = id[p])
                       THEN behind[r] \cup {id[p]} ELSE behind[r]
        BY <1>4, <2>1
    <3>1. q = id[p] /\ changed
        BY <1>9, <2>1, <2>3, <3>0
    <3> QED BY <1>6, <3>1
  <2> QED BY <2>2, <2>3
<1>10. StaleTended'
    BY <1>2, <1>3, <1>8 DEF StaleTended
<1>11. BehindTended'
    BY <1>2, <1>3, <1>9 DEF BehindTended
<1> QED BY <1>7, <1>10, <1>11
-----------------------------------------------------------------------------
(* The rebuild beside the consumer.                                        *)

EdgesRight(i) == \A q \in Ids : <<q, i>> \in deps <=> q \in refs[i]

\* The rebuild has still to store the edges of i.
Due(i) ==
    \/ i \in ToSet(order["boot"])
    \/ id["boot"] = i /\ pc["boot"] \in {"load", "edges"}

\* While it runs no rule changes: whoever stores edges has read the rule as it
\* is, and edges that are right stay so.
RebuildInv == pc["boot"] # "idle" =>
    /\ \A p \in Loops : pc[p] = "edges" => rule[p] = refs[id[p]]
    /\ pc["boot"] # "snapshot" => \A i \in Dynamic : Due(i) \/ EdgesRight(i)

LEMMA TwoLoops ==
    /\ Loops = {"boot", "cascade"} /\ Loops \subseteq Procs
    /\ \A p \in Loops : \A r \in Loops : r # p => r \in Procs \ {p}
BY DEF Procs, Loops

\* A step of a loop after which what is stored of due edges is right.
LEMMA RebuildFrame ==
    ASSUME RebuildInv, NEW p \in Loops, Others(p), pc["boot"] # "idle",
           UNCHANGED <<kind, refs>>,
           pc'[p] = "edges" => rule'[p] = refs[id'[p]],
           p = "boot" /\ pc'[p] # "idle" => pc[p] # "snapshot",
           \A i \in Dynamic : EdgesRight(i) => EdgesRight(i)',
           p = "boot" /\ pc'[p] # "idle" =>
                \A i \in Dynamic : Due(i) => Due(i)' \/ EdgesRight(i)'
    PROVE  RebuildInv'
<1>1. Dynamic' = Dynamic
    BY DEF Dynamic
<1>2. ASSUME NEW r \in Loops, pc'[r] = "edges" PROVE rule'[r] = refs'[id'[r]]
  <2>1. CASE r = p
      BY <1>2, <2>1
  <2>2. CASE r # p
      BY <1>2, <2>2, TwoLoops DEF RebuildInv, Others
  <2> QED BY <2>1, <2>2
<1>3. ASSUME pc'["boot"] \notin {"idle", "snapshot"}, NEW i \in Dynamic
      PROVE  Due(i)' \/ EdgesRight(i)'
  <2>1. CASE p = "boot"
      BY <1>3, <2>1 DEF RebuildInv
  <2>2. CASE p # "boot"
    <3>1. pc'["boot"] = pc["boot"] /\ id'["boot"] = id["boot"]
          /\ order'["boot"] = order["boot"]
        BY <2>2, TwoLoops DEF Others
    <3>2. Due(i) => Due(i)'
        BY <3>1 DEF Due
    <3> QED BY <1>3, <3>1, <3>2 DEF RebuildInv
  <2> QED BY <2>1, <2>2
<1> QED BY <1>1, <1>2, <1>3 DEF RebuildInv

LEMMA EdgesRightSame ==
    ASSUME UNCHANGED <<refs, deps>>, NEW i PROVE EdgesRight(i) => EdgesRight(i)'
BY DEF EdgesRight

LEMMA RebuildFails ==
    ASSUME TypeOK, Roles, RebuildInv, NEW p \in Loops, Fail(p), pc["boot"] # "idle"
    PROVE  RebuildInv'
<1>1. Others(p) /\ UNCHANGED <<kind, refs, deps>> /\ pc'[p] = "idle"
    BY TwoLoops, FailEffect DEF Roles
<1> QED BY <1>1, EdgesRightSame, RebuildFrame

LEMMA EvaluationRebuilds ==
    ASSUME TypeOK, Roles, RebuildInv, NEW p \in Loops, EvaluationStep(p),
           pc["boot"] # "idle"
    PROVE  RebuildInv'
<1> USE TwoLoops
<1>1. CASE Load(p) /\ CanLoad(p)
  <2>1. /\ pc[p] = "load" /\ Others(p) /\ pc'[p] = "edges"
        /\ UNCHANGED <<kind, refs, deps, op, id, order>>
      BY <1>1, LoadEffect
  <2>2. rule'[p] = refs[id[p]]
      BY <1>1 DEF Load, TypeOK
  <2>3. p = "boot" => \A i : Due(i) => Due(i)'
      BY <2>1 DEF Due
  <2> QED BY <2>1, <2>2, <2>3, EdgesRightSame, RebuildFrame
<1>2. CASE ReplaceDependencies(p) /\ CanReplace(p)
  <2>1. /\ pc[p] = "edges" /\ Others(p) /\ pc'[p] = "members"
        /\ deps' = {e \in deps : e[2] # id[p]} \cup (rule[p] \X {id[p]})
        /\ UNCHANGED <<kind, refs, op, id, rule, order>>
      BY <1>2, ReplaceEffect
  <2>2. rule[p] = refs[id[p]]
      BY <2>1 DEF RebuildInv
  <2>3. ASSUME NEW i, i = id[p] PROVE EdgesRight(i)'
      BY <2>1, <2>2, <2>3 DEF EdgesRight
  <2>4. \A i \in Dynamic : EdgesRight(i) => EdgesRight(i)'
    <3>1. ASSUME NEW i, i # id[p], EdgesRight(i) PROVE EdgesRight(i)'
        BY <2>1, <3>1 DEF EdgesRight
    <3> QED BY <2>3, <3>1
  <2>5. p = "boot" => \A i \in Dynamic : Due(i) => Due(i)' \/ EdgesRight(i)'
      BY <2>1, <2>3 DEF Due
  <2> QED BY <2>1, <2>4, <2>5, RebuildFrame
<1>3. CASE ReadMembers(p)
  <2>1. /\ pc[p] = "members" /\ pc'[p] = "commit" /\ Others(p)
        /\ UNCHANGED <<kind, refs, deps, op, id, rule, order>>
      BY <1>3, MembersEffect
  <2>2. p = "boot" => \A i : Due(i) => Due(i)'
      BY <2>1 DEF Due
  <2> QED BY <2>1, <2>2, EdgesRightSame, RebuildFrame
<1>4. CASE CommitMembers(p) /\ ~Fail(p)
  <2>1. /\ pc[p] = "commit" /\ Others(p) /\ UNCHANGED <<kind, refs, deps, order>>
        /\ pc'[p] = "next"
      BY <1>4, CommitEffect
  <2>2. p = "boot" => \A i : Due(i) => Due(i)'
      BY <2>1 DEF Due
  <2> QED BY <2>1, <2>2, EdgesRightSame, RebuildFrame
<1> QED BY <1>1, <1>2, <1>3, <1>4, RebuildFails, LoadEffect, ReplaceEffect
        DEF EvaluationStep

LEMMA NextRebuilds ==
    ASSUME TypeOK, RebuildInv, NEW p \in Loops, NextSegment(p), pc["boot"] # "idle"
    PROVE  RebuildInv'
<1>1. pc[p] = "next" /\ Others(p) /\ UNCHANGED <<kind, refs, deps>>
    BY TwoLoops, NextEffect
<1>2. CASE order[p] = <<>>
  <2>1. pc'[p] = "idle"
      BY <1>2, TwoLoops, NextEffect
  <2> QED BY <1>1, <2>1, EdgesRightSame, RebuildFrame
<1>3. CASE order[p] # <<>>
  <2>1. pc'[p] = "load" /\ ToSet(order[p]) = {id'[p]} \cup ToSet(order'[p])
      BY <1>3, TwoLoops, NextEffect
  <2>2. p = "boot" => \A i : Due(i) => Due(i)'
      BY <1>1, <2>1 DEF Due
  <2> QED BY <1>1, <2>1, <2>2, EdgesRightSame, RebuildFrame
<1> QED BY <1>2, <1>3

LEMMA RebuildStep ==
    ASSUME Basics, RebuildInv, [CascadeNext]_all PROVE RebuildInv'
<1> USE LoopFacts, ProcsFact, TwoLoops
<1>0. TypeOK /\ CascadeTypes /\ Roles
    BY DEF Basics
<1>1. CASE CascadeRestart
  <2>1. pc'["boot"] = "snapshot" /\ pc'["cascade"] = "idle"
      BY <1>1, RestartEffect DEF CascadeRestart
  <2> QED BY <2>1 DEF RebuildInv
<1>2. ASSUME NEW p \in Callers,
             RequestStep(p) \/ Evaluation(p) \/ Throw(p)
      PROVE  RebuildInv'
  <2>1. Others(p) /\ pc["boot"] = "idle"
    <3>1. CASE CheckCreate(p) \/ CheckUpdate(p) \/ CheckRemove(p) \/ Refresh(p)
        BY <1>0, <3>1, AcceptEffect
    <3>2. CASE Insert(p) \/ Store(p) \/ Delete(p) \/ Rollback(p)
      <4>1. Others(p) /\ pc[p] # "idle"
          BY <1>0, <3>2, InsertEffect, StoreEffect, DeleteEffect
      <4> QED BY <1>0, <4>1 DEF Roles
    <3>3. CASE Evaluation(p)
        BY <1>0, <3>3, EvaluationKinds, EvaluationMoves DEF Roles
    <3>4. CASE Throw(p)
        BY <1>0, <3>4, FailEffect DEF Throw, QueryFails, Roles
    <3> QED BY <1>2, <3>1, <3>2, <3>3, <3>4 DEF RequestStep
  <2>2. pc'["boot"] = "idle"
      BY <2>1 DEF Others
  <2> QED BY <2>2 DEF RebuildInv
<1>3. CASE pc["boot"] = "idle"
  <2>1. ASSUME Others("cascade") \/ pc' = pc PROVE RebuildInv'
    <3>1. pc'["boot"] = "idle"
        BY <1>3, <2>1 DEF Others
    <3> QED BY <3>1 DEF RebuildInv
  <2>2. CASE Deliver
    <3>1. pc' = [pc EXCEPT !["cascade"] = "lookup"]
        BY <2>2 DEF Deliver
    <3>2. pc'["boot"] = "idle"
        BY <1>0, <1>3, <3>1 DEF TypeOK
    <3> QED BY <3>2 DEF RebuildInv
  <2>3. CASE Lookup
      BY <1>0, <2>1, <2>3, LookupEffect
  <2>4. CASE NextDependent
      BY <1>0, <2>1, <2>4, NextEffect DEF NextDependent
  <2>5. CASE Evaluation("cascade")
      BY <1>0, <2>1, <2>5, EvaluationMoves
  <2>6. CASE Throw("cascade")
      BY <1>0, <2>1, <2>6, FailEffect DEF Throw, QueryFails
  <2>7. ~BootStep /\ ~Throw("boot")
      BY <1>0, <1>3, SnapshotEffect, NextEffect, EvaluationKinds
      DEF BootStep, Throw, QueryFails
  <2>8. CASE UNCHANGED all
      BY <2>1, <2>8 DEF all, vars
  <2> QED BY <1>1, <1>2, <2>2, <2>3, <2>4, <2>5, <2>6, <2>7, <2>8
          DEF CascadeNext, CascadeStep
<1>4. CASE pc["boot"] # "idle"
  <2>1. ASSUME NEW p \in Loops, EvaluationStep(p) PROVE RebuildInv'
      BY <1>0, <1>4, <2>1, EvaluationRebuilds
  <2>2. ASSUME NEW p \in Loops, NextSegment(p) PROVE RebuildInv'
      BY <1>0, <1>4, <2>2, NextRebuilds
  <2>3. ASSUME NEW p \in Loops, Fail(p) PROVE RebuildInv'
      BY <1>0, <1>4, <2>3, RebuildFails
  <2>4. CASE Snapshot("boot")
    <3>1. CASE TopoSorts = {}
        BY <1>0, <2>3, <2>4, <3>1, SnapshotEffect
    <3>2. CASE TopoSorts # {}
      <4>1. /\ Others("boot") /\ UNCHANGED <<kind, refs, deps, op, id>>
            /\ pc'["boot"] = "next" /\ ToSet(order'["boot"]) = Dynamic
          BY <1>0, <2>4, <3>2, SnapshotEffect
      <4>2. Dynamic' = Dynamic /\ \A i \in Dynamic : Due(i)'
          BY <4>1 DEF Due, Dynamic
      <4>3. (pc["cascade"] = "edges" => rule["cascade"] = refs[id["cascade"]])'
          BY <1>4, <4>1 DEF RebuildInv, Others
      <4> QED BY <4>1, <4>2, <4>3 DEF RebuildInv
    <3> QED BY <3>1, <3>2
  <2>5. ASSUME Others("cascade"), UNCHANGED <<kind, refs, deps>>,
               pc'["cascade"] # "edges"
        PROVE  RebuildInv'
      BY <1>4, <2>5, EdgesRightSame, RebuildFrame
  <2>6. CASE Lookup
      BY <1>0, <2>5, <2>6, LookupEffect
  <2>7. CASE Deliver
    <3>1. /\ pc' = [pc EXCEPT !["cascade"] = "lookup"]
          /\ UNCHANGED <<kind, refs, deps, op, id, rule, order>>
        BY <2>7 DEF Deliver, work
    <3>2. Others("cascade") /\ pc'["cascade"] = "lookup"
        BY <1>0, <3>1 DEF Others, TypeOK
    <3> QED BY <2>5, <3>1, <3>2
  <2>8. CASE UNCHANGED all
    <3>1. UNCHANGED <<kind, refs, deps, pc, op, id, rule, order>>
        BY <2>8 DEF all, vars
    <3>2. Dynamic' = Dynamic /\ \A i : Due(i)' = Due(i) /\ EdgesRight(i)' = EdgesRight(i)
        BY <3>1 DEF Dynamic, Due, EdgesRight
    <3> QED BY <3>1, <3>2 DEF RebuildInv
  <2>9. \A p \in Loops : Evaluation(p) => EvaluationStep(p)
      BY EvaluationKinds
  <2> QED BY <1>1, <1>2, <2>1, <2>2, <2>3, <2>4, <2>6, <2>7, <2>8, <2>9
          DEF CascadeNext, BootStep, CascadeStep, NextDependent, Throw, QueryFails
<1> QED BY <1>1, <1>3, <1>4

-----------------------------------------------------------------------------
(* The theorems.                                                           *)

LEMMA CascadeInvStart == ASSUME CascadeInit PROVE CascadeInv
<1> USE LoopFacts, ProcsFact
<1>1. TypeOK
    BY TypeInit DEF CascadeInit
<1>2. CascadeTypes
    BY DEF CascadeInit, CascadeTypes
<1>3. /\ pc = [p \in Procs |-> IF p = "boot" THEN "snapshot" ELSE "idle"]
      /\ op = [p \in Procs |-> "none"] /\ order = [p \in Procs |-> <<>>]
    BY DEF CascadeInit, Init
<1>4. Roles
    BY <1>3 DEF CascadeInit, Roles
<1>5. NewIds
    BY <1>3, ToSetEmpty DEF NewIds
<1>6. NoSelf /\ StaleTended
    BY DEF CascadeInit, NoSelf, StaleTended, Dynamic
<1>7. \A i : Awaited(i)
    BY <1>3 DEF Awaited, Owes
<1>8. EdgesKept /\ BehindTended
    BY <1>3, <1>7 DEF EdgesKept, BehindTended
<1> QED BY <1>1, <1>2, <1>4, <1>5, <1>6, <1>8 DEF CascadeInv, Basics

LEMMA CascadeInvStep == ASSUME CascadeInv, [CascadeNext]_all PROVE CascadeInv'
<1>1. TypeOK /\ CascadeTypes /\ Roles /\ NewIds /\ NoSelf
    BY DEF CascadeInv, Basics
<1>2. Basics'
    BY <1>1, CascadeTypeOK, CascadeTypesStep, RolesStep, NewIdsStep, NoSelfStep
    DEF Basics
<1>3. EdgesKept' /\ StaleTended' /\ BehindTended'
    BY QuietStep, CommitStep DEF CascadeInv
<1> QED BY <1>2, <1>3 DEF CascadeInv

\* When everything is worked through nothing is tended.
LEMMA NothingTended ==
    ASSUME WorkedThrough, Roles PROVE \A i : \A q \in Ids : ~Tended(i, q)
<1>1. (\A p \in Procs : pc[p] = "idle") /\ held = NoId /\ queue = <<>>
    BY LoopFacts DEF WorkedThrough, AtRest, Roles
<1> QED BY <1>1, ToSetEmpty, NoIdAssumption
        DEF Tended, Tends, Owes, Brings, WillRead

(* The inductive invariant of the cascade: types, who holds a message, and *)
(* that whatever a segment has not seen of its parents is on its way.      *)
LEMMA CascadeInvariant == CascadeSpec => []CascadeInv
<1>1. CascadeInit => CascadeInv
    BY CascadeInvStart
<1>2. CascadeInv /\ [CascadeNext]_all => CascadeInv'
    BY CascadeInvStep
<1> QED BY <1>1, <1>2, PTL DEF CascadeSpec

(* The variables keep their types while the consumer works beside any      *)
(* number of requests: it never has a row, an edge or a process in a state *)
(* that the code has no case for.                                          *)
THEOREM CascadeTypeCorrect == CascadeSpec => []TypeOK
<1>1. CascadeInv => TypeOK
    BY DEF CascadeInv, Basics
<1> QED BY <1>1, CascadeInvariant, PTL

(* The consumer misses no change: once nothing is under way, a segment has *)
(* been evaluated with what its parents have now, whatever requests,       *)
(* deletions, failures and crashes came between, and although the lookup   *)
(* of the dependents may come before their edges are stored.  The rules    *)
(* may have cycles.                                                        *)
THEOREM CascadeMissesNothing == CascadeSpec => []NoneMissed
<1>1. CascadeInv => NoneMissed
  <2> SUFFICES ASSUME CascadeInv, WorkedThrough,
                      NEW i \in Dynamic \ (lapped \cup unsettled),
                      NEW q \in stale[i] \cap refs[i] \cap Existing
               PROVE  FALSE
      BY DEF NoneMissed
  <2>1. q \in Ids /\ kind[q] # "deleted"
      BY DEF Existing, Types
  <2>2. Tended(i, q)
      BY <2>1 DEF CascadeInv, StaleTended
  <2> QED BY <2>1, <2>2, NothingTended DEF CascadeInv, Basics
<1> QED BY <1>1, CascadeInvariant, PTL

(* At rest the graph the consumer follows agrees with the stored rules,    *)
(* for any number of requests, in any order, beside the consumer: each     *)
(* dynamic segment but the excepted ones has exactly the edges of its rule *)
(* to segments that exist.                                                 *)
THEOREM CascadeEdgesSettled == CascadeSpec => []EdgesSettled
<1>1. CascadeInv => EdgesSettled
  <2> SUFFICES ASSUME CascadeInv, \A p \in Procs : pc[p] = "idle",
                      NEW i \in Dynamic \ unsettled
               PROVE  {e[1] : e \in {e \in deps : e[2] = i}} = refs[i] \cap Existing
      BY DEF EdgesSettled, AtRest
  <2>1. TypeOK /\ refs[i] \subseteq Ids /\ i \in Ids
      BY DEF CascadeInv, Basics, TypeOK, Dynamic
  <2>2. ~Awaited(i)
      BY LoopFacts DEF Awaited, Owes
  <2>3. EdgesThere(i)
      BY <2>2 DEF CascadeInv, EdgesKept
  <2>4. \A e \in deps : e = <<e[1], e[2]>> /\ e[1] \in Existing
    <3>1. deps \subseteq Existing \X Existing
        BY <2>1 DEF TypeOK
    <3> QED BY <3>1
  <2>5. \A q \in Ids : <<q, i>> \in deps <=> q \in refs[i] \cap Existing
      BY <2>3, <2>4 DEF EdgesThere, Existing, Types
  <2>6. ASSUME NEW q PROVE (\E e \in deps : e[2] = i /\ e[1] = q) <=> <<q, i>> \in deps
      BY <2>4
  <2>7. \A e \in deps : e[1] \in Ids
      BY <2>4 DEF Existing
  <2> QED BY <2>1, <2>5, <2>6, <2>7
<1> QED BY <1>1, CascadeInvariant, PTL

(* A rebuild that gets to its end leaves the graph of the dynamic segments *)
(* exactly as their rules ask for, with the consumer at work beside it,    *)
(* and whatever requests, failures and crashes came before.                *)
THEOREM CascadeRebuildRepairs == CascadeSpec => []RebuildRepairs
<1>1. CascadeInit => CascadeInv /\ RebuildInv
  <2> SUFFICES ASSUME CascadeInit PROVE RebuildInv
      BY CascadeInvStart
  <2>1. pc["boot"] = "snapshot" /\ pc["cascade"] = "idle"
      BY LoopFacts DEF CascadeInit, Init
  <2> QED BY <2>1, TwoLoops DEF RebuildInv
<1>2. CascadeInv /\ RebuildInv /\ [CascadeNext]_all => CascadeInv' /\ RebuildInv'
    BY CascadeInvStep, RebuildStep DEF CascadeInv
<1>3. CascadeInv /\ RebuildInv => RebuildRepairs
  <2> SUFFICES ASSUME TypeOK, RebuildInv, pc["boot"] = "next", order["boot"] = <<>>
               PROVE  {e \in deps : e[2] \in Dynamic} = RuleEdges(Dynamic)
      BY DEF CascadeInv, Basics, RebuildRepairs
  <2>1. \A i \in Dynamic : EdgesRight(i)
      BY ToSetEmpty DEF RebuildInv, Due
  <2>2. \A i \in Dynamic, q \in Ids : <<q, i>> \in deps <=> q \in refs[i]
      BY <2>1 DEF EdgesRight
  <2>3. deps \subseteq Ids \X Ids /\ Dynamic \subseteq Ids
      BY DEF TypeOK, Existing, Dynamic
  <2> QED BY <2>2, <2>3 DEF RuleEdges
<1> QED BY <1>1, <1>2, <1>3, PTL DEF CascadeSpec
=============================================================================
