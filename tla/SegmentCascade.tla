--------------------------- MODULE SegmentCascade ---------------------------
(***************************************************************************)
(* The cascade consumer at work while users change the segments.           *)
(*                                                                         *)
(* An evaluation that changes a segment leaves an event in the queue of    *)
(* the consumer, which takes one message at a time, looks up the segments  *)
(* that depend on the changed one, and evaluates each of them.  If one     *)
(* throws, the message goes back to the head of the queue.                 *)
(*                                                                         *)
(* Outbox and broker are left out: EventDelivery has them.  Memberships    *)
(* are seen only as out of date, or not, with regard to those of parents.  *)
(***************************************************************************)
EXTENDS SegmentAdmin

CONSTANT MaxEvents \* bound on evaluations that change a segment

VARIABLES
    queue,  \* segments of the messages in drift.cascade
    held,   \* segment of the unacked message
    behind, \* history: segments changed since a process read the members
    stale,  \* history: those changed since the last evaluation of a segment
    lapped, \* history: segments whose last evaluation overlapped another
    unsettled, \* history: those whose last edges came from a rule that had
            \* been changed, or that were given up when a query threw
    events  \* changes so far

history == <<behind, stale, lapped, unsettled>>
cascade == <<queue, held>>
all == <<vars, cascade, history, events>>

CascadeInit ==
    /\ Init
    /\ queue = <<>>
    /\ held = NoId
    /\ behind = [p \in Procs |-> {}]
    /\ stale = [i \in Ids |-> {}]
    /\ lapped = {}
    /\ unsettled = {}
    /\ events = 0

-----------------------------------------------------------------------------
(* Evaluations, and the history of who has seen what.                      *)

\* Mutant: the message is acked although the evaluation has thrown.
EnqueuedAndAcked(p, q) ==
    /\ queue' = q
    /\ held' = IF p = "cascade" /\ pc'[p] = "idle" THEN NoId ELSE held

\* q is queued.  If the evaluation has thrown, the consumer nacks its message
\* with requeue.
Enqueued(p, q) ==
    IF p = "cascade" /\ pc'[p] = "idle"
    THEN queue' = <<held>> \o q /\ held' = NoId
    ELSE queue' = q /\ UNCHANGED held

Read(p) ==
    /\ ReadMembers(p)
    /\ behind' = [behind EXCEPT ![p] = {}]
    /\ UNCHANGED <<cascade, stale, lapped, unsettled, events>>

\* The transaction of p commits.  Whoever else evaluates the same segment
\* has read too early, and so has whoever evaluates a dependent of a segment
\* that changes.
Committed(p, i, changed) ==
    /\ behind' = [q \in Procs |->
            IF q = p THEN {}
            ELSE IF pc[q] = "commit" /\ (changed \/ id[q] = i)
            THEN behind[q] \cup {i} ELSE behind[q]]
    /\ stale' = [j \in Ids |-> IF j = i THEN behind[p] \ {i}
                               ELSE IF changed THEN stale[j] \cup {i}
                               ELSE stale[j]]
    /\ lapped' = IF i \in behind[p] \/ rule[p] # refs[i]
                 THEN lapped \cup {i} ELSE lapped \ {i}
    /\ UNCHANGED unsettled

\* An evaluation that changes the segment leaves an event.
Commit(p) ==
    /\ CommitMembers(p)
    /\ \E changed \in {FALSE, id[p] \in Existing /\ events < MaxEvents} :
        /\ Committed(p, id[p], changed)
        /\ Enqueued(p, IF changed THEN Append(queue, id[p]) ELSE queue)
        /\ events' = IF changed THEN events + 1 ELSE events

\* What p leaves unevaluated if it throws now.  The consumer's message comes
\* again, but only for the dependents that the edges name by then; a create
\* is rolled back; no rule is stored before the write.
GivenUp(p) == {i \in Ids :
    IF p = "cascade"
    THEN i = id[p] /\ pc[p] \in {"members", "commit"}
    ELSE \/ pc[p] = "snapshot" /\ i \in Dynamic
         \/ i \in ToSet(order[p])
         \/ /\ i = id[p]
            /\ \/ pc[p] = "rollback"
               \/ Evaluating(p) /\ op[p] # "create dynamic"}

Prepare(p) ==
    /\ \/ /\ Load(p)
          /\ unsettled' = IF CanLoad(p) THEN unsettled
                          ELSE unsettled \cup GivenUp(p)
       \/ /\ ReplaceDependencies(p)
          /\ unsettled' = IF ~CanReplace(p) THEN unsettled \cup GivenUp(p)
                          ELSE IF rule[p] = refs[id[p]] THEN unsettled \ {id[p]}
                          ELSE unsettled \cup {id[p]}
    /\ Enqueued(p, queue)
    /\ UNCHANGED <<behind, stale, lapped, events>>

Evaluation(p) == Prepare(p) \/ Read(p) \/ Commit(p)

Throw(p) ==
    /\ QueryFails(p)
    /\ unsettled' = unsettled \cup GivenUp(p)
    /\ Enqueued(p, queue)
    /\ UNCHANGED <<behind, stale, lapped, events>>

-----------------------------------------------------------------------------
(* CascadeConsumerService.                                                 *)

Deliver ==
    /\ held = NoId
    /\ queue # <<>>
    /\ held' = Head(queue)
    /\ queue' = Tail(queue)
    /\ pc' = [pc EXCEPT !["cascade"] = "lookup"]
    /\ UNCHANGED <<kind, refs, deps, work, updates, faults, history, events>>

Dependents(i) == {e[2] : e \in {e \in deps : e[1] = i}}

\* In the order of the database.
Lookup ==
    /\ pc["cascade"] = "lookup"
    /\ \E s \in SetToSeqs(Dependents(held)) :
        order' = [order EXCEPT !["cascade"] = s]
    /\ pc' = [pc EXCEPT !["cascade"] = "next"]
    /\ UNCHANGED <<kind, refs, deps, op, id, rule, updates, faults, cascade,
                   history, events>>

\* Mutant: a message whose dependents are done is not acked.
NextDependentUnacked ==
    /\ NextSegment("cascade")
    /\ UNCHANGED <<cascade, history, events>>

\* The next dependent, or the end of the loop and the ack.
NextDependent ==
    /\ NextSegment("cascade")
    /\ held' = IF order["cascade"] = <<>> THEN NoId ELSE held
    /\ UNCHANGED <<queue, history, events>>

CascadeStep ==
    \/ Deliver
    \/ Lookup
    \/ NextDependent
    \/ Evaluation("cascade")

-----------------------------------------------------------------------------
\* The queue stands for the broker's, what is published and still in the
\* buffer of the process, and the PENDING rows, in this order.  The second
\* part is lost, the message that was held is queued again, and boot evaluates
\* everything.
CascadeRestart ==
    /\ Restart
    /\ \E m \in 0..Len(queue) : \E n \in m..Len(queue) :
        queue' = (IF held = NoId THEN <<>> ELSE <<held>>)
                 \o SubSeq(queue, 1, m) \o SubSeq(queue, n + 1, Len(queue))
    /\ held' = NoId
    /\ behind' = [p \in Procs |-> {}]
    /\ UNCHANGED <<stale, lapped, unsettled, events>>

BootStep ==
    \/ /\ Snapshot("boot")
       /\ unsettled' = IF TopoSorts = {} THEN unsettled \cup GivenUp("boot")
                       ELSE unsettled
       /\ UNCHANGED <<cascade, behind, stale, lapped, events>>
    \/ NextSegment("boot") /\ UNCHANGED <<cascade, history, events>>
    \/ Evaluation("boot")

CascadeNext ==
    \/ \E p \in Callers :
        \/ RequestStep(p) /\ UNCHANGED <<cascade, history, events>>
        \/ Evaluation(p)
    \/ \E p \in Procs : Throw(p)
    \/ BootStep
    \/ CascadeStep
    \/ CascadeRestart

\* Only the consumer has to go on: it waits for nobody.
CascadeSpec == CascadeInit /\ [][CascadeNext]_all /\ WF_all(CascadeStep)

-----------------------------------------------------------------------------
(* Properties.                                                             *)

WorkedThrough == queue = <<>> /\ AtRest

(* No change is missed: when no message and no evaluation is under way,    *)
(* each dynamic segment has been evaluated with the members that its       *)
(* parents have now, although the events of a new or changed rule's        *)
(* parents may come before its edges are stored.  Except for a segment     *)
(* whose last evaluation overlapped another one of it, or a change of its  *)
(* rule, or was given up by a request or a rebuild that threw.             *)
NoneMissed == WorkedThrough =>
    \A i \in Dynamic \ (lapped \cup unsettled) :
        stale[i] \cap refs[i] \cap Existing = {}

(* At rest the edges of a dynamic segment are those that its rule asks for *)
(* among the segments that exist, no more and no less, although rule and   *)
(* edges are stored by two transactions, with the consumer, the rebuild    *)
(* and other requests between them, and a parent may be deleted under the  *)
(* evaluation.  Except for a segment whose last edges came from a rule     *)
(* changed meanwhile, or that was given up when an evaluation threw.       *)
EdgesSettled == AtRest =>
    \A i \in Dynamic \ unsettled :
        {e[1] : e \in {e \in deps : e[2] = i}} = refs[i] \cap Existing

\* A dependent that every attempt to evaluate will throw at: a STATIC segment
\* that has edges, or one with a reference to a deleted segment.
Poisoned == \E e \in deps :
    e[2] \notin Dynamic \/ ~(refs[e[2]] \subseteq Existing)

(* The cascade comes to an end and acks every message, however often what  *)
(* it evaluates is deleted or changed under way, as long as there is no    *)
(* dependent that cannot be evaluated at all: one of those, and the head   *)
(* of the queue is requeued for ever.                                      *)
WorkedOff == <>[](~Poisoned) => []<>(queue = <<>> /\ held = NoId)
=============================================================================
