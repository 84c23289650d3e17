------------------------- MODULE CampaignConsumer --------------------------
(***************************************************************************)
(* The campaign consumer.  It handles up to PREFETCH deliveries at a time, *)
(* claims each event in ProcessedEvent before it notifies anyone, sends    *)
(* one notification for the customers who joined and one for those who     *)
(* left, and acks.  The queue delivers an event at least once.             *)
(***************************************************************************)
EXTENDS Naturals, FiniteSets

CONSTANTS
    Events,
    Joined,     \* events whose added list is not empty
    Left,       \* events whose removed list is not empty
    Slots,      \* deliveries in flight: |Slots| is PREFETCH
    NoEvent,
    MaxCopies,  \* bound on the copies of an event the publisher sends
    MaxFaults   \* bound on failed queries and crashes

\* Commit writes an event only for a change.
ASSUME EventsAssumption == Joined \cup Left = Events
ASSUME SlotsAssumption == IsFiniteSet(Slots)
ASSUME NoEventAssumption == NoEvent \notin Events
ASSUME BoundsAssumption == MaxCopies \in Nat /\ MaxFaults \in Nat

VARIABLES
    copies,     \* copies of each event published so far
    queue,      \* copies in drift.campaign
    slot,       \* the event of each delivery in flight
    pc,         \* the await it is at
    processed,  \* events with a ProcessedEvent row
    welcomed,   \* ADD notifications sent for each event
    dismissed,  \* REMOVE notifications sent for each event
    faults

vars == <<copies, queue, slot, pc, processed, welcomed, dismissed, faults>>
notified == <<welcomed, dismissed>>

Init ==
    /\ copies = [e \in Events |-> 0]
    /\ queue = [e \in Events |-> 0]
    /\ slot = [s \in Slots |-> NoEvent]
    /\ pc = [s \in Slots |-> "free"]
    /\ processed = {}
    /\ welcomed = [e \in Events |-> 0]
    /\ dismissed = [e \in Events |-> 0]
    /\ faults = 0

Fault ==
    /\ faults < MaxFaults
    /\ faults' = faults + 1

\* The outbox publisher, which may publish a row again.
Arrive(e) ==
    /\ copies[e] < MaxCopies
    /\ copies' = [copies EXCEPT ![e] = @ + 1]
    /\ queue' = [queue EXCEPT ![e] = @ + 1]
    /\ UNCHANGED <<slot, pc, processed, notified, faults>>

Deliver(s, e) ==
    /\ slot[s] = NoEvent
    /\ queue[e] > 0
    /\ queue' = [queue EXCEPT ![e] = @ - 1]
    /\ slot' = [slot EXCEPT ![s] = e]
    /\ pc' = [pc EXCEPT ![s] = "claim"]
    /\ UNCHANGED <<copies, processed, notified, faults>>

\* Mutant: no check that anybody joined.
AfterClaimUnchecked(e) == "added"

AfterClaim(e) == IF e \in Joined THEN "added" ELSE "removed"
AfterAdded(e) == IF e \in Left THEN "removed" ELSE "ack"

\* Mutant: an upsert claims what is already claimed.
ClaimUpsert(s) ==
    /\ pc[s] = "claim"
    /\ processed' = processed \cup {slot[s]}
    /\ pc' = [pc EXCEPT ![s] = AfterClaim(slot[s])]
    /\ UNCHANGED <<copies, queue, slot, notified, faults>>

\* Mutant: a duplicate is dropped without an ack.
ClaimUnacked(s) ==
    /\ pc[s] = "claim"
    /\ processed' = processed \cup {slot[s]}
    /\ pc' = [pc EXCEPT ![s] =
            IF slot[s] \in processed THEN "dropped" ELSE AfterClaim(slot[s])]
    /\ UNCHANGED <<copies, queue, slot, notified, faults>>

\* createMany with skipDuplicates: the row is inserted, or was there and the
\* delivery is a duplicate.
Claim(s) ==
    /\ pc[s] = "claim"
    /\ processed' = processed \cup {slot[s]}
    /\ pc' = [pc EXCEPT ![s] =
            IF slot[s] \in processed THEN "ack" ELSE AfterClaim(slot[s])]
    /\ UNCHANGED <<copies, queue, slot, notified, faults>>

\* Mutant: departures are handled only when nobody joined.
NotifyAddedReturns(s) ==
    /\ pc[s] = "added"
    /\ welcomed' = [welcomed EXCEPT ![slot[s]] = @ + 1]
    /\ pc' = [pc EXCEPT ![s] = "ack"]
    /\ UNCHANGED <<copies, queue, slot, processed, dismissed, faults>>

\* The names are looked up, and the notification broadcast.
NotifyAdded(s) ==
    /\ pc[s] = "added"
    /\ welcomed' = [welcomed EXCEPT ![slot[s]] = @ + 1]
    /\ pc' = [pc EXCEPT ![s] = AfterAdded(slot[s])]
    /\ UNCHANGED <<copies, queue, slot, processed, dismissed, faults>>

NotifyRemoved(s) ==
    /\ pc[s] = "removed"
    /\ dismissed' = [dismissed EXCEPT ![slot[s]] = @ + 1]
    /\ pc' = [pc EXCEPT ![s] = "ack"]
    /\ UNCHANGED <<copies, queue, slot, processed, welcomed, faults>>

Release(S) ==
    /\ slot' = [s \in Slots |-> IF s \in S THEN NoEvent ELSE slot[s]]
    /\ pc' = [s \in Slots |-> IF s \in S THEN "free" ELSE pc[s]]

Ack(s) ==
    /\ pc[s] = "ack"
    /\ Release({s})
    /\ UNCHANGED <<copies, queue, processed, notified, faults>>

Requeue(S) ==
    queue' = [e \in Events |-> queue[e] + Cardinality({s \in S : slot[s] = e})]

\* A query throws: nack with requeue.  The claim may have reached the
\* database all the same.
Fail(s) ==
    /\ Fault
    /\ pc[s] \in {"claim", "added", "removed"}
    /\ processed' \in {processed, processed \cup {slot[s]}}
    /\ Requeue({s})
    /\ Release({s})
    /\ UNCHANGED <<copies, notified>>

\* The process dies; the broker requeues what it had not acked.
Restart ==
    /\ Fault
    /\ Requeue(Slots)
    /\ Release(Slots)
    /\ UNCHANGED <<copies, processed, notified>>

HandlerStep(s) ==
    \/ Claim(s)
    \/ NotifyAdded(s)
    \/ NotifyRemoved(s)
    \/ Ack(s)

Next ==
    \/ \E e \in Events : Arrive(e)
    \/ \E s \in Slots, e \in Events : Deliver(s, e)
    \/ \E s \in Slots : HandlerStep(s) \/ Fail(s)
    \/ Restart

\* The broker delivers, and awaits resolve.
Fairness ==
    /\ WF_vars(\E s \in Slots, e \in Events : Deliver(s, e))
    /\ \A s \in Slots : WF_vars(HandlerStep(s))

Spec == Init /\ [][Next]_vars /\ Fairness

-----------------------------------------------------------------------------
(* Properties. *)

TypeOK ==
    /\ copies \in [Events -> 0..MaxCopies]
    /\ queue \in [Events -> Nat]
    /\ slot \in [Slots -> Events \cup {NoEvent}]
    /\ pc \in [Slots -> {"free", "claim", "added", "removed", "ack"}]
    /\ \A s \in Slots : pc[s] = "free" <=> slot[s] = NoEvent
    /\ \A s \in Slots : pc[s] = "added" => slot[s] \in Joined
    /\ \A s \in Slots : pc[s] = "removed" => slot[s] \in Left
    /\ processed \subseteq Events
    /\ welcomed \in [Events -> Nat]
    /\ dismissed \in [Events -> Nat]
    /\ faults \in 0..MaxFaults

Working(s, e) == slot[s] = e /\ pc[s] \in {"added", "removed"}

(* However often an event is delivered, and to however many handlers at    *)
(* once, nobody is notified twice: at most one handler ever works on it.   *)
AtMostOnce == \A e \in Events :
    /\ welcomed[e] <= 1
    /\ dismissed[e] <= 1

(* At most one handler works on an event, and what it has still to send    *)
(* has not been sent: the claim in ProcessedEvent is exclusive.            *)
Exclusive ==
    /\ \A e \in Events \ processed : welcomed[e] = 0 /\ dismissed[e] = 0
    /\ \A s \in Slots, e \in Events : Working(s, e) =>
        /\ e \in processed
        /\ dismissed[e] = 0
        /\ pc[s] = "added" => welcomed[e] = 0
        /\ \A t \in Slots : Working(t, e) => t = s

AtRest == \A e \in Events : queue[e] = 0 /\ \A s \in Slots : slot[s] # e

NotifiedInFull(e) ==
    /\ e \in Joined => welcomed[e] = 1
    /\ e \in Left => dismissed[e] = 1

(* An event that is claimed is notified in full, or a handler is at work   *)
(* on it and has sent what comes before its await, if no query failed and  *)
(* the process did not die.                                                *)
ExactlyOnce == faults = 0 => \A e \in processed :
    \/ NotifiedInFull(e)
    \/ \E s \in Slots :
        /\ Working(s, e)
        /\ pc[s] = "removed" /\ e \in Joined => welcomed[e] = 1

(* Every delivery ends, duplicates included, and a published event is      *)
(* claimed: no slot is held for ever.                                      *)
Handled == \A e \in Events :
    copies[e] > 0 ~> AtRest /\ e \in processed
=============================================================================
