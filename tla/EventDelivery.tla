--------------------------- MODULE EventDelivery ---------------------------
(***************************************************************************)
(* From the outbox to the consumers.  A timer (OutboxPublisherService)     *)
(* reads a batch of PENDING rows and, row by row, publishes the event and  *)
(* marks the row PUBLISHED.  The exchange copies each event to a durable   *)
(* queue per consumer; a consumer holds up to prefetch messages and acks   *)
(* or nacks each one when its handler ends.                                *)
(*                                                                         *)
(* amqplib, the connection and the broker are modelled from the calls the  *)
(* services make: the publish channel is not a confirm channel, queues are *)
(* durable, messages persistent, and an unacked message is requeued.       *)
(***************************************************************************)
EXTENDS Naturals, FiniteSets, Functions

CONSTANTS
    MaxEvents,  \* events the evaluations write
    Queues,     \* one per consumer
    Prefetch,   \* [Queues -> Nat]
    BatchSize,  \* rows a tick reads at most
    MaxFaults   \* bound on crashes, failures and refused writes

\* Numbered by createdAt: the order in which a tick reads them.
Events == 1..MaxEvents
NoEvent == 0

ASSUME EventsAssumption == MaxEvents \in Nat
ASSUME PrefetchAssumption == Prefetch \in [Queues -> Nat \ {0}]
ASSUME BatchAssumption == BatchSize \in Nat \ {0}
ASSUME FaultsAssumption == MaxFaults \in Nat

VARIABLES
    status,     \* of the OutboxEvent row
    batch,      \* rows the tick has read and not yet published
    sending,    \* the row published and not yet marked
    wire,       \* copies written to the connection, not yet at the broker
    queue,      \* copies in each queue
    unacked,    \* copies each consumer holds
    handled,    \* events each consumer has handled and acked
    connected,  \* the AMQP connection is up
    lost,       \* history: rows marked though their copy never left the process
    faults

publisher == <<batch, sending>>
broker == <<queue, unacked, handled>>
vars == <<status, batch, sending, wire, queue, unacked, handled, connected,
          lost, faults>>

Pending == {e \in Events : status[e] = "PENDING"}

Earliest(n, rows) ==
    {e \in rows : Cardinality({f \in rows : f < e}) < n}

Init ==
    /\ status = [e \in Events |-> "absent"]
    /\ batch = {}
    /\ sending = NoEvent
    /\ wire = [e \in Events |-> 0]
    /\ queue = [q \in Queues |-> [e \in Events |-> 0]]
    /\ unacked = [q \in Queues |-> [e \in Events |-> 0]]
    /\ handled = [q \in Queues |-> {}]
    /\ connected = TRUE
    /\ lost = {}
    /\ faults = 0

\* The transaction of an evaluation commits.  Transactions overlap, so a row
\* may appear after rows with a later createdAt.
Write(e) ==
    /\ status[e] = "absent"
    /\ status' = [status EXCEPT ![e] = "PENDING"]
    /\ UNCHANGED <<publisher, wire, broker, connected, lost, faults>>

Fault ==
    /\ faults < MaxFaults
    /\ faults' = faults + 1

-----------------------------------------------------------------------------
(* OutboxPublisherService. *)

\* Mutant: no inFlight guard.
TickReentrant ==
    /\ batch = {}
    /\ Pending # {}
    /\ batch' = Earliest(BatchSize, Pending)
    /\ UNCHANGED <<status, sending, wire, broker, connected, lost, faults>>

\* inFlight: a tick during a tick does nothing.
Tick ==
    /\ batch = {}
    /\ sending = NoEvent
    /\ Pending # {}
    /\ batch' = Earliest(BatchSize, Pending)
    /\ UNCHANGED <<status, sending, wire, broker, connected, lost, faults>>

Publish(e) ==
    /\ sending = NoEvent
    /\ e \in batch /\ \A f \in batch : e <= f
    /\ connected
    /\ wire' = [wire EXCEPT ![e] = @ + 1]

PublishAccepted ==
    \E e \in batch :
        /\ Publish(e)
        /\ sending' = e
        /\ batch' = batch \ {e}
        /\ UNCHANGED <<status, broker, connected, lost, faults>>

\* publish returns false, though the write is buffered all the same: the tick
\* ends and the row stays PENDING.
PublishRefused ==
    /\ Fault
    /\ \E e \in batch : Publish(e)
    /\ batch' = {}
    /\ UNCHANGED <<status, sending, broker, connected, lost>>

\* Mutant: one update marks the rest of the batch too.
MarkBatch ==
    /\ sending # NoEvent
    /\ status' = [e \in Events |->
            IF e = sending \/ e \in batch THEN "PUBLISHED" ELSE status[e]]
    /\ sending' = NoEvent
    /\ UNCHANGED <<batch, wire, broker, connected, lost, faults>>

Mark ==
    /\ sending # NoEvent
    /\ status' = [status EXCEPT ![sending] = "PUBLISHED"]
    /\ sending' = NoEvent
    /\ UNCHANGED <<batch, wire, broker, connected, lost, faults>>

\* Mutant: the row is given up.
MarkFailsGivesUp ==
    /\ Fault
    /\ sending # NoEvent
    /\ status' = [status EXCEPT ![sending] = "FAILED"]
    /\ batch' = {}
    /\ sending' = NoEvent
    /\ UNCHANGED <<wire, broker, connected, lost>>

\* The update throws: the tick ends, the row stays PENDING.
MarkFails ==
    /\ Fault
    /\ sending # NoEvent
    /\ batch' = {}
    /\ sending' = NoEvent
    /\ UNCHANGED <<status, wire, broker, connected, lost>>

-----------------------------------------------------------------------------
(* The broker, and the process method every consumer has. *)

Route(e) ==
    /\ wire[e] > 0
    /\ wire' = [wire EXCEPT ![e] = @ - 1]
    /\ queue' = [q \in Queues |-> [queue[q] EXCEPT ![e] = @ + 1]]
    /\ UNCHANGED <<status, publisher, unacked, handled, connected, lost, faults>>

Unacked(q) == FoldFunction(+, 0, unacked[q])

Deliver(q, e) ==
    /\ connected
    /\ queue[q][e] > 0
    /\ Unacked(q) < Prefetch[q]
    /\ queue' = [queue EXCEPT ![q][e] = @ - 1]
    /\ unacked' = [unacked EXCEPT ![q][e] = @ + 1]
    /\ UNCHANGED <<status, publisher, wire, handled, connected, lost, faults>>

\* Mutant: a handler that acks, under a process that acks.
HandleAckTwice(q, e) ==
    /\ connected
    /\ unacked[q][e] > 0
    /\ unacked' = [unacked EXCEPT ![q][e] = @ - 2]
    /\ handled' = [handled EXCEPT ![q] = @ \cup {e}]
    /\ UNCHANGED <<status, publisher, wire, queue, connected, lost, faults>>

\* The handler returns, and the message is acked.
Handle(q, e) ==
    /\ connected
    /\ unacked[q][e] > 0
    /\ unacked' = [unacked EXCEPT ![q][e] = @ - 1]
    /\ handled' = [handled EXCEPT ![q] = @ \cup {e}]
    /\ UNCHANGED <<status, publisher, wire, queue, connected, lost, faults>>

\* Mutant: nack without requeue.
NackDiscards(q, e) ==
    /\ Fault
    /\ connected
    /\ unacked[q][e] > 0
    /\ unacked' = [unacked EXCEPT ![q][e] = @ - 1]
    /\ UNCHANGED <<status, publisher, wire, queue, handled, connected, lost>>

\* The handler throws: nack with requeue.
Nack(q, e) ==
    /\ Fault
    /\ connected
    /\ unacked[q][e] > 0
    /\ unacked' = [unacked EXCEPT ![q][e] = @ - 1]
    /\ queue' = [queue EXCEPT ![q][e] = @ + 1]
    /\ UNCHANGED <<status, publisher, wire, handled, connected, lost>>

RequeueUnacked ==
    /\ queue' = [q \in Queues |->
            [e \in Events |-> queue[q][e] + unacked[q][e]]]
    /\ unacked' = [q \in Queues |-> [e \in Events |-> 0]]

\* What was published and not yet carried to the broker is in a buffer of the
\* API process, and goes with the connection or the process.
DropUnsent ==
    /\ wire' = [e \in Events |-> 0]
    /\ lost' = lost \cup {e \in Events : status[e] = "PUBLISHED" /\ wire[e] > 0}

\* The API process dies and boots again.  What it had sent by then has been
\* routed before this step.
Restart ==
    /\ Fault
    /\ batch' = {}
    /\ sending' = NoEvent
    /\ connected' = TRUE
    /\ DropUnsent
    /\ RequeueUnacked
    /\ UNCHANGED <<status, handled>>

-----------------------------------------------------------------------------
Work ==
    \/ \E e \in Events : Write(e) \/ Route(e)
    \/ Tick
    \/ PublishAccepted
    \/ PublishRefused
    \/ Mark
    \/ MarkFails
    \/ \E q \in Queues, e \in Events :
        Deliver(q, e) \/ Handle(q, e) \/ Nack(q, e)

Next == Work \/ Restart

\* The timer keeps firing, awaits resolve, the broker routes and delivers, and
\* handlers return.  Only Write, the evaluations' step, is not fair.
Fairness ==
    /\ WF_vars(Tick)
    /\ WF_vars(PublishAccepted)
    /\ WF_vars(Mark)
    /\ \A e \in Events : WF_vars(Route(e))
    /\ \A q \in Queues : WF_vars(\E e \in Events : Deliver(q, e))
    /\ \A q \in Queues, e \in Events : WF_vars(Handle(q, e))

Spec == Init /\ [][Next]_vars /\ Fairness

(* The connection breaks: what it had not carried yet is gone, the broker  *)
(* requeues, and nothing in the code connects again before a restart.      *)
ConnectionLost ==
    /\ connected
    /\ Fault
    /\ connected' = FALSE
    /\ DropUnsent
    /\ RequeueUnacked
    /\ UNCHANGED <<status, publisher, handled>>

\* On a closed channel publish throws; tick logs it.
PublishThrows ==
    /\ ~connected
    /\ batch # {} /\ sending = NoEvent
    /\ batch' = {}
    /\ UNCHANGED <<status, sending, wire, broker, connected, lost, faults>>

\* An outage of the broker, and no crash of the API process.
OutageSpec ==
    /\ Init
    /\ [][Work \/ ConnectionLost \/ PublishThrows]_vars
    /\ Fairness /\ WF_vars(PublishThrows)

-----------------------------------------------------------------------------
(* Properties. *)

Counts == [Queues -> [Events -> Nat]]

TypeOK ==
    /\ status \in [Events -> {"absent", "PENDING", "PUBLISHED"}]
    /\ batch \subseteq Pending
    /\ sending \in (Pending \ batch) \cup {NoEvent}
    /\ wire \in [Events -> Nat]
    /\ queue \in Counts
    /\ unacked \in Counts
    /\ handled \in [Queues -> SUBSET Events]
    /\ connected \in BOOLEAN
    /\ lost \subseteq Events
    /\ faults \in 0..MaxFaults

Underway(q, e) == wire[e] + queue[q][e] + unacked[q][e]

(* A row marked PUBLISHED is one every consumer has handled or has coming  *)
(* to it: "publish first, mark PUBLISHED second".                          *)
PublishedArrives == \A e \in Events, q \in Queues :
    status[e] = "PUBLISHED" => Underway(q, e) > 0 \/ e \in handled[q]

(* Failed marks, nacks, refused writes and redeliveries lose no such       *)
(* event.  Neither does a crash, but for one kind of row: one marked while *)
(* a copy of its event was still in the buffer of the process that died.   *)
PublishedIsKept == \A e \in Events \ lost, q \in Queues :
    status[e] = "PUBLISHED" => Underway(q, e) > 0 \/ e \in handled[q]

(* Duplicates come from faults only.  Without one, an event has exactly    *)
(* one copy per consumer, under way or handled, from the moment it is      *)
(* published: ticks do not overlap and no row is read twice.               *)
NoSpontaneousDuplicate == faults = 0 =>
    \A e \in Events, q \in Queues :
        Underway(q, e) + (IF e \in handled[q] THEN 1 ELSE 0)
            = IF status[e] = "PUBLISHED" \/ sending = e THEN 1 ELSE 0

Relay == INSTANCE EventRelay WITH
    written <- {e \in Events : status[e] # "absent"}

(* The publisher, the broker and the consumers together keep the promise   *)
(* of the outbox, through crashes and failures: every committed event is   *)
(* handled by every consumer, unless a crash lost it in the buffer.        *)
AtLeastOnce == Relay!Spec

(* Every row leaves the PENDING state: events queue up in the table only   *)
(* until the broker takes them.                                            *)
Drains == \A e \in Events :
    status[e] = "PENDING" ~> status[e] = "PUBLISHED"
=============================================================================
