---------------------------- MODULE EventRelay -----------------------------
(***************************************************************************)
(* What the transactional outbox promises: an event written with a change  *)
(* of membership is handled by every consumer, sooner or later and at      *)
(* least once.  The promise has one hole, an event that is lost after it   *)
(* was marked as published.                                                *)
(***************************************************************************)
CONSTANTS Events, Queues

VARIABLES
    written,  \* events whose transaction has committed
    handled,  \* [Queues -> SUBSET Events]
    lost      \* written events nobody answers for any more

vars == <<written, handled, lost>>

Init ==
    /\ written = {}
    /\ handled = [q \in Queues |-> {}]
    /\ lost = {}

Write(e) ==
    /\ e \notin written
    /\ written' = written \cup {e}
    /\ UNCHANGED <<handled, lost>>

\* Once an event is handled, handling it again changes nothing here.
Handle(q, e) ==
    /\ e \in written
    /\ handled' = [handled EXCEPT ![q] = @ \cup {e}]
    /\ UNCHANGED <<written, lost>>

\* A crash loses any number of events, and they are written events.
Lose ==
    /\ \E E \in SUBSET written : lost' = lost \cup E
    /\ UNCHANGED <<written, handled>>

Next ==
    \/ \E e \in Events : Write(e) \/ \E q \in Queues : Handle(q, e)
    \/ Lose

Spec ==
    /\ Init
    /\ [][Next]_vars
    /\ \A q \in Queues, e \in Events :
            WF_vars(e \notin lost /\ Handle(q, e))
=============================================================================
