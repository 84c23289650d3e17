------------------------ MODULE EventDeliveryProofs ------------------------
(* Proofs about EventDelivery, for any number of events and consumers, any *)
(* prefetch and any batch size.                                            *)
EXTENDS EventDelivery, TLAPS

\* What the row promises also holds while its mark is under way.
Kept == \A e \in Events \ lost, q \in Queues :
    status[e] = "PUBLISHED" \/ sending = e
        => Underway(q, e) > 0 \/ e \in handled[q]

\* Nobody sees an event before its transaction has committed.
NothingInvented == \A e \in Events : status[e] = "absent" =>
    /\ wire[e] = 0
    /\ \A q \in Queues : Underway(q, e) = 0 /\ e \notin handled[q]

LEMMA EventsType == Events \subseteq Nat /\ NoEvent \notin Events
BY EventsAssumption DEF Events, NoEvent

LEMMA TypeInit == Init => TypeOK
BY FaultsAssumption DEF Init, TypeOK, Counts, Pending

(* Each step keeps the types; the row a tick is at is still PENDING.       *)
LEMMA TypeStep ==
    ASSUME TypeOK, [Next]_vars
    PROVE  TypeOK'
<1> USE EventsType, FaultsAssumption DEF TypeOK, Counts, publisher, broker
<1>1. ASSUME NEW e \in Events, Write(e)
      PROVE  TypeOK'
    BY <1>1 DEF Write, Pending
<1>2. ASSUME NEW e \in Events, Route(e)
      PROVE  TypeOK'
    BY <1>2 DEF Route, Pending
<1>3. ASSUME Tick
      PROVE  TypeOK'
    BY <1>3 DEF Tick, Earliest, Pending
<1>4. ASSUME PublishAccepted
      PROVE  TypeOK'
    BY <1>4 DEF PublishAccepted, Publish, Pending
<1>5. ASSUME PublishRefused
      PROVE  TypeOK'
    BY <1>5 DEF PublishRefused, Publish, Fault, Pending
<1>6. ASSUME Mark
      PROVE  TypeOK'
    BY <1>6 DEF Mark, Pending
<1>7. ASSUME MarkFails
      PROVE  TypeOK'
    BY <1>7 DEF MarkFails, Fault, Pending
<1>8. ASSUME NEW q \in Queues, NEW e \in Events, Deliver(q, e)
      PROVE  TypeOK'
    BY <1>8 DEF Deliver, Pending
<1>9. ASSUME NEW q \in Queues, NEW e \in Events, Handle(q, e)
      PROVE  TypeOK'
    BY <1>9 DEF Handle, Pending
<1>10. ASSUME NEW q \in Queues, NEW e \in Events, Nack(q, e)
      PROVE  TypeOK'
    BY <1>10 DEF Nack, Fault, Pending
<1>11. ASSUME Restart
      PROVE  TypeOK'
    <2>1. lost' \subseteq Events /\ wire' \in [Events -> Nat]
        BY <1>11 DEF Restart, DropUnsent
    <2>2. queue' \in Counts /\ unacked' \in Counts
        BY <1>11 DEF Restart, RequeueUnacked
    <2>3. faults' \in 0..MaxFaults
        BY <1>11 DEF Restart, Fault
    <2> QED BY <1>11, <2>1, <2>2, <2>3 DEF Restart, Pending
<1>12. CASE UNCHANGED vars
    BY <1>12 DEF vars, Pending
<1> QED BY <1>1, <1>2, <1>3, <1>4, <1>5, <1>6, <1>7, <1>8, <1>9, <1>10,
           <1>11, <1>12 DEF Next, Work

(* A copy moves on or is handled: it is never dropped. *)
LEMMA KeptStep ==
    ASSUME TypeOK, Kept, [Next]_vars
    PROVE  Kept'
<1> USE EventsType DEF TypeOK, Counts, Pending, publisher, broker,
                  Kept, Underway
<1>1. ASSUME NEW e \in Events, Write(e)
      PROVE  Kept'
    BY <1>1 DEF Write
<1>2. ASSUME NEW e \in Events, Route(e)
      PROVE  Kept'
    BY <1>2 DEF Route
<1>3. ASSUME Tick
      PROVE  Kept'
    BY <1>3 DEF Tick
<1>4. ASSUME PublishAccepted
      PROVE  Kept'
    <2>1. PICK e \in batch : Publish(e) /\ sending' = e
        BY <1>4 DEF PublishAccepted
    <2>2. UNCHANGED <<status, queue, unacked, handled, lost>>
        BY <1>4 DEF PublishAccepted
    <2>3. ASSUME NEW f \in Events, NEW q \in Queues
          PROVE  /\ Underway(q, f)' >= Underway(q, f)
                 /\ f = e => Underway(q, f)' > 0
        <3>1. wire'[f] \in Nat /\ wire'[f] >= wire[f]
            BY <2>1 DEF Publish
        <3>2. wire[f] \in Nat /\ queue[q][f] \in Nat /\ unacked[q][f] \in Nat
            OBVIOUS
        <3>3. Underway(q, f)' = wire'[f] + queue[q][f] + unacked[q][f]
            BY <2>2
        <3>4. f = e => wire'[f] = wire[f] + 1
            BY <2>1 DEF Publish
        <3> QED BY ONLY <3>1, <3>2, <3>3, <3>4 DEF Underway
    <2>4. ASSUME NEW f \in Events \ lost, NEW q \in Queues,
                 (status[f] = "PUBLISHED" \/ sending = f)'
          PROVE  (Underway(q, f) > 0 \/ f \in handled[q])'
        <3>1. CASE f \in handled[q]
            BY <3>1, <2>2
        <3>2. CASE Underway(q, f) > 0
            <4> HIDE DEF Underway
            <4>1. Underway(q, f) \in Nat /\ Underway(q, f)' \in Nat
                BY <2>1, <2>2 DEF Publish, Underway
            <4> QED BY ONLY <4>1, <3>2, <2>3
        <3> QED BY <3>1, <3>2, <2>1, <2>2, <2>3, <2>4
    <2> QED BY <2>2, <2>4
<1>5. ASSUME PublishRefused
      PROVE  Kept'
    <2>1. PICK e \in batch : Publish(e)
        BY <1>5 DEF PublishRefused
    <2>2. UNCHANGED <<status, sending, queue, unacked, handled, lost>>
        BY <1>5 DEF PublishRefused
    <2>3. ASSUME NEW f \in Events, NEW q \in Queues
          PROVE  Underway(q, f)' >= Underway(q, f)
        <3>1. wire'[f] \in Nat /\ wire'[f] >= wire[f]
            BY <2>1 DEF Publish
        <3>2. wire[f] \in Nat /\ queue[q][f] \in Nat /\ unacked[q][f] \in Nat
            OBVIOUS
        <3>3. Underway(q, f)' = wire'[f] + queue[q][f] + unacked[q][f]
            BY <2>2
        <3> QED BY ONLY <3>1, <3>2, <3>3 DEF Underway
    <2>4. ASSUME NEW f \in Events \ lost, NEW q \in Queues,
                 (status[f] = "PUBLISHED" \/ sending = f)'
          PROVE  (Underway(q, f) > 0 \/ f \in handled[q])'
        <3>1. CASE f \in handled[q]
            BY <3>1, <2>2
        <3>2. CASE Underway(q, f) > 0
            <4> HIDE DEF Underway
            <4>1. Underway(q, f) \in Nat /\ Underway(q, f)' \in Nat
                BY <2>1, <2>2 DEF Publish, Underway
            <4> QED BY ONLY <4>1, <3>2, <2>3
        <3> QED BY <3>1, <3>2, <2>1, <2>2, <2>3, <2>4
    <2> QED BY <2>2, <2>4
<1>6. ASSUME Mark
      PROVE  Kept'
    BY <1>6 DEF Mark
<1>7. ASSUME MarkFails
      PROVE  Kept'
    BY <1>7 DEF MarkFails
<1>8. ASSUME NEW q \in Queues, NEW e \in Events, Deliver(q, e)
      PROVE  Kept'
    BY <1>8 DEF Deliver
<1>9. ASSUME NEW q \in Queues, NEW e \in Events, Handle(q, e)
      PROVE  Kept'
    BY <1>9 DEF Handle
<1>10. ASSUME NEW q \in Queues, NEW e \in Events, Nack(q, e)
      PROVE  Kept'
    BY <1>10 DEF Nack
<1>11. ASSUME Restart
      PROVE  Kept'
    BY <1>11 DEF Restart, DropUnsent, RequeueUnacked
<1>12. CASE UNCHANGED vars
    BY <1>12 DEF vars
<1> QED BY <1>1, <1>2, <1>3, <1>4, <1>5, <1>6, <1>7, <1>8, <1>9, <1>10,
           <1>11, <1>12 DEF Next, Work

(* Only a committed row is published. *)
LEMMA NothingInventedStep ==
    ASSUME TypeOK, NothingInvented, [Next]_vars
    PROVE  NothingInvented'
<1> USE EventsType DEF TypeOK, Counts, Pending, publisher, broker,
                  NothingInvented, Underway
<1>1. ASSUME NEW e \in Events, Write(e)
      PROVE  NothingInvented'
    BY <1>1 DEF Write
<1>2. ASSUME NEW e \in Events, Route(e)
      PROVE  NothingInvented'
    BY <1>2 DEF Route
<1>3. ASSUME Tick
      PROVE  NothingInvented'
    BY <1>3 DEF Tick
<1>4. ASSUME PublishAccepted
      PROVE  NothingInvented'
    BY <1>4 DEF PublishAccepted, Publish
<1>5. ASSUME PublishRefused
      PROVE  NothingInvented'
    BY <1>5 DEF PublishRefused, Publish
<1>6. ASSUME Mark
      PROVE  NothingInvented'
    BY <1>6 DEF Mark
<1>7. ASSUME MarkFails
      PROVE  NothingInvented'
    BY <1>7 DEF MarkFails
<1>8. ASSUME NEW q \in Queues, NEW e \in Events, Deliver(q, e)
      PROVE  NothingInvented'
    BY <1>8 DEF Deliver
<1>9. ASSUME NEW q \in Queues, NEW e \in Events, Handle(q, e)
      PROVE  NothingInvented'
    <2>1. status[e] # "absent"
        BY <1>9 DEF Handle
    <2> QED BY <1>9, <2>1 DEF Handle
<1>10. ASSUME NEW q \in Queues, NEW e \in Events, Nack(q, e)
      PROVE  NothingInvented'
    BY <1>10 DEF Nack
<1>11. ASSUME Restart
      PROVE  NothingInvented'
    BY <1>11 DEF Restart, DropUnsent, RequeueUnacked
<1>12. CASE UNCHANGED vars
    BY <1>12 DEF vars
<1> QED BY <1>1, <1>2, <1>3, <1>4, <1>5, <1>6, <1>7, <1>8, <1>9, <1>10,
           <1>11, <1>12 DEF Next, Work

(* Without a fault, exactly one copy is made, and it is kept. *)
LEMMA NoSpontaneousDuplicateStep ==
    ASSUME TypeOK, NoSpontaneousDuplicate, [Next]_vars
    PROVE  NoSpontaneousDuplicate'
<1> USE EventsType DEF TypeOK, Counts, Pending, publisher, broker,
                  NoSpontaneousDuplicate, Underway
<1>1. ASSUME NEW e \in Events, Write(e)
      PROVE  NoSpontaneousDuplicate'
    BY <1>1 DEF Write
<1>2. ASSUME NEW e \in Events, Route(e)
      PROVE  NoSpontaneousDuplicate'
    BY <1>2 DEF Route
<1>3. ASSUME Tick
      PROVE  NoSpontaneousDuplicate'
    BY <1>3 DEF Tick
<1>4. ASSUME PublishAccepted
      PROVE  NoSpontaneousDuplicate'
    <2>1. PICK e \in batch : Publish(e) /\ sending' = e
        BY <1>4 DEF PublishAccepted
    <2>2. UNCHANGED <<status, queue, unacked, handled, faults>>
        BY <1>4 DEF PublishAccepted
    <2>3. e \in Events /\ status[e] = "PENDING" /\ sending # e
        BY <2>1 DEF Publish
    <2>4. ASSUME NEW f \in Events
          PROVE  wire'[f] = IF f = e THEN wire[f] + 1 ELSE wire[f]
        BY <2>1, <2>3 DEF Publish
    <2>5. ASSUME NEW f \in Events, NEW q \in Queues
          PROVE  Underway(q, f)' = Underway(q, f) + IF f = e THEN 1 ELSE 0
        <3>1. wire[f] \in Nat /\ queue[q][f] \in Nat /\ unacked[q][f] \in Nat
            OBVIOUS
        <3>2. Underway(q, f)' = wire'[f] + queue[q][f] + unacked[q][f]
            BY <2>2
        <3>3. wire'[f] = IF f = e THEN wire[f] + 1 ELSE wire[f]
            BY <2>4
        <3> QED BY ONLY <3>1, <3>2, <3>3 DEF Underway
    <2>6. sending = NoEvent /\ sending' = e
        BY <2>1 DEF Publish
    <2> QED BY <2>2, <2>3, <2>5, <2>6
<1>5. ASSUME PublishRefused
      PROVE  NoSpontaneousDuplicate'
    BY <1>5 DEF PublishRefused, Publish, Fault
<1>6. ASSUME Mark
      PROVE  NoSpontaneousDuplicate'
    BY <1>6 DEF Mark
<1>7. ASSUME MarkFails
      PROVE  NoSpontaneousDuplicate'
    BY <1>7 DEF MarkFails, Fault
<1>8. ASSUME NEW q \in Queues, NEW e \in Events, Deliver(q, e)
      PROVE  NoSpontaneousDuplicate'
    BY <1>8 DEF Deliver
<1>9. ASSUME NEW q \in Queues, NEW e \in Events, Handle(q, e)
      PROVE  NoSpontaneousDuplicate'
    BY <1>9 DEF Handle
<1>10. ASSUME NEW q \in Queues, NEW e \in Events, Nack(q, e)
      PROVE  NoSpontaneousDuplicate'
    BY <1>10 DEF Nack, Fault
<1>11. ASSUME Restart
      PROVE  NoSpontaneousDuplicate'
    BY <1>11 DEF Restart, DropUnsent, RequeueUnacked, Fault
<1>12. CASE UNCHANGED vars
    BY <1>12 DEF vars
<1> QED BY <1>1, <1>2, <1>3, <1>4, <1>5, <1>6, <1>7, <1>8, <1>9, <1>10,
           <1>11, <1>12 DEF Next, Work

-----------------------------------------------------------------------------
(* The state keeps its types, and the tick's row is a PENDING one.         *)
THEOREM TypeCorrect == Spec => []TypeOK
BY TypeInit, TypeStep, PTL DEF Spec

(* A row marked PUBLISHED is handled by each consumer, or a copy of its    *)
(* event is on its way to it, unless the process died with a copy in its   *)
(* buffer after the row was marked: through any number of crashes, failed  *)
(* marks, refused writes, nacks and redeliveries.                          *)
THEOREM OnlyTheBufferIsLost == Spec => []PublishedIsKept
<1>1. Init => Kept
    BY EventsType DEF Init, Kept
<1>2. TypeOK /\ Kept /\ [Next]_vars => Kept'
    BY KeptStep
<1>3. Kept => PublishedIsKept
    BY DEF Kept, PublishedIsKept
<1> QED BY <1>1, <1>2, <1>3, TypeCorrect, PTL DEF Spec

(* Without a fault, each event is published exactly once.                  *)
THEOREM DuplicatesNeedFaults == Spec => []NoSpontaneousDuplicate
<1>1. Init => NoSpontaneousDuplicate
    BY EventsType DEF Init, NoSpontaneousDuplicate, Underway
<1>2. TypeOK /\ NoSpontaneousDuplicate /\ [Next]_vars
        => NoSpontaneousDuplicate'
    BY NoSpontaneousDuplicateStep
<1> QED BY <1>1, <1>2, TypeCorrect, PTL DEF Spec

LEMMA Committed == Spec => []NothingInvented
<1>1. Init => NothingInvented
    BY DEF Init, NothingInvented, Underway
<1>2. TypeOK /\ NothingInvented /\ [Next]_vars => NothingInvented'
    BY NothingInventedStep
<1> QED BY <1>1, <1>2, TypeCorrect, PTL DEF Spec

(* Each step is a step of the abstract relay or changes nothing it sees.   *)
LEMMA RelayStep ==
    ASSUME TypeOK, NothingInvented, [Next]_vars
    PROVE  [Relay!Next]_Relay!vars
<1> DEFINE written == {e \in Events : status[e] # "absent"}
<1>1. ASSUME NEW e \in Events, Write(e)
      PROVE  Relay!Write(e)
    BY <1>1 DEF TypeOK, Write, Relay!Write, broker
<1>2. ASSUME NEW q \in Queues, NEW e \in Events, Handle(q, e)
      PROVE  Relay!Handle(q, e)
    <2>1. status[e] # "absent"
        BY <1>2 DEF TypeOK, Counts, Handle, NothingInvented, Underway
    <2> QED BY <1>2, <2>1 DEF Handle, Relay!Handle
<1>3. ASSUME Mark
      PROVE  written' = written
    BY <1>3, EventsType DEF TypeOK, Pending, Mark
<1>4. ASSUME UNCHANGED <<status, handled, lost>>
      PROVE  UNCHANGED Relay!vars
    BY <1>4 DEF Relay!vars
<1>5. ASSUME Mark
      PROVE  UNCHANGED Relay!vars
    BY <1>3, <1>5 DEF Relay!vars, Mark, broker
<1>6. ASSUME Restart
      PROVE  Relay!Lose
    BY <1>6 DEF Restart, DropUnsent, Relay!Lose
<1> QED BY <1>1, <1>2, <1>4, <1>5, <1>6 DEF Next, Work, Relay!Next, vars, publisher, broker,
        Tick, Route, PublishAccepted, PublishRefused, MarkFails, Deliver,
        Nack

(* The safety half of the refinement: no consumer handles an event that    *)
(* was not committed with a change of membership, none is forgotten, and   *)
(* a crash loses committed events only.                                    *)
THEOREM ImplementsRelay ==
    Spec => Relay!Init /\ [][Relay!Next]_Relay!vars
<1>1. Init => Relay!Init
    BY DEF Init, Relay!Init
<1>2. TypeOK /\ NothingInvented /\ [Next]_vars => [Relay!Next]_Relay!vars
    BY RelayStep
<1> QED BY <1>1, <1>2, TypeCorrect, Committed, PTL DEF Spec
=============================================================================
