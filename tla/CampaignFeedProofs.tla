------------------------- MODULE CampaignFeedProofs -------------------------
(***************************************************************************)
(* The invariants of CampaignConsumer, for every set of events and any     *)
(* prefetch.  CampaignFeed takes its steps and has them as well, and what  *)
(* it says of the screen holds for any length of the feed.                 *)
(***************************************************************************)
EXTENDS CampaignFeed, FiniteSetTheorems, TLAPS

-----------------------------------------------------------------------------
(* The consumer alone.                                                     *)

(* Handing deliveries back to the queue keeps its counts natural numbers.  *)
LEMMA RequeueType ==
    ASSUME queue \in [Events -> Nat], NEW S \in SUBSET Slots, Requeue(S)
    PROVE  queue' \in [Events -> Nat]
<1>1. \A e \in Events : Cardinality({s \in S : slot[s] = e}) \in Nat
    <2>1. SUFFICES ASSUME NEW e \in Events
                   PROVE  IsFiniteSet({s \in S : slot[s] = e})
        BY FS_CardinalityType
    <2>2. {s \in S : slot[s] = e} \in SUBSET Slots
        OBVIOUS
    <2> QED BY <2>2, SlotsAssumption, FS_Subset
<1> QED BY <1>1 DEF Requeue

LEMMA TypeInit == Init => TypeOK
BY NoEventAssumption, BoundsAssumption DEF Init, TypeOK

(* Each step keeps the types, and a handler's await fits its event.        *)
LEMMA TypeStep ==
    ASSUME TypeOK, [Next]_vars
    PROVE  TypeOK'
<1> USE EventsAssumption, NoEventAssumption, BoundsAssumption
<1>1. ASSUME NEW e \in Events, Arrive(e)
      PROVE  TypeOK'
    BY <1>1 DEF TypeOK, Arrive, notified
<1>2. ASSUME NEW s \in Slots, NEW e \in Events, Deliver(s, e)
      PROVE  TypeOK'
    BY <1>2 DEF TypeOK, Deliver, notified
<1>3. ASSUME NEW s \in Slots, Claim(s)
      PROVE  TypeOK'
    BY <1>3 DEF TypeOK, Claim, AfterClaim, notified
<1>4. ASSUME NEW s \in Slots, NotifyAdded(s)
      PROVE  TypeOK'
    BY <1>4 DEF TypeOK, NotifyAdded, AfterAdded
<1>5. ASSUME NEW s \in Slots, NotifyRemoved(s)
      PROVE  TypeOK'
    BY <1>5 DEF TypeOK, NotifyRemoved
<1>6. ASSUME NEW s \in Slots, Ack(s)
      PROVE  TypeOK'
    BY <1>6 DEF TypeOK, Ack, Release, notified
<1>7. ASSUME NEW s \in Slots, Fail(s)
      PROVE  TypeOK'
    <2>1. queue' \in [Events -> Nat]
        BY <1>7, RequeueType DEF TypeOK, Fail
    <2>2. processed' \subseteq Events
        BY <1>7 DEF TypeOK, Fail
    <2> QED BY <1>7, <2>1, <2>2 DEF TypeOK, Fail, Fault, Release, notified
<1>8. ASSUME Restart
      PROVE  TypeOK'
    <2>1. queue' \in [Events -> Nat]
        BY <1>8, RequeueType DEF TypeOK, Restart
    <2> QED BY <1>8, <2>1 DEF TypeOK, Restart, Fault, Release, notified
<1>9. CASE UNCHANGED vars
    BY <1>9 DEF TypeOK, vars
<1> QED BY <1>1, <1>2, <1>3, <1>4, <1>5, <1>6, <1>7, <1>8, <1>9
        DEF Next, HandlerStep

LEMMA ExclusiveInit == Init => Exclusive
BY NoEventAssumption DEF Init, Exclusive, Working

(* Each step keeps the claim exclusive.                                    *)
LEMMA ExclusiveStep ==
    ASSUME TypeOK, Exclusive, [Next]_vars
    PROVE  Exclusive'
<1> USE EventsAssumption, NoEventAssumption
<1>1. ASSUME NEW e \in Events, Arrive(e)
      PROVE  Exclusive'
    BY <1>1 DEF Exclusive, Working, Arrive, notified
<1>2. ASSUME NEW s \in Slots, NEW e \in Events, Deliver(s, e)
      PROVE  Exclusive'
    BY <1>2 DEF TypeOK, Exclusive, Working, Deliver, notified
<1>3. ASSUME NEW s \in Slots, Claim(s)
      PROVE  Exclusive'
    BY <1>3 DEF TypeOK, Exclusive, Working, Claim, AfterClaim, notified
<1>4. ASSUME NEW s \in Slots, NotifyAdded(s)
      PROVE  Exclusive'
    BY <1>4 DEF TypeOK, Exclusive, Working, NotifyAdded, AfterAdded
<1>5. ASSUME NEW s \in Slots, NotifyRemoved(s)
      PROVE  Exclusive'
    BY <1>5 DEF TypeOK, Exclusive, Working, NotifyRemoved
<1>6. ASSUME NEW s \in Slots, Ack(s)
      PROVE  Exclusive'
    BY <1>6 DEF TypeOK, Exclusive, Working, Ack, Release, notified
<1>7. ASSUME NEW s \in Slots, Fail(s)
      PROVE  Exclusive'
    BY <1>7 DEF TypeOK, Exclusive, Working, Fail, Release, notified
<1>8. ASSUME Restart
      PROVE  Exclusive'
    BY <1>8 DEF TypeOK, Exclusive, Working, Restart, Release, notified
<1>9. CASE UNCHANGED vars
    BY <1>9 DEF Exclusive, Working, vars
<1> QED BY <1>1, <1>2, <1>3, <1>4, <1>5, <1>6, <1>7, <1>8, <1>9
        DEF Next, HandlerStep

(* Only the handler that holds the claim notifies.                         *)
LEMMA AtMostOnceStep ==
    ASSUME TypeOK, Exclusive, AtMostOnce, [Next]_vars
    PROVE  AtMostOnce'
<1> USE EventsAssumption, NoEventAssumption
<1>1. ASSUME NEW s \in Slots, NotifyAdded(s)
      PROVE  AtMostOnce'
    BY <1>1 DEF TypeOK, Exclusive, Working, AtMostOnce, NotifyAdded
<1>2. ASSUME NEW s \in Slots, NotifyRemoved(s)
      PROVE  AtMostOnce'
    BY <1>2 DEF TypeOK, Exclusive, Working, AtMostOnce, NotifyRemoved
<1>3. CASE UNCHANGED notified
    BY <1>3 DEF AtMostOnce, notified
<1> QED BY <1>1, <1>2, <1>3 DEF Next, HandlerStep, Arrive, Deliver, Claim,
        Ack, Fail, Restart, vars, notified

(* Without a fault, the handler that claims an event carries it through.   *)
LEMMA ExactlyOnceStep ==
    ASSUME TypeOK, Exclusive, ExactlyOnce, [Next]_vars
    PROVE  ExactlyOnce'
<1> USE EventsAssumption, NoEventAssumption
<1>1. ASSUME NEW e \in Events, Arrive(e)
      PROVE  ExactlyOnce'
    BY <1>1 DEF ExactlyOnce, NotifiedInFull, Working, Arrive, notified
<1>2. ASSUME NEW s \in Slots, NEW e \in Events, Deliver(s, e)
      PROVE  ExactlyOnce'
    BY <1>2 DEF TypeOK, ExactlyOnce, NotifiedInFull, Working, Deliver, notified
<1>3. ASSUME NEW s \in Slots, Claim(s)
      PROVE  ExactlyOnce'
    BY <1>3 DEF TypeOK, ExactlyOnce, NotifiedInFull, Working, Claim,
                AfterClaim, notified
<1>4. ASSUME NEW s \in Slots, NotifyAdded(s)
      PROVE  ExactlyOnce'
    BY <1>4 DEF TypeOK, Exclusive, ExactlyOnce, NotifiedInFull, Working,
                NotifyAdded, AfterAdded
<1>5. ASSUME NEW s \in Slots, NotifyRemoved(s)
      PROVE  ExactlyOnce'
    BY <1>5 DEF TypeOK, Exclusive, ExactlyOnce, NotifiedInFull, Working,
                NotifyRemoved
<1>6. ASSUME NEW s \in Slots, Ack(s)
      PROVE  ExactlyOnce'
    BY <1>6 DEF TypeOK, ExactlyOnce, NotifiedInFull, Working, Ack, Release,
                notified
<1>7. ASSUME NEW s \in Slots, Fail(s)
      PROVE  ExactlyOnce'
    <2>1. faults' # 0
        BY <1>7 DEF TypeOK, Fail, Fault
    <2> QED BY <2>1 DEF ExactlyOnce
<1>8. ASSUME Restart
      PROVE  ExactlyOnce'
    <2>1. faults' # 0
        BY <1>8 DEF TypeOK, Restart, Fault
    <2> QED BY <2>1 DEF ExactlyOnce
<1>9. CASE UNCHANGED vars
    BY <1>9 DEF ExactlyOnce, NotifiedInFull, Working, vars
<1> QED BY <1>1, <1>2, <1>3, <1>4, <1>5, <1>6, <1>7, <1>8, <1>9
        DEF Next, HandlerStep

-----------------------------------------------------------------------------
(* The state keeps its types, whatever the number of events, copies and    *)
(* deliveries in flight.                                                   *)
THEOREM TypeCorrect == Spec => []TypeOK
BY TypeInit, TypeStep, PTL DEF Spec

(* The claim is exclusive: two handlers never work on one event.           *)
THEOREM ClaimIsExclusive == Spec => []Exclusive
<1>1. Init => Exclusive
    BY ExclusiveInit
<1>2. TypeOK /\ Exclusive /\ [Next]_vars => Exclusive'
    BY ExclusiveStep
<1> QED BY <1>1, <1>2, TypeCorrect, PTL DEF Spec

(* No customer is notified twice of an event, under duplicates, failures   *)
(* and crashes.                                                            *)
THEOREM NoDoubleNotification == Spec => []AtMostOnce
<1>1. Init => AtMostOnce
    BY DEF Init, AtMostOnce
<1>2. TypeOK /\ Exclusive /\ AtMostOnce /\ [Next]_vars => AtMostOnce'
    BY AtMostOnceStep
<1> QED BY <1>1, <1>2, TypeCorrect, ClaimIsExclusive, PTL DEF Spec

(* As long as nothing fails, a claimed event is notified in full.          *)
THEOREM NotifiedExactlyOnce == Spec => []ExactlyOnce
<1>1. Init => ExactlyOnce
    BY DEF Init, ExactlyOnce
<1>2. TypeOK /\ Exclusive /\ ExactlyOnce /\ [Next]_vars => ExactlyOnce'
    BY ExactlyOnceStep
<1> QED BY <1>1, <1>2, TypeCorrect, ClaimIsExclusive, PTL DEF Spec

-----------------------------------------------------------------------------
(* The feed.                                                               *)

Line(e, what) == [event |-> e, kind |-> what]

\* A line on the screen was sent.
EntriesSent ==
    /\ entries \in Seq([event : Events, kind : {"ADD", "REMOVE"}])
    /\ Len(entries) <= MaxEntries
    /\ \A i \in 1..Len(entries) :
        /\ entries[i].kind = "ADD" => welcomed[entries[i].event] > 0
        /\ entries[i].kind = "REMOVE" => dismissed[entries[i].event] > 0

OnScreen(line) == \E i \in 1..Len(entries) : entries[i] = line

\* What was sent is on the screen, or was pushed off it, unless a
\* notification came to no feed.
SentShown == ~dropped =>
    \/ Len(entries) = MaxEntries
    \/ \A e \in Events :
        /\ welcomed[e] > 0 => OnScreen(Line(e, "ADD"))
        /\ dismissed[e] > 0 => OnScreen(Line(e, "REMOVE"))
-----------------------------------------------------------------------------
(* The consumer in front of a feed.                                        *)

\* Whatever the feed and its socket do, the consumer takes its own steps.
LEMMA FeedStepIsConsumerStep == [FeedNext]_all => [Next]_vars
BY DEF FeedNext, all, vars, Next, FeedDeliver, FeedStep, FeedRestart, Wire,
       Connect, Disconnect, LeaveList, OpenList, HandlerStep

\* The consumer with its screen implements the consumer: the socket and the
\* page add nothing to what it does with its queue and its claims.
THEOREM FeedImplementsConsumer == FeedSpec => Init /\ [][Next]_vars
<1>1. FeedInit => Init
    BY DEF FeedInit
<1> QED BY <1>1, FeedStepIsConsumerStep, PTL DEF FeedSpec

\* So the consumer's invariants hold of the whole.
THEOREM ConsumerInvariants ==
    FeedSpec => [](TypeOK /\ Exclusive /\ AtMostOnce /\ ExactlyOnce)
<1>1. Init => TypeOK /\ Exclusive /\ AtMostOnce /\ ExactlyOnce
    BY TypeInit, ExclusiveInit DEF Init, AtMostOnce, ExactlyOnce
<1>2. /\ TypeOK /\ Exclusive /\ AtMostOnce /\ ExactlyOnce
      /\ [Next]_vars
      => TypeOK' /\ Exclusive' /\ AtMostOnce' /\ ExactlyOnce'
    BY TypeStep, ExclusiveStep, AtMostOnceStep, ExactlyOnceStep
<1> QED BY <1>1, <1>2, FeedImplementsConsumer, PTL
-----------------------------------------------------------------------------
(* The feed.                                                               *)

\* A new line comes first, and the others keep their order; as many stay as
\* there is room for.
LEMMA ShowLines ==
    ASSUME NEW S, entries \in Seq(S), Len(entries) <= MaxEntries, NEW line \in S
    PROVE  /\ Show(line) \in Seq(S)
           /\ Len(Show(line)) \in 1..MaxEntries
           /\ Len(entries) < MaxEntries => Len(Show(line)) = Len(entries) + 1
           /\ Len(entries) = MaxEntries => Len(Show(line)) = MaxEntries
           /\ Show(line)[1] = line
           /\ \A i \in 2..Len(Show(line)) :
                i - 1 \in 1..Len(entries) /\ Show(line)[i] = entries[i - 1]
<1> DEFINE longer == <<line>> \o entries
           n == IF Len(longer) < MaxEntries THEN Len(longer) ELSE MaxEntries
<1>1. /\ longer \in Seq(S) /\ Len(longer) = Len(entries) + 1
      /\ longer[1] = line
      /\ \A i \in 2..Len(longer) : longer[i] = entries[i - 1]
    OBVIOUS
<1>2. n \in 1..Len(longer) /\ n <= MaxEntries
    BY <1>1, MaxEntriesAssumption
<1> HIDE DEF longer
<1>3. /\ SubSeq(longer, 1, n) \in Seq(S) /\ Len(SubSeq(longer, 1, n)) = n
      /\ \A i \in 1..n : SubSeq(longer, 1, n)[i] = longer[i]
    BY <1>1, <1>2
<1>4. Show(line) = SubSeq(longer, 1, n)
    BY <1>1, MaxEntriesAssumption DEF Show, Slice, longer
<1> QED BY <1>1, <1>2, <1>3, <1>4, MaxEntriesAssumption

LEMMA Sending ==
    ASSUME TypeOK, Exclusive, NEW s \in Slots, NEW e \in Events, slot[s] = e
    PROVE  /\ NotifyAdded(s) =>
                /\ welcomed[e] = 0 /\ dismissed[e] = 0
                /\ welcomed' = [welcomed EXCEPT ![e] = 1]
                /\ dismissed' = dismissed
           /\ NotifyRemoved(s) =>
                /\ dismissed[e] = 0
                /\ dismissed' = [dismissed EXCEPT ![e] = 1]
                /\ welcomed' = welcomed
BY DEF TypeOK, Exclusive, Working, NotifyAdded, NotifyRemoved

LEMMA EntryTypes ==
    ASSUME EntriesSent
    PROVE  \A i \in 1..Len(entries) :
                /\ entries[i] \in [event : Events, kind : {"ADD", "REMOVE"}]
                /\ entries[i].event \in Events
                /\ entries[i].kind \in {"ADD", "REMOVE"}
<1> DEFINE L == [event : Events, kind : {"ADD", "REMOVE"}]
<1> SUFFICES ASSUME NEW i \in 1..Len(entries)
             PROVE  /\ entries[i] \in L
                    /\ entries[i].event \in Events
                    /\ entries[i].kind \in {"ADD", "REMOVE"}
    OBVIOUS
<1> HIDE DEF L
<1>1. entries \in Seq(L)
    BY DEF EntriesSent, L
<1>2. entries[i] \in L
    BY <1>1
<1> QED BY <1>2 DEF L

\* A notification comes to the feed or is dropped.
Sent(e, what) ==
    \/ entries' = Show(Line(e, what)) /\ dropped' = dropped
    \/ entries' = entries /\ dropped' = TRUE

\* Each kind of step once: a notification of those who joined, one of those
\* who left, or none; without one, the feed only changes when it is closed.
LEMMA StepKinds ==
    ASSUME TypeOK, Exclusive, [FeedNext]_all
    PROVE  \/ \E e \in Events :
                /\ welcomed[e] = 0 /\ dismissed[e] = 0
                /\ welcomed' = [welcomed EXCEPT ![e] = 1]
                /\ dismissed' = dismissed
                /\ Sent(e, "ADD")
           \/ \E e \in Events :
                /\ dismissed[e] = 0
                /\ dismissed' = [dismissed EXCEPT ![e] = 1]
                /\ welcomed' = welcomed
                /\ Sent(e, "REMOVE")
           \/ /\ UNCHANGED notified
              /\ \/ entries' = entries /\ dropped' = dropped
                 \/ entries' = <<>> /\ dropped' = TRUE
<1>1. ASSUME NEW s \in Slots, NotifyAdded(s) \/ NotifyRemoved(s)
      PROVE  slot[s] \in Events
    BY <1>1 DEF TypeOK, NotifyAdded, NotifyRemoved
<1>2. ASSUME NEW s \in Slots, NotifyAdded(s), Broadcast(slot[s], "ADD")
      PROVE  \E e \in Events :
                /\ welcomed[e] = 0 /\ dismissed[e] = 0
                /\ welcomed' = [welcomed EXCEPT ![e] = 1]
                /\ dismissed' = dismissed
                /\ Sent(e, "ADD")
    BY <1>1, <1>2, Sending DEF Broadcast, Sent, Line
<1>3. ASSUME NEW s \in Slots, NotifyRemoved(s), Broadcast(slot[s], "REMOVE")
      PROVE  \E e \in Events :
                /\ dismissed[e] = 0
                /\ dismissed' = [dismissed EXCEPT ![e] = 1]
                /\ welcomed' = welcomed
                /\ Sent(e, "REMOVE")
    BY <1>1, <1>3, Sending DEF Broadcast, Sent, Line
<1> QED BY <1>2, <1>3
        DEF FeedNext, FeedStep, FeedDeliver, FeedRestart, Arrive, Deliver,
            Claim, Ack, Fail, Restart, Wire, Connect, Disconnect, LeaveList,
            OpenList, screen, vars, all, notified

LEMMA EntriesStep ==
    ASSUME TypeOK, Exclusive, EntriesSent, [FeedNext]_all
    PROVE  EntriesSent'
<1> DEFINE L == [event : Events, kind : {"ADD", "REMOVE"}]
<1>1. entries \in Seq(L) /\ Len(entries) <= MaxEntries
    BY DEF EntriesSent
<1>2. ASSUME NEW e \in Events, NEW what \in {"ADD", "REMOVE"},
             entries' = Show(Line(e, what)),
             what = "ADD" => welcomed'[e] > 0,
             what = "REMOVE" => dismissed'[e] > 0,
             \A f \in Events : /\ welcomed[f] > 0 => welcomed'[f] > 0
                               /\ dismissed[f] > 0 => dismissed'[f] > 0
      PROVE  EntriesSent'
  <2>1. Line(e, what) \in L
      BY DEF Line
  <2>2. /\ entries' \in Seq(L)
        /\ Len(entries') \in 1..MaxEntries
        /\ entries'[1] = Line(e, what)
        /\ \A i \in 2..Len(entries') :
                i - 1 \in 1..Len(entries) /\ entries'[i] = entries[i - 1]
      BY <1>1, <1>2, <2>1, ShowLines
  <2> SUFFICES ASSUME NEW i \in 1..Len(entries')
               PROVE  /\ entries'[i].kind = "ADD" =>
                            welcomed'[entries'[i].event] > 0
                      /\ entries'[i].kind = "REMOVE" =>
                            dismissed'[entries'[i].event] > 0
      BY <2>2, MaxEntriesAssumption DEF EntriesSent
  <2>3. CASE i = 1
      BY <1>2, <2>2, <2>3 DEF Line
  <2>4. CASE i # 1
    <3>1. i - 1 \in 1..Len(entries) /\ entries'[i] = entries[i - 1]
        BY <2>2, <2>4
    <3>2. entries[i - 1].event \in Events
        BY <3>1, EntryTypes
    <3> QED BY <1>2, <3>1, <3>2 DEF EntriesSent
  <2> QED BY <2>3, <2>4
<1>3. ASSUME NEW e \in Events, welcomed[e] = 0,
             welcomed' = [welcomed EXCEPT ![e] = 1], dismissed' = dismissed
      PROVE  \A f \in Events : /\ welcomed[f] > 0 => welcomed'[f] > 0
                               /\ dismissed[f] > 0 => dismissed'[f] > 0
    BY <1>3 DEF TypeOK
<1>4. ASSUME NEW e \in Events, dismissed[e] = 0,
             dismissed' = [dismissed EXCEPT ![e] = 1], welcomed' = welcomed
      PROVE  \A f \in Events : /\ welcomed[f] > 0 => welcomed'[f] > 0
                               /\ dismissed[f] > 0 => dismissed'[f] > 0
    BY <1>4 DEF TypeOK
<1>5. ASSUME entries' = entries,
             \A f \in Events : /\ welcomed[f] > 0 => welcomed'[f] > 0
                               /\ dismissed[f] > 0 => dismissed'[f] > 0
      PROVE  EntriesSent'
  <2>1. \A i \in 1..Len(entries) : entries[i].event \in Events
      BY EntryTypes
  <2> QED BY <1>5, <2>1 DEF EntriesSent
<1>6. ASSUME NEW e \in Events, welcomed[e] = 0,
             welcomed' = [welcomed EXCEPT ![e] = 1], dismissed' = dismissed,
             Sent(e, "ADD")
      PROVE  EntriesSent'
  <2>1. welcomed'[e] > 0
      BY <1>6 DEF TypeOK
  <2> QED BY <1>2, <1>3, <1>5, <1>6, <2>1 DEF Sent
<1>7. ASSUME NEW e \in Events, dismissed[e] = 0,
             dismissed' = [dismissed EXCEPT ![e] = 1], welcomed' = welcomed,
             Sent(e, "REMOVE")
      PROVE  EntriesSent'
  <2>1. dismissed'[e] > 0
      BY <1>7 DEF TypeOK
  <2> QED BY <1>2, <1>4, <1>5, <1>7, <2>1 DEF Sent
<1>8. CASE UNCHANGED notified /\ entries' = entries
    BY <1>5, <1>8 DEF notified
<1>9. CASE UNCHANGED notified /\ entries' = <<>>
  <2>1. <<>> \in Seq(L) /\ Len(<<>>) = 0
      OBVIOUS
  <2> QED BY <1>9, <2>1, MaxEntriesAssumption DEF EntriesSent
<1> QED BY <1>6, <1>7, <1>8, <1>9, StepKinds

\* A new line is not among the older ones, and that of those who joined an
\* event comes before that of those who left it.
LEMMA OnceStep ==
    ASSUME TypeOK, Exclusive, EntriesSent, EachLineOnce, [FeedNext]_all
    PROVE  EachLineOnce'
<1> DEFINE L == [event : Events, kind : {"ADD", "REMOVE"}]
<1>1. entries \in Seq(L) /\ Len(entries) <= MaxEntries
    BY DEF EntriesSent
<1>2. ASSUME NEW e \in Events, NEW what \in {"ADD", "REMOVE"},
             entries' = Show(Line(e, what)),
             \A i \in 1..Len(entries) : entries[i].event = e =>
                what = "REMOVE" /\ entries[i].kind # "REMOVE"
      PROVE  EachLineOnce'
  <2>1. Line(e, what) \in L
      BY DEF Line
  <2> HIDE DEF L
  <2>2. /\ entries' \in Seq(L)
        /\ entries'[1] = Line(e, what)
        /\ \A i \in 2..Len(entries') :
                i - 1 \in 1..Len(entries) /\ entries'[i] = entries[i - 1]
      BY <1>1, <1>2, <2>1, ShowLines
  <2> SUFFICES ASSUME NEW i \in 1..Len(entries'), NEW j \in 1..Len(entries')
               PROVE  /\ entries'[i] = entries'[j] => i = j
                      /\ /\ entries'[i].event = entries'[j].event
                         /\ entries'[i].kind = "ADD"
                         => j <= i
      BY <2>2 DEF EachLineOnce
  <2>3. CASE i = 1 /\ j = 1
      BY <2>3
  <2>4. CASE i = 1 /\ j # 1
      BY <1>2, <2>2, <2>4 DEF Line
  <2>5. CASE i # 1 /\ j = 1
      BY <1>2, <2>2, <2>5 DEF Line
  <2>6. CASE i # 1 /\ j # 1
    <3>1. /\ i - 1 \in DOMAIN entries /\ entries'[i] = entries[i - 1]
          /\ j - 1 \in DOMAIN entries /\ entries'[j] = entries[j - 1]
        BY <1>1, <2>2, <2>6
    <3>2. /\ entries[i - 1] = entries[j - 1] => i - 1 = j - 1
          /\ /\ entries[i - 1].event = entries[j - 1].event
             /\ entries[i - 1].kind = "ADD"
             => j - 1 <= i - 1
        BY <3>1 DEF EachLineOnce
    <3> QED BY <3>1, <3>2
  <2> QED BY <2>3, <2>4, <2>5, <2>6
<1>3. \A i \in 1..Len(entries) :
        entries[i].event \in Events /\ entries[i].kind \in {"ADD", "REMOVE"}
    BY EntryTypes
<1>4. ASSUME NEW e \in Events, welcomed[e] = 0, dismissed[e] = 0
      PROVE  \A i \in 1..Len(entries) : entries[i].event # e
    BY <1>3, <1>4 DEF EntriesSent
<1>5. ASSUME NEW e \in Events, dismissed[e] = 0
      PROVE  \A i \in 1..Len(entries) :
                entries[i].event = e => entries[i].kind # "REMOVE"
    BY <1>3, <1>5 DEF EntriesSent
<1>6. CASE entries' = entries
    BY <1>6 DEF EachLineOnce
<1>7. CASE entries' = <<>>
    BY <1>7 DEF EachLineOnce
<1> QED BY <1>2, <1>4, <1>5, <1>6, <1>7, StepKinds DEF Sent

\* A line that is pushed off the screen leaves it full.
LEMMA SentShownStep ==
    ASSUME TypeOK, Exclusive, EntriesSent, SentShown, [FeedNext]_all
    PROVE  SentShown'
<1> DEFINE L == [event : Events, kind : {"ADD", "REMOVE"}]
<1>1. entries \in Seq(L) /\ Len(entries) <= MaxEntries /\ MaxEntries \in Nat
    BY MaxEntriesAssumption DEF EntriesSent
<1>2. ASSUME NEW line \in L, entries' = Show(line), Len(entries) < MaxEntries
      PROVE  OnScreen(line)' /\ \A old \in L : OnScreen(old) => OnScreen(old)'
  <2>1. /\ Len(entries') = Len(entries) + 1
        /\ entries'[1] = line
        /\ \A i \in 2..Len(entries') : entries'[i] = entries[i - 1]
      BY <1>1, <1>2, ShowLines
  <2>2. ASSUME NEW old \in L, OnScreen(old) PROVE OnScreen(old)'
    <3>1. PICK i \in 1..Len(entries) : entries[i] = old
        BY <2>2 DEF OnScreen
    <3>2. i + 1 \in 2..Len(entries') /\ entries'[i + 1] = entries[i]
        BY <1>1, <2>1
    <3> QED BY <3>1, <3>2 DEF OnScreen
  <2>3. 1 \in 1..Len(entries')
      BY <1>1, <2>1
  <2> QED BY <2>1, <2>2, <2>3 DEF OnScreen
<1>3. ASSUME NEW line \in L, entries' = Show(line), Len(entries) = MaxEntries
      PROVE  SentShown'
    BY <1>1, <1>3, ShowLines DEF SentShown
<1>4. ASSUME NEW e \in Events, entries' = Show(Line(e, "ADD")),
             welcomed' = [welcomed EXCEPT ![e] = 1], dismissed' = dismissed,
             dropped' = dropped
      PROVE  SentShown'
  <2>1. Line(e, "ADD") \in L
      BY DEF Line
  <2>2. CASE Len(entries) < MaxEntries /\ ~dropped
    <3>1. ASSUME NEW f \in Events
          PROVE  /\ welcomed'[f] > 0 => OnScreen(Line(f, "ADD"))'
                 /\ dismissed'[f] > 0 => OnScreen(Line(f, "REMOVE"))'
      <4>1. Line(f, "ADD") \in L /\ Line(f, "REMOVE") \in L
          BY DEF Line
      <4>2. /\ welcomed[f] > 0 => OnScreen(Line(f, "ADD"))'
            /\ dismissed[f] > 0 => OnScreen(Line(f, "REMOVE"))'
          BY <1>1, <1>2, <1>4, <2>1, <2>2, <4>1 DEF SentShown
      <4>3. CASE f = e
          BY <1>2, <1>4, <2>1, <2>2, <4>2, <4>3
      <4>4. CASE f # e
          BY <1>4, <4>2, <4>4 DEF TypeOK
      <4> QED BY <4>3, <4>4
    <3> QED BY <3>1 DEF SentShown
  <2>3. CASE Len(entries) = MaxEntries
      BY <1>3, <1>4, <2>1, <2>3
  <2>4. CASE dropped
      BY <1>4, <2>4 DEF SentShown
  <2> QED BY <1>1, <2>2, <2>3, <2>4
<1>5. ASSUME NEW e \in Events, entries' = Show(Line(e, "REMOVE")),
             dismissed' = [dismissed EXCEPT ![e] = 1], welcomed' = welcomed,
             dropped' = dropped
      PROVE  SentShown'
  <2>1. Line(e, "REMOVE") \in L
      BY DEF Line
  <2>2. CASE Len(entries) < MaxEntries /\ ~dropped
    <3>1. ASSUME NEW f \in Events
          PROVE  /\ welcomed'[f] > 0 => OnScreen(Line(f, "ADD"))'
                 /\ dismissed'[f] > 0 => OnScreen(Line(f, "REMOVE"))'
      <4>1. Line(f, "ADD") \in L /\ Line(f, "REMOVE") \in L
          BY DEF Line
      <4>2. /\ welcomed[f] > 0 => OnScreen(Line(f, "ADD"))'
            /\ dismissed[f] > 0 => OnScreen(Line(f, "REMOVE"))'
          BY <1>1, <1>2, <1>5, <2>1, <2>2, <4>1 DEF SentShown
      <4>3. CASE f = e
          BY <1>2, <1>5, <2>1, <2>2, <4>2, <4>3
      <4>4. CASE f # e
          BY <1>5, <4>2, <4>4 DEF TypeOK
      <4> QED BY <4>3, <4>4
    <3> QED BY <3>1 DEF SentShown
  <2>3. CASE Len(entries) = MaxEntries
      BY <1>3, <1>5, <2>1, <2>3
  <2>4. CASE dropped
      BY <1>5, <2>4 DEF SentShown
  <2> QED BY <1>1, <2>2, <2>3, <2>4
<1>6. CASE UNCHANGED notified /\ entries' = entries /\ dropped' = dropped
    BY <1>6 DEF SentShown, OnScreen, notified
<1>7. CASE dropped' = TRUE
    BY <1>7 DEF SentShown
<1> QED BY <1>4, <1>5, <1>6, <1>7, StepKinds DEF Sent
-----------------------------------------------------------------------------
(* The theorems. *)

LEMMA FeedInductive ==
    FeedSpec => [](EntriesSent /\ EachLineOnce /\ SentShown)
<1>1. FeedInit => EntriesSent /\ EachLineOnce /\ SentShown
  <2> SUFFICES ASSUME FeedInit
               PROVE  EntriesSent /\ EachLineOnce /\ SentShown
      OBVIOUS
  <2>1. entries = <<>> /\ \A e \in Events : welcomed[e] = 0 /\ dismissed[e] = 0
      BY DEF FeedInit, Init
  <2>2. EntriesSent
      BY <2>1, MaxEntriesAssumption DEF EntriesSent
  <2>3. EachLineOnce
      BY <2>1 DEF EachLineOnce
  <2>4. SentShown
      BY <2>1 DEF SentShown
  <2> QED BY <2>2, <2>3, <2>4
<1>2. /\ TypeOK /\ Exclusive
      /\ EntriesSent /\ EachLineOnce /\ SentShown
      /\ [FeedNext]_all
      => EntriesSent' /\ EachLineOnce' /\ SentShown'
    BY EntriesStep, OnceStep, SentShownStep
<1> QED BY <1>1, <1>2, ConsumerInvariants, PTL DEF FeedSpec

\* No line is ever twice in the feed, although events are delivered again
\* and the gateway sends whatever it is given.
THEOREM FeedNeverRepeats == FeedSpec => []EachLineOnce
BY FeedInductive, PTL

\* What the consumer notified about is on the screen or pushed off by newer
\* lines, while nothing fails and the feed is there to receive it.
THEOREM FeedShowsAll == FeedSpec => []Shown
<1>1. TypeOK /\ EntriesSent /\ ExactlyOnce /\ SentShown => Shown
  <2> SUFFICES ASSUME TypeOK, EntriesSent, ExactlyOnce, SentShown,
                      faults = 0, ~dropped, Len(entries) # MaxEntries,
                      NEW e \in processed,
                      ~\E s \in Slots : Working(s, e)
               PROVE  Lines(e) \subseteq ToSet(entries)
      BY DEF Shown
  <2>1. NotifiedInFull(e) /\ e \in Events
      BY DEF ExactlyOnce, TypeOK
  <2>2. /\ e \in Joined => OnScreen(Line(e, "ADD"))
        /\ e \in Left => OnScreen(Line(e, "REMOVE"))
      BY <2>1 DEF SentShown, NotifiedInFull
  <2>3. ASSUME NEW line, OnScreen(line) PROVE line \in ToSet(entries)
      BY <2>3 DEF EntriesSent, OnScreen, ToSet
  <2>4. \A line \in Lines(e) :
            \/ e \in Joined /\ line = Line(e, "ADD")
            \/ e \in Left /\ line = Line(e, "REMOVE")
      BY DEF Lines, Line
  <2> QED BY <2>2, <2>3, <2>4
<1> QED BY <1>1, FeedInductive, ConsumerInvariants, PTL
=============================================================================
