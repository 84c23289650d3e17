# Drift Happens, specified

TLA+ specifications of the customer-segment system in this repository: how the
membership of a segment follows the customers' data, how a change of membership
becomes an event, and who sees it. The modules are written from the code in
`src/apps/api` and `src/apps/web`; `PROJECT.json` maps each definition to the
lines it stands for.

## 1. The system

| Component | State | Operations | Talks to |
|---|---|---|---|
| Simulator API (`simulator.controller.ts`) | customers, transactions | transaction, profile-update, bulk-changes, advance-time: write, then mark the customers | Postgres, change buffer |
| Change buffer (`change-buffer.service.ts`) | a Redis set; `inFlight` | `SADD`; every 500 ms RENAME, SMEMBERS + DEL, rebuild | Redis, orchestrator |
| Orchestrator (`segment-evaluation.service.ts`, `dependency`, `metrics`, `evaluator`) | members, deltas, dependency edges, outbox rows | `evaluateSegment`, `rebuildAllDynamic` (also at boot) | Postgres |
| Outbox publisher (`outbox-publisher.service.ts`) | row status; `inFlight` | every second: read a batch, publish, mark | Postgres, RabbitMQ |
| RabbitMQ (`rabbitmq.service.ts`) | exchange, three durable queues | route, deliver up to prefetch, requeue | publisher, consumers |
| Cascade consumer, prefetch 1 | unacked message | look up dependents, evaluate them, ack or nack | orchestrator |
| Campaign consumer, prefetch 10 | `ProcessedEvent` | claim, notify joined, notify departed, ack or nack | Postgres, gateway |
| Realtime gateway, prefetch 50 | sockets | broadcast, ack or nack | browsers |
| Segments controller | segments, rules | create, update, remove, evaluate, rebuild, reads | Postgres, orchestrator |
| Rules and metrics (`evaluator`, `metrics`, `segment-rules.ts`) | none | validate, collect parents, evaluate; one SQL aggregate per evaluation | Postgres |
| Web pages (list, detail) | counts, feed, member table | load, apply a delta, refetch, turn pages, navigate | HTTP, socket |
| Simulator panel | `busy` | four calls to the simulator API | HTTP, list page |
| Campaign feed | the last 50 lines | show a notification | socket |
| Seed script | customers, transactions, five segments | run once | Postgres |

Five callers of `evaluateSegment` (boot, flush, cascade, `evaluate`, `rebuild`)
share the tables and exclude one another nowhere. That, the two-step hand-overs
(data then mark, snapshot then rebuild, rule then edges, publish then mark,
claim then work) and at-least-once delivery are where the system is hard to
test. `PROJECT.json` lists these places as hazards, line by line.

What makes each part correct:

* **Evaluation and cascade**: a stale segment always has an evaluation coming,
  and a system at rest shows the members its rules ask for.
* **Dependency graph**: at rest the edges match the stored rules, a rebuild repairs
  those that do not, and no rule refers to a deleted segment (the last does not hold).
* **Outbox and delivery**: every committed event is handled by every consumer (but for
  what is lost in the buffer of the API), and duplicates come from faults only.
* **Campaign consumer and feed**: nobody is notified twice, and without a fault
  nobody is left out; the feed shows what was notified.
* **Rules and metrics**: an accepted rule has the members that meet each of its
  leaves; only the passing of time makes a membership wrong unnoticed.
* **Simulator**: every row written is signalled, patches and counts are exact.
* **Pages**: when nothing is on its way, what is shown is what is stored, unless a
  response was overtaken.

## 2. The modules

| Module | What it is |
|---|---|
| `SegmentSync` | data, change buffer, evaluation by several processes, outbox and cascade queue as an at-least-once bag |
| `SegmentSyncProofs` | its inductive invariant and theorems |
| `SegmentAdmin`, `SegmentAdminProofs` | segments, rules and edges under concurrent requests, boot rebuild, queries that throw, and crashes; types proved |
| `SegmentCascade`, `SegmentCascadeProofs` | extends `SegmentAdmin` by the cascade consumer and its queue; theorems |
| `RuleTree` | rules as trees: validation, parents, evaluation, and what a rule means |
| `SimulatorCalls`, `SimulatorCallsProofs` | the panel and the endpoints, with the rows and signals they write; theorems |
| `Simulator`, `SimulatorProofs` | extends `SimulatorCalls` and `RuleTree` by metrics, segments and flushes; theorems about all three |
| `EventRelay` | abstract: what the outbox promises |
| `EventDelivery` | publisher, connection, broker and consumers; implements `EventRelay` |
| `EventDeliveryProofs` | its theorems, the refinement of steps among them |
| `CampaignConsumer` | the claim in `ProcessedEvent` and the notifications |
| `CampaignFeed`, `CampaignFeedProofs` | composes `CampaignConsumer` with the gateway, the socket and the feed; implements it; theorems about both |
| `RealtimeView`, `RealtimeViewProofs` | the two pages: responses, events and the user; theorems |
| `MC...` | instances for TLC |

Operators named after a code function with a suffix (`FinishUnacked`,
`DeleteRowOnly`, ...), marked *Mutant*, are deliberate faults: no action uses
them. For each property there is one, and with it in place TLC finds the
property violated.

### SegmentSync

A process is one caller. Its `pc` is the await it is at: `edges`
(`replaceDependencies`), `metrics` (`computeAll`), `parents`
(`loadParentMemberships`), `current` (the members before the diff), `commit` (the
transaction). `target` grows as the rule is evaluated; `Commit` applies the diff
of `target` and `current` to the rows *as they are by then*, which is what
`createMany` with `skipDuplicates` and `deleteMany` do. Statements that belong to
one transaction, and what follows an await without another one, are one step.

Data: a customer's metrics are a value that rules either accept (`Satisfying`) or
not, and a rule is such a test plus a set of parents. `compare`, `in_segment` and
`and` express nothing else. A simulator call is two steps, `Write` and
`MarkChanged`, with any number of calls in between. The rules do not change here.

`Init` is any database, buffer and queue that an earlier run may have left, with
the boot rebuild about to start. HTTP is not served before that rebuild ends
(`listen` comes after the bootstrap hooks), timers and consumers are. `Nack` and
`Restart` put the message back; a restart loses what was in memory, and of the messages on
their way those that were still in the buffer of the process (`Unlost`).

`Spec` has no evaluation on request and no failure the code does not retry. There are
two: `FailureSpec` adds a flush whose rebuild throws after the signals were deleted,
`UnmarkedSpec` a `SADD` that throws after the customer was written.

### SegmentAdmin

The counterpart: rules change, members are left out. A request is a check
(`CheckCreate`, `CheckUpdate`, `CheckRemove`), a write (`Insert`, `Store`,
`Delete`) and, for a dynamic segment, an evaluation reduced to `Load`,
`ReplaceDependencies`, `ReadMembers` and `CommitMembers`. There are as many requests at a
time as `Callers`. Any query may throw (`QueryFails`), for a reason of its own or because
a row is gone, and `Fail` is what its caller does with the exception: roll back in create,
stop in a rebuild or in the cascade, leave things as they are in update, remove and
refresh. Foreign keys (`CanReplace`) and `ON DELETE CASCADE` (`DeleteRow`) are the schema's.
`TopoSorts` are the orders in which `topoSort` may return the segments; if there is none,
because the rules have a cycle, it throws. The database is empty at first, or holds what
the seed script writes: rules, and no edges. POST /segments/rebuild is left out; the
rebuild is that of the boot.

### SegmentCascade

`SegmentAdmin` with one more process, the cascade consumer. A commit that changes a
segment appends it to `queue`; `Deliver` takes the head, `Lookup` reads the
dependents, `NextDependent` evaluates one after the other and acks at the end. If
one throws, `Enqueued` puts the message back at the head (nack with requeue), and a
restart does the same (`CascadeRestart`). Outbox and broker are left out.

Members appear only as history. `behind` holds, for a process that has read the
members, the segments that changed since; `stale[i]` the segments that changed since
the last evaluation of `i` read them. `lapped` marks a segment whose last evaluation
overlapped another of it or a change of its rule. `unsettled` marks one whose edges were
stored from a rule that had been replaced, or that was given up when a query threw
(`GivenUp`): a throw in `rebuildAllDynamic` gives up every segment after it, a throw in a
request the one it evaluates. A throw in the cascade gives up only the segment whose edges
it has already stored, since the message comes again, but for the dependents that the
edges name by then. The code excludes none of these, and for these segments `NoneMissed`
fails, and for the unsettled ones `EdgesSettled` too. For all others both hold, whatever is
created, changed or deleted meanwhile. `RebuildRepairs` excepts nobody: a boot rebuild that
gets through leaves the graph of the dynamic segments as the rules ask for it. All three are
proved. A crash loses any stretch of `queue`, which stands for what was published and not
carried to the broker (`CascadeRestart`); the rebuild of the boot makes up for it.

### RuleTree, SimulatorCalls and Simulator

`RuleTree` has the three kinds of node. `Valid` is `validateRule`, `CollectParentIds`
the walk of `dependency.service.ts`, `Evaluate` the evaluator, with a third answer
for its throw. The functions of the code that call themselves on the children of a node
are written level by level (`Levels`): the nodes of a tree are those at depths up to
`MaxDepth`, and a node's answer is taken from those of the next level (`AnswerOf`). The
tree of an accepted rule ends there, which is what `validateRule` checks. In the same way
`topoSort` is a function of how many segments are placed, and a rebuild of how many are
evaluated. What a rule *means* is stated apart from all of these: a customer meets each leaf
of the tree. `RuleMeaning` compares the two for the seeded rules and for rules of users:
nested, deep, empty, three levels of segments.

`SimulatorCalls` has the rows and the calls: `transactions` is a bag, and a row's age is in
days. A call goes from the panel (`Fire`) through the steps of its endpoint and back
(`Answer`); a page that is left (`Remount`) leaves its calls running, and a new panel may
start another. `Day` is a day that passes, `Shift` the advance-time endpoint, which ages the
rows in the same way but signals all customers. Of a flush there is only that it takes the
signals (`Take`). `owed` is history: the keys a profile must have.

`Simulator` adds what the signals are for. `MetricsOf` computes the four metrics with the
code's windows, and `Flush` is `Take` and a rebuild in one step, since `SegmentSync` has it
in detail. A rule is sent with POST /segments and refers to segments that exist, so there
is no cycle among them (`RulesAssumption`); one made by an update is `SegmentAdmin`'s. The
boot rebuild is over at first. Each step of `Simulator` is one of `SimulatorCalls` on the
variables of that module: `CallStep`, `Take` or `Day`. `aged` is history: whether time has
passed since the last rebuild.

### EventDelivery and EventRelay

A tick is `Tick` (read a batch), then row by row `PublishAccepted` and `Mark`; the
tick may end early (`PublishRefused`, `MarkFails`). A consumer is generic: it holds
up to `Prefetch` messages, and handles or nacks each. amqplib and the broker are
modelled from the calls made to them: no confirm channel, durable queues,
redelivery of what is not acked.

`publish` returns as soon as the bytes are in a buffer of the API process
(`rabbitmq.service.ts:114-122`). `wire` holds what was published and has not reached the
broker, and both a crash (`Restart`) and a lost connection (`OutageSpec`) empty it
(`DropUnsent`). A row that was marked by then is lost for good; `lost` is the history of
these rows, and no others. The promise of `EventRelay` has the same hole (`Lose`): each
event is written, handled by each consumer, and handled in the end unless it is lost. The
refinement maps `written` to the rows that exist, `handled` and `lost` to themselves.

### CampaignConsumer

`Slots` are the deliveries in flight. `Claim` is the insert with `skipDuplicates`;
`NotifyAdded` and `NotifyRemoved` are a name lookup and a broadcast. `Fail` is a query
that throws, with the claim stored or not. The publisher is `Arrive`, which may
send an event more than once.

### CampaignFeed

Each notification of `CampaignConsumer` is also a `Broadcast`: to nobody while NestJS
has not wired socket.io (`link = "booting"`), the socket is down or another page is
shown, else to the top of the feed, which keeps `MaxEntries` lines. Leaving the page
destroys the feed.

### RealtimeView

A GET is sent, read by the server (`Read`) and answered (`Respond`); events travel
on `wire`. `Receive` is `applyDelta` or `applyRealtimeDelta`, depending on the page.
Leaving a page destroys it with its responses, except from detail page to detail
page, where Angular keeps the component. The pages neither cancel a request nor look at
which one an answer is for (`segment-detail.page.ts:352-375`, `391`), so GETs of one kind
are read and answered in any order, those of the segment shown before included, and
whatever answer comes last is shown. `Miss` is an event sent while the socket was down.

Three history variables: `newest` tells of each kind of GET whether the last one sent is
on its way, was shown, or was shown and then *overtaken* by the answer to an earlier one;
`blurred` whether an event came twice or was on its way while a count was being read;
`missed` whether one was lost that the page shown would have applied, until the page loads
again.

## 3. What the runs show

| Run | Result | Instance |
|---|---|---|
| `segment_sync` | `TypeOK`, `StaleIsOwed`, `SettledInSync`, `EdgesComplete`, and the proofs' `IndInv` hold | parent and child, one customer, one data change, one fault |
| `segment_sync_live` | `Settles` holds | the same without a fault, with fairness |
| `segment_sync_chain` | `SettledInSync` **violated** | a chain of three, one change, no fault |
| `segment_sync_failure` | `SettledInSync` **violated** | one rebuild that throws |
| `event_delivery` | `TypeOK`, `PublishedIsKept`, `NoSpontaneousDuplicate`, `AtLeastOnce`, `Drains` hold | three events, batches of two, two consumers with prefetch 1 and 2, one fault (a crash among them) |
| `event_delivery_loss` | `PublishedArrives` **violated** | a lost connection |
| `campaign_consumer` | `TypeOK`, `AtMostOnce`, `Exclusive`, `ExactlyOnce`, `EachLineOnce`, `Shown`, `Handled` hold | two events, two copies each, two slots, a feed of two lines, two faults, one visit to another page |
| `segment_admin_race` | `RulesResolve` **violated** | three segments, two of them seeded, two requests at a time, no fault |
| `segment_admin_static` | `AllRulesResolve` **violated** | the same, one request at a time, no update |
| `segment_cascade` | `TypeOK`, `RebuildRepairs`, `NoneMissed`, `EdgesSettled`, `WorkedOff` hold | a parent with two children, one of which it may refer to in turn; one update, one change, one crash or query that throws, any creates, deletes and refreshes |
| `realtime_view` | `TypeOK`, `ViewFresh`, `UnblurredCounts` hold | two segments of two members, three changes, faults or clicks, four GETs at a time, any first page |
| `simulator` | `TypeOK`, `RuleMeaning`, `DriftOnlyByTime`, `DriftOneWay`, `PatchKept`, `BulkExact`, `OneCallPerPanel`, `EachWriteSignalled` hold | two customers, two overlapping calls, three transactions, windows of one, two and three days |

Bounds, and why they suffice to meet the interesting cases:

* `SegmentSync`: the properties of a segment concern it and its parents, and
  customers do not interact, so one customer and one edge show each kind of
  interleaving; one fault at any of the awaits of any process. The initial state
  is arbitrary (members, edges and buffer), which stands for longer histories. The
  proofs lift all of these bounds.
* `EventDelivery`: three events with batches of two give a second batch and a row
  left over; a prefetch of one and one above one.
* `CampaignFeed`: two slots, so two handlers can meet on one event; an event with both
  kinds of change and one with one, that is three lines for a feed of two.
* `SegmentAdmin`: both runs look for a counterexample, which needs a seeded parent and a
  segment that is created to refer to it.
* `SegmentCascade`: two children, so that the loop over the dependents can fail before
  or after one of them; an update, a change, a delete and a fault can meet. The update may
  make the parent refer to a child (`FanAndBack`), and then no rebuild has an order. One
  request at a time; the proofs are for any number.
* `Simulator`: a chunk size of two and three rows give a full and a partial chunk; a
  payment and a refund; ages on both sides of each window; two calls, which is what
  a lost profile update and a panel that was left need.
* `RealtimeView`: two segments to navigate between, a page size of one and two members,
  so that one change adds a page or empties one. A page sends no GETs beyond `MaxGets` at a
  time: with four, an event's two GETs may be answered before two of the load, and the three
  of a page before one of the segment shown until then. The proofs are for any number.

Deadlock checking is off in every run: each instance stops when its bounds are used
up, as the system does when nobody calls it.

**Fairness.** `Settles`, `Drains`, `Handled` and `WorkedOff` assume what the code's scheduling gives: timers
keep firing (`FlushRename`, `Tick`), pending awaits resolve (`EvaluationStep`,
`MarkChanged`, `Mark`, `FeedStep`), the broker routes and delivers (`Deliver`,
`FeedDeliver`). Of `SegmentCascade` only the consumer is fair (`CascadeStep`), since it waits
for nobody else. Writes, requests, users and faults are never fair. `WorkedOff` has a premise: from some time on no edge leads to
a segment that every attempt to evaluate throws at (`Poisoned`).

**What the violations say.** They are findings in `PROJECT.json`, each with the
sentence of the repository it contradicts.

1. *Chains do not always settle* (`segment_sync_chain`). A flush reads the middle
   segment, the cascade changes it and evaluates the last one, and then the flush
   commits the last one from what it had read. Nothing is pending, and the last
   segment stays wrong until some customer changes.
2. *A failed flush forgets* (`segment_sync_failure`). The snapshot key is deleted, then
   the rebuild throws, and nobody knows of the change any more.
3. *Loss with the connection* (`event_delivery_loss`). No publisher confirms: the row is
   marked, and the message goes with the buffer of the connection.
4. *Deletion under a create* (`segment_admin_race`). One request inserts a segment that
   refers to b; another, deleting b, looks for dependents and finds none; then the first
   stores its edges, and the second deletes b and the edges. From now on every rebuild
   throws at the segment.
5. *Parents of static segments can go* (`segment_admin_static`). Create a segment, create
   a static one that refers to it, delete the first: remove consults edges, and a static
   segment has none before its first refresh.

**Limits that follow from the same modules**, without a run of their own:

* *Overlapping request.* A manual evaluation that overlaps a flush is like the chain: it
  may commit its old diff last.
* *A signal that is not written.* In `UnmarkedSpec`, `StaleIsOwed` and `SettledInSync` fail:
  the customer is stored, the `SADD` throws, and the next evaluation comes with an unrelated
  change or a boot.
* *Cycle of rules.* Update checks for direct self-references only (`FanAndBack` has b refer to
  a, and then a to b), and then every rebuild throws, at boot and in every flush. No
  property of `segment_cascade` reports it: a rebuild without an order gives up all segments,
  and they become unsettled.
* *Lost with the process.* A crash right after the mark loses an event as a lost connection
  does. A rebuild at boot sets memberships right all the same, but the campaign notification
  and the browsers' update of that change are gone.
* *Old edges over new ones.* A cascade evaluation that had loaded a rule before an update
  stored another deletes the new rule's edges (`dependency.service.ts:61-63` claims that
  concurrent writes are tolerated). This is why `NoneMissed` and `EdgesSettled`
  exclude `unsettled` segments.
* *Poison message.* A static segment that was refreshed has edges; the cascade evaluates it
  without force, which throws, and the message is requeued for ever. This is why `WorkedOff`
  needs its premise.
* *No reconnect.* In `OutageSpec`, `Drains` fails: after a lost connection nothing connects
  again, and the outbox fills until a restart.
* *Counts that drift.* Without `~blurred`, `UnblurredCounts` fails: a page that loads between
  commit and delivery counts a change twice, and so does every redelivered event.
* *Overtaken answers.* Without its premises about `newest`, `ViewFresh` fails: of two events
  in a row the answer to the first one's fetch may come last, and after a change of route
  the header may be that of the other segment. It stays until the next load or event.
* *Lost events.* Without `~missed`, `ViewFresh` and `UnblurredCounts` fail: nothing is loaded
  when the socket connects again. `simulator-panel.ts:22-25` relies on the refetch after a
  simulator call, which usually precedes the flush whose changes it is to show.
* *Reversing time.* `simulator.controller.ts:194` says that advance-time is reversed by a
  negative N; the endpoint rejects days below 1.

## 4. What is proved

With tlapm, for every value of the constants that satisfies the modules' assumptions:

| Theorem | States |
|---|---|
| `SegmentSyncProofs!TypeCorrect` | `Spec => []TypeOK` |
| `SegmentSyncProofs!EdgesKept` | `Spec => []EdgesComplete`, for any rules |
| `SegmentSyncProofs!Invariance` | `TwoLevel` implies `Spec => []IndInv` |
| `SegmentSyncProofs!NothingForgotten` | `TwoLevel` implies `Spec => []StaleIsOwed` |
| `SegmentSyncProofs!RestInSync` | `TwoLevel` implies `Spec => []SettledInSync` |
| `EventDeliveryProofs!TypeCorrect`, `OnlyTheBufferIsLost`, `DuplicatesNeedFaults` | `[]TypeOK`, `[]PublishedIsKept`, `[]NoSpontaneousDuplicate` |
| `EventDeliveryProofs!ImplementsRelay` | the initial states and steps of `EventRelay` |
| `CampaignFeedProofs!TypeCorrect`, `ClaimIsExclusive`, `NoDoubleNotification`, `NotifiedExactlyOnce` | `[]TypeOK`, `[]Exclusive`, `[]AtMostOnce`, `[]ExactlyOnce` |
| `CampaignFeedProofs!FeedImplementsConsumer` | `FeedSpec => Init /\ [][Next]_vars`: the composition implements the consumer |
| `CampaignFeedProofs!ConsumerInvariants` | the four invariants above, under `FeedSpec` |
| `CampaignFeedProofs!FeedNeverRepeats`, `FeedShowsAll` | `FeedSpec => []EachLineOnce`, `[]Shown` |
| `SegmentAdminProofs!TypeCorrect` | `Spec => []TypeOK`, for any number of callers |
| `SegmentCascadeProofs!CascadeTypeCorrect` | `CascadeSpec => []TypeOK` |
| `SegmentCascadeProofs!CascadeMissesNothing` | `CascadeSpec => []NoneMissed`, for any callers and any rules |
| `SegmentCascadeProofs!CascadeEdgesSettled` | `CascadeSpec => []EdgesSettled`, likewise |
| `SegmentCascadeProofs!CascadeRebuildRepairs` | `CascadeSpec => []RebuildRepairs`, likewise |
| `RealtimeViewProofs!TypeCorrect`, `AtRestFresh`, `CountsAddUp` | `Spec => []TypeOK`, `[]ViewFresh`, `[]UnblurredCounts` |
| `SimulatorCallsProofs!TypeCorrect`, `BulkIsExact`, `PatchesAreKept`, `PanelHasOneCall` | `Spec => []TypeOK`, `[]BulkExact`, `[]PatchKept`, `[]OneCallPerPanel` |
| `SimulatorCallsProofs!WritesAreSignalled` | `Spec => EachWriteSignalled`, an action property |
| `SimulatorProofs!EvaluatorIsRight` | `Evaluate` of an accepted rule says yes to who meets all leaves, no to everybody else, and does not throw |
| `SimulatorProofs!RebuildIsRight` | `RebuildAllDynamic(m)` gives each segment its target, whatever `m` is |
| `SimulatorProofs!RulesMeanWhatTheySay`, `DriftNeedsTime`, `DriftIsOneWay` | `SimulatorSpec => []RuleMeaning`, `[]DriftOnlyByTime`, `[]DriftOneWay` |
| `SimulatorProofs!SimulatorImplementsCalls` | `SimulatorSpec => Spec`: the composition implements `SimulatorCalls` |
| `SimulatorProofs!CallInvariants` | the four invariants and the action property of `SimulatorCalls` above, under `SimulatorSpec` |

**The invariant of SegmentSync.** `SettledInSync` says nothing about a system in
motion, so it is proved from `StaleIsOwed`, which speaks of every state: a stale
segment has a rebuild, a signal or an event coming. That is not inductive either,
because an evaluation under way may carry stale reads. `IndInv` adds what each
process knows:

* a rebuild at a *leaf* (a segment whose rule has no parents) works on the current
  metrics, unless a signal is pending (`LeafTarget`); what a rebuild has passed
  during boot is right (`LeafDone`);
* a rebuild at a *child* has already evaluated the child's parents in this pass
  (`Control`, from the topological order) and its target is the current one
  (`ChildTarget`);
* the cascade's target is the current one, or another event of a parent is on its
  way (`CascadeTarget`);
* a diff about to be committed still gives the right result when applied to the rows
  there are now (`Agrees`), or a repair is coming.

`TwoLevel` is the assumption on rules: a rule is a test of metrics, or membership in
segments of the first kind, as in the seeded data. It is needed: `segment_sync_chain` is
the counterexample for a chain of three. With two levels only rebuilds change a parent,
and a rebuild evaluates parents before children.

`OnlyTheBufferIsLost` needs only that a row being sent has a copy under way or handled; a crash
puts the rows whose copies it takes into `lost`.
`DuplicatesNeedFaults` counts copies exactly. `ClaimIsExclusive` rests on the claim:
until a row is in `processed` nothing was sent, and the delivery that inserted it is
the only one to work on the event.

**SegmentAdmin.** `TypeOK` is inductive as it stands; that an edge joins two existing
segments rests on the foreign keys. What holds of rules and edges is proved in
`SegmentCascade`, beside the consumer.

**SegmentCascade.** `NoneMissed` speaks of the system at rest. Its invariant (`CascadeInv`)
says of every state, for a segment `i` that is neither lapped nor unsettled: what `i` has
not seen of a parent `q` is *tended* (`StaleTended`). Tended means that a message of `q` is
queued; or that boot or a request will store the edges of `i` and evaluate it, or delete it
(`Owes`); or that the consumer is on its way to `i` with a message of `q` (`Brings`); or
that an evaluation of `i` will read `q`, or has read it since it changed (`WillRead`). The
steps that make this work:

* `Lookup` finds `i`, because its edges are there or somebody will store them
  (`EdgesKept`). This is what makes it harmless that a message may be looked up before the
  edges are stored: whoever stores them reads the members afterwards.
* `Commit` ends an evaluation that may have missed something. What it missed is tended by
  somebody else (`BehindTended`), or the segment becomes lapped.
* A consumer that throws has its message back in the queue, and whoever else throws makes
  what he tended unsettled.

`EdgesKept` says more than `Lookup` needs: the edges of `i` are those of its rule to
segments that are not deleted, no more and no less, or somebody owes them. At rest nobody
owes anything, and that is `EdgesSettled`.

`RebuildRepairs` has an invariant of its own (`RebuildInv`): while the boot rebuild runs, a
dynamic segment has the edges of its rule, or is still in the order, or is the one being
evaluated and its edges are not stored (`Due`). No request runs beside the boot rebuild, so
rules and segments stay; the consumer may store edges, but from the same rules. A rebuild
that throws ends without getting to its end.

Nothing is assumed of the rules or of the number of requests: cycles and references to
deleted segments are allowed, so the theorems also hold where `RulesResolve` does not.

**CampaignFeed.** A step of the composition is a step of `CampaignConsumer` or leaves its
variables alone, so the consumer's invariants carry over. `EachLineOnce` then needs that a
line on the screen was sent (`EntriesSent`), since `AtMostOnce` bars sending it again, and
`Shown` that what was sent is on the screen, unless the feed is full or a notification met
no feed (`SentShown`).

**RealtimeView.** `ViewFresh` is about a page at rest; `Fresh` says of every state, for each
kind whose last GET was not overtaken: if that GET is on its way, what it will show
(`Awaited`), if not, what is shown (`Shows`) is up to date, or an event of the segment is on
the wire and will ask again (`EventOwed`). It is enough to follow the last GET: an older
answer that comes before it is overwritten, one that comes after it makes the kind
overtaken. `UnblurredCounts` holds in any order of the answers: none of them was
read while an event was on its way, so each carries the size stored (`ReadsCurrent`). It
needs the chain of changes that lies between a count and that size (`CountChain`): the
changes on the wire, in order, lead from the one to the other.

**SimulatorCalls.** `Fits` says what a call can be doing at each await, and how much a bulk
call has left (`Counted`); a step is about one call, so it is enough to show that the call
that moved fits (`OneCall`). `TypeOK` needs it, since `Mark` goes on to the next chunk while
something is left, and `BulkExact` follows from it. `PatchKept` needs that what a call is
about to write has all keys owed (`PatchInv`): true when it has read the profile, and kept
because a write beside it makes nothing owed. `OneCallPerPanel` needs that `mounted` has the
one call of the panel on the page, if it is busy, and that call is not over (`PanelInv`).
`EachWriteSignalled` relates two states: what an endpoint does not list in `touched`, it has
left as it was (`AddedRows`).

**Simulator.** First, what the operators compute, for every input. Induction is on numbers
(`SmallestNumber`: a set of numbers has a least one), on the *set* of levels, positions or
sizes for which a claim holds.

* *Rules.* From the last level of a tree up, each node answers yes or no, and yes exactly if
  all leaves under it are met (`EvaluatorIsRight`). `Valid` is used for all its parts: a
  tree deeper than `MaxDepth` would be cut off, an `and` without children would hold of
  everybody, and an in_segment node whose parent was not collected throws.
* *Rebuild.* `topoSort` goes on as long as a segment is left (`RulesAssumption` has one with
  all parents placed), and puts no segment before its parents. So an evaluation sees its
  parents' new members, and no later one changes them: after n evaluations the first n
  segments are right (`RebuildIsRight`).
* *Metrics.* They are sums over the rows of a customer. A sum over finitely many rows each
  counted at least once is positive exactly if there is a row (`TotalPositive`), and the
  least age is the age of a row, or `Infinity`.

`DriftOnlyByTime` is inductive with little more (`DriftInv`): a call that has written rows
has somebody to mark (`TouchedInv`), so between the write and the signal there is always a
call at `mark`. A flush that takes the signals ends in sync. `DriftOneWay` says of every
state in which nothing is pending that Active Buyers has every customer with a row in its
window, and that whoever is in Risk Group has a row, but none of the last 90 days. A day
takes rows out of a window and never into one, so it keeps both; that needs rows to be
counted at least once (`RowBag`), which a shift and an insert preserve (`OneWayInv`).

`SimulatorCalls` does not know segments, and its steps are all that `Simulator` does to its
variables (`SimulatorImplementsCalls`), so its theorems carry over to the run's
specification (`CallInvariants`).

**Model-checked only**: `Settles`, `Drains`, `Handled`, `WorkedOff` and the fairness part
of `AtLeastOnce`, because liveness is out of the prover's reach. The findings are
counterexamples, which TLC finds. Every invariant that a run checks and finds to hold is
also proved.

## 5. Not modelled

* The interleaving of statements *inside* Postgres transactions (READ COMMITTED), the
  order of commits against `createdAt` beyond "any order".
* Bodies that are not what their type says, unique names, initial members of static
  segments, the values in a profile (no rule reads them).
* Failing HTTP requests in the pages; flash badges, keys of lines and
  texts; the customer list of the simulator panel.
* A restart of the broker, an ack on a closed channel; POST /segments/rebuild.
* The seed's customers and transactions; customers and health endpoints; module wiring.

## 6. Plan

Done, in the order of the plan: `SegmentSync` with its proofs, `EventRelay` and
`EventDelivery` with theirs, `CampaignConsumer` with its proofs, `SegmentAdmin`,
`RealtimeView`; then `SegmentCascade`, `RuleTree` and `Simulator`, `CampaignFeed`, the chain
of rules, and lost events in `RealtimeView`.

What could still be modelled:

1. `SegmentCascade` with the flush and POST /segments/rebuild beside requests, and with the
   members of `SegmentSync` in place of the history variables.
2. `EventDelivery`: topology and ready promise at boot, a broker restart, acks on a closed
   channel.
3. `RealtimeView`: failing requests, paging past the end.

Every safety property of a passing run has a proof. What could be proved next is
`IndInv` of `SegmentSync` for longer chains without faults or flushes.
