---------------------------- MODULE RealtimeView ----------------------------
(***************************************************************************)
(* What a browser shows of the segments.                                   *)
(*                                                                         *)
(* The list page and the detail page load their data over HTTP and then    *)
(* follow the segment.delta events of the RealtimeGateway: a count is      *)
(* changed in place by the size of the delta, the change feed and the      *)
(* member table are fetched again.  An event and a response take their     *)
(* own ways to the browser, and so do two responses: the pages neither     *)
(* cancel a request nor look at which one an answer is for.                *)
(*                                                                         *)
(* The server is here a membership of some size and a number of changes;   *)
(* outbox, queue and socket are one wire.                                  *)
(***************************************************************************)
EXTENDS Integers, Sequences, SequencesExt

CONSTANTS
    Segments,
    NoValue,    \* null, and the answer of a GET not read yet
    PageSize,   \* PAGE_SIZE
    StartSizes, \* members of each segment when the page is opened
    MaxSize,    \* bound on the members of a segment
    MaxGets,    \* bound on GETs under way
    MaxEvents   \* bound on changes, clicks and lost or repeated events

Kinds == {"list", "detail", "feed", "table"}

\* What the GETs of each kind answer.
Sizes == [Segments -> Int]
Headers == [seg : Segments, count : Int]
Feeds == [seg : Segments, version : Nat]
Pages == [seg : Segments, version : Nat, total : Nat]

Answers(k) ==
    CASE k = "list" -> Sizes
      [] k = "detail" -> Headers
      [] k = "feed" -> Feeds
      [] k = "table" -> Pages

ASSUME NoValueAssumption == \A k \in Kinds : NoValue \notin Answers(k)
ASSUME RouteAssumption == "list" \notin Segments
ASSUME StartAssumption == StartSizes \subseteq [Segments -> 0..MaxSize]
ASSUME PageSizeAssumption == PageSize \in Nat \ {0}

VARIABLES
    size,    \* members of each segment, in the database
    version, \* changes of each segment, in the database
    wire,    \* segment.delta events on their way
    route,   \* "list", or the segment of the detail page
    gets,    \* GETs of each kind that have not answered yet, oldest first
    newest,  \* history: what has become of the last GET of each kind
    listed,  \* the counts on the list page
    header,  \* the count on the detail page
    feed,    \* the change feed of the detail page
    table,   \* its member table
    offset,  \* the page the user turned to
    blurred, \* history: an event and a count's GET have overlapped
    missed,  \* history: an event was lost that the page would have applied
    events   \* those so far

server == <<size, version>>
shown == <<listed, header, feed, table>>
vars == <<size, version, wire, route, gets, newest, listed, header, feed,
          table, offset, blurred, missed, events>>

\* What the server answers to a GET.
Answer(k, s) ==
    CASE k = "list" -> size
      [] k = "detail" -> [seg |-> s, count |-> size[s]]
      [] k = "feed" -> [seg |-> s, version |-> version[s]]
      [] k = "table" -> [seg |-> s, version |-> version[s], total |-> size[s]]

Get(s, o) == [seg |-> s, offset |-> o, answer |-> NoValue]

\* GETs sent for the detail page, after those of `sent`.
Load(sent, s, o) == [sent EXCEPT
    !["detail"] = Append(@, Get(s, o)),
    !["feed"] = Append(@, Get(s, o)),
    !["table"] = Append(@, Get(s, o))]

\* GETs of the kinds in K have been sent.
Sent(K) == [k \in Kinds |-> IF k \in K THEN "sent" ELSE newest[k]]
AllSent == [k \in Kinds |-> "sent"]

\* There is room for GETs of the kinds in K.
Room(K) ==
    FoldFunction(LAMBDA g, n : n + Len(g), 0, gets) + Cardinality(K) <= MaxGets

NoGets == [k \in Kinds |-> <<>>]
ListGets == [NoGets EXCEPT !["list"] = <<Get(NoValue, 0)>>]

Init ==
    /\ size \in StartSizes
    /\ version = [s \in Segments |-> 0]
    /\ wire = <<>>
    /\ route \in Segments \cup {"list"}
    /\ gets = IF route = "list" THEN ListGets ELSE Load(NoGets, route, 0)
    /\ newest = AllSent
    /\ listed = NoValue
    /\ header = NoValue
    /\ feed = NoValue
    /\ table = NoValue
    /\ offset = 0
    /\ blurred = FALSE
    /\ missed = FALSE
    /\ events = 0

Bounded == events < MaxEvents /\ events' = events + 1

-----------------------------------------------------------------------------
(* The server. *)

\* A GET for a count has been read and is not back yet.
CountPending == \E k \in {"list", "detail"} : \E i \in DOMAIN gets[k] :
    gets[k][i].answer # NoValue

\* evaluateSegment adds a customer to a segment, or removes one.
Commit(s) ==
    /\ Bounded
    /\ \E change \in {1, -1} :
        /\ size[s] + change \in 0..MaxSize
        /\ size' = [size EXCEPT ![s] = @ + change]
        /\ wire' = Append(wire, [seg |-> s, change |-> change])
    /\ version' = [version EXCEPT ![s] = @ + 1]
    /\ blurred' = (blurred \/ CountPending)
    /\ UNCHANGED <<route, gets, newest, shown, offset, missed>>

\* An event is published a second time.
Republish ==
    /\ wire # <<>>
    /\ Bounded
    /\ wire' = Append(wire, Head(wire))
    /\ blurred' = TRUE
    /\ UNCHANGED <<server, route, gets, newest, shown, offset, missed>>

\* The database is read for a GET.
Read(k) ==
    /\ \E i \in DOMAIN gets[k] :
        /\ gets[k][i].answer = NoValue
        /\ gets' = [gets EXCEPT ![k][i].answer = Answer(k, gets[k][i].seg)]
    /\ blurred' = (blurred \/ (k \in {"list", "detail"} /\ wire # <<>>))
    /\ UNCHANGED <<server, wire, route, newest, shown, offset, missed, events>>

-----------------------------------------------------------------------------
(* The browser: responses.                                                 *)

Show(k, g) ==
    /\ listed' = IF k = "list" THEN g.answer ELSE listed
    /\ header' = IF k = "detail" THEN g.answer ELSE header
    /\ feed' = IF k = "feed" THEN g.answer ELSE feed
    /\ table' = IF k = "table" THEN [page |-> g.answer, offset |-> g.offset]
                ELSE table

\* An answer is shown when it comes, be it of the last GET or of one before.
Respond(k) ==
    /\ \E i \in DOMAIN gets[k] :
        /\ gets[k][i].answer # NoValue
        /\ Show(k, gets[k][i])
        /\ gets' = [gets EXCEPT ![k] = RemoveAt(@, i)]
        /\ newest' = [newest EXCEPT ![k] =
                IF @ # "sent" THEN "overtaken"
                ELSE IF i = Len(gets[k]) THEN "shown" ELSE "sent"]
    /\ UNCHANGED <<server, wire, route, offset, blurred, missed, events>>

-----------------------------------------------------------------------------
(* The browser: events.                                                    *)

\* Mutant: additions only.
ApplyToListAdded(e) ==
    /\ listed' = IF listed = NoValue \/ e.change < 0 THEN listed
                 ELSE [listed EXCEPT ![e.seg] = @ + e.change]
    /\ UNCHANGED <<gets, newest, header>>

ApplyToList(e) ==
    /\ listed' = IF listed = NoValue THEN NoValue
                 ELSE [listed EXCEPT ![e.seg] = @ + e.change]
    /\ UNCHANGED <<gets, newest, header>>

\* Mutant: the table is not fetched again.
ApplyToDetailFeedOnly(e) ==
    /\ header' = IF header = NoValue THEN NoValue
                 ELSE [header EXCEPT !.count = @ + e.change]
    /\ gets' = [gets EXCEPT !["feed"] = Append(@, Get(route, offset))]
    /\ newest' = Sent({"feed"})
    /\ Room({"feed"})
    /\ UNCHANGED listed

ApplyToDetail(e) ==
    /\ header' = IF header = NoValue THEN NoValue
                 ELSE [header EXCEPT !.count = @ + e.change]
    /\ gets' = [gets EXCEPT
                !["feed"] = Append(@, Get(route, offset)),
                !["table"] = Append(@, Get(route, offset))]
    /\ newest' = Sent({"feed", "table"})
    /\ Room({"feed", "table"})
    /\ UNCHANGED listed

Receive ==
    /\ wire # <<>>
    /\ wire' = Tail(wire)
    /\ LET e == Head(wire) IN
        \/ route = "list" /\ ApplyToList(e)
        \/ route = e.seg /\ ApplyToDetail(e)
        \/ route \notin {"list", e.seg} /\ UNCHANGED <<gets, newest, listed, header>>
    /\ UNCHANGED <<server, route, feed, table, offset, blurred, missed, events>>

\* The socket is down when the gateway sends: nothing is kept for later, and
\* nothing is loaded when it is up again.
Miss ==
    /\ wire # <<>>
    /\ Bounded
    /\ wire' = Tail(wire)
    /\ missed' = (missed \/ route \in {"list", Head(wire).seg})
    /\ UNCHANGED <<server, route, gets, newest, shown, offset, blurred>>

-----------------------------------------------------------------------------
(* The user. *)

Act ==
    /\ Bounded
    /\ UNCHANGED <<server, wire, blurred>>

\* What the page loads now includes the changes it has missed.
Reloaded == Act /\ missed' = FALSE

\* Mutant: the page that is left stays subscribed to its responses.
OpenListSubscribed ==
    /\ Reloaded
    /\ route # "list"
    /\ route' = "list"
    /\ gets' = [gets EXCEPT !["list"] = <<Get(NoValue, 0)>>]
    /\ newest' = AllSent
    /\ listed' = NoValue
    /\ offset' = 0
    /\ UNCHANGED <<header, feed, table>>

\* A page that is left is destroyed, and no response reaches it any more.
OpenList ==
    /\ Reloaded
    /\ route # "list"
    /\ route' = "list"
    /\ gets' = ListGets
    /\ newest' = AllSent
    /\ listed' = NoValue
    /\ header' = NoValue
    /\ feed' = NoValue
    /\ table' = NoValue
    /\ offset' = 0

\* From detail page to detail page the component stays, its data and its
\* GETs with it.
OpenDetail(s) ==
    /\ Reloaded
    /\ route # s
    /\ Room(Kinds \ {"list"})
    /\ route' = s
    /\ offset' = 0
    /\ listed' = NoValue
    /\ gets' = Load(IF route = "list" THEN NoGets ELSE gets, s, 0)
    /\ newest' = AllSent
    /\ UNCHANGED <<header, feed, table>>

\* The simulator panel reports that a call is done.
RefreshList ==
    /\ Reloaded
    /\ route = "list"
    /\ Room({"list"})
    /\ gets' = [gets EXCEPT !["list"] = Append(@, Get(NoValue, 0))]
    /\ newest' = AllSent
    /\ UNCHANGED <<route, shown, offset>>

\* The forced evaluation is done: load() with what is shown by then.
Reload ==
    /\ Reloaded
    /\ route # "list"
    /\ Room(Kinds \ {"list"})
    /\ gets' = Load(gets, route, offset)
    /\ newest' = AllSent
    /\ UNCHANGED <<route, shown, offset>>

TurnTo(o) ==
    /\ Room({"table"})
    /\ offset' = o
    /\ gets' = [gets EXCEPT !["table"] = Append(@, Get(route, o))]
    /\ newest' = Sent({"table"})
    /\ UNCHANGED <<route, shown, missed>>

HasNextPage ==
    table # NoValue /\ table.offset + PageSize < table.page.total

NextPage == Act /\ HasNextPage /\ TurnTo(offset + PageSize)

\* There is no pager under an empty page.
PrevPage ==
    /\ Act
    /\ table # NoValue
    /\ table.offset < table.page.total
    /\ offset # 0
    /\ TurnTo(IF offset < PageSize THEN 0 ELSE offset - PageSize)

-----------------------------------------------------------------------------
Next ==
    \/ \E s \in Segments : Commit(s) \/ OpenDetail(s)
    \/ Republish
    \/ \E k \in Kinds : Read(k) \/ Respond(k)
    \/ Receive
    \/ Miss
    \/ OpenList
    \/ RefreshList
    \/ Reload
    \/ NextPage
    \/ PrevPage

Spec == Init /\ [][Next]_vars

-----------------------------------------------------------------------------
(* Properties. *)

\* A GET on its way, and its answer once it is read.
Requests(k) == [
    seg : IF k = "list" THEN {NoValue} ELSE Segments,
    offset : Nat,
    answer : Answers(k) \cup {NoValue}]

TypeOK ==
    /\ size \in [Segments -> 0..MaxSize]
    /\ version \in [Segments -> Nat]
    /\ wire \in Seq([seg : Segments, change : {1, -1}])
    /\ route \in Segments \cup {"list"}
    /\ DOMAIN gets = Kinds
    /\ \A k \in Kinds : gets[k] \in Seq(Requests(k))
    /\ newest \in [Kinds -> {"sent", "shown", "overtaken"}]
    /\ \A k \in Kinds : k = "list" /\ route # "list" => gets[k] = <<>>
    /\ \A k \in Kinds : k # "list" /\ route = "list" => gets[k] = <<>>
    /\ listed = NoValue \/ listed \in Sizes
    /\ header = NoValue \/ header \in Headers
    /\ feed = NoValue \/ feed \in Feeds
    /\ table = NoValue \/ table \in [page : Pages, offset : Nat]
    /\ route = "list" => header = NoValue /\ feed = NoValue /\ table = NoValue
    /\ offset \in Nat
    /\ blurred \in BOOLEAN
    /\ missed \in BOOLEAN

\* No event and no response is on its way to the browser.
Rest == wire = <<>> /\ \A k \in Kinds : gets[k] = <<>>

(* When nothing is on its way, the detail page shows the segment of its    *)
(* address, not one looked at before; the change feed has the latest       *)
(* change, and the table the page the user turned to, as it is now.        *)
(* Except for what was overtaken: an answer to an earlier GET that comes   *)
(* after that to the last one is shown, and stays.                         *)
ViewFresh == Rest /\ ~missed /\ route # "list" =>
    /\ newest["detail"] = "shown" => header.seg = route
    /\ newest["feed"] = "shown" => feed = Answer("feed", route)
    /\ newest["table"] = "shown" =>
        table = [page |-> Answer("table", route), offset |-> offset]

\* The header may be that of a segment looked at before.
CountsRight ==
    IF route = "list" THEN listed = size
    ELSE header.seg = route => header.count = size[route]

(* A count kept by adding up deltas is right when nothing is on its way,   *)
(* in whatever order the answers came, unless an event came twice, or was  *)
(* under way while the count was read.  On the detail page: if the header  *)
(* is that of the page's segment (see ViewFresh).                          *)
UnblurredCounts == Rest /\ ~blurred /\ ~missed => CountsRight
=============================================================================
