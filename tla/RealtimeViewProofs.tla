------------------------- MODULE RealtimeViewProofs -------------------------
(***************************************************************************)
(* RealtimeView's invariants for any segments, any page size and any       *)
(* number of changes, clicks and lost or repeated events.                  *)
(***************************************************************************)
EXTENDS RealtimeView, SequenceTheorems, TLAPS

PageKinds == {"detail", "feed", "table"}
-----------------------------------------------------------------------------
(* Type correctness. *)

LEMMA AnswerTypes ==
    ASSUME TypeOK
    PROVE  /\ Answer("list", NoValue) \in Answers("list")
           /\ \A s \in Segments, k \in PageKinds : Answer(k, s) \in Answers(k)
<1>1. size \in [Segments -> Int] /\ size \in [Segments -> Nat]
    BY DEF TypeOK
<1> QED BY <1>1 DEF TypeOK, Answer, Answers, PageKinds, Sizes, Headers, Feeds,
                    Pages

LEMMA RequestTypes ==
    ASSUME NEW o \in Nat
    PROVE  /\ Get(NoValue, 0) \in Requests("list")
           /\ \A s \in Segments, k \in PageKinds : Get(s, o) \in Requests(k)
BY DEF Get, Requests, PageKinds

\* What TypeOK says of the GETs: those of the page that is open, and no
\* others.
GetsTyped(g, r) ==
    /\ DOMAIN g = Kinds
    /\ g["list"] \in Seq(Requests("list"))
    /\ \A k \in PageKinds : g[k] \in Seq(Requests(k))
    /\ r # "list" => g["list"] = <<>>
    /\ r = "list" => \A k \in PageKinds : g[k] = <<>>

LEMMA GetsTypes ==
    ASSUME NEW g, NEW r
    PROVE  GetsTyped(g, r) <=>
            /\ DOMAIN g = Kinds
            /\ \A k \in Kinds : g[k] \in Seq(Requests(k))
            /\ \A k \in Kinds : k = "list" /\ r # "list" => g[k] = <<>>
            /\ \A k \in Kinds : k # "list" /\ r = "list" => g[k] = <<>>
BY DEF GetsTyped, Kinds, PageKinds

LEMMA LoadTypes ==
    ASSUME NEW sent, DOMAIN sent = Kinds, NEW s \in Segments, NEW o \in Nat,
           \A k \in PageKinds : sent[k] \in Seq(Requests(k))
    PROVE  /\ DOMAIN Load(sent, s, o) = Kinds
           /\ Load(sent, s, o)["list"] = sent["list"]
           /\ \A k \in PageKinds :
                /\ Load(sent, s, o)[k] = Append(sent[k], Get(s, o))
                /\ Load(sent, s, o)[k] \in Seq(Requests(k))
<1>1. /\ DOMAIN Load(sent, s, o) = Kinds
      /\ Load(sent, s, o)["list"] = sent["list"]
      /\ \A k \in PageKinds : Load(sent, s, o)[k] = Append(sent[k], Get(s, o))
    BY DEF Load, Kinds, PageKinds
<1>2. \A k \in PageKinds : Append(sent[k], Get(s, o)) \in Seq(Requests(k))
    BY RequestTypes
<1> QED BY <1>1, <1>2

LEMMA NoGetsTypes == \A r : GetsTyped(NoGets, r) /\ GetsTyped(ListGets, "list")
<1>1. <<Get(NoValue, 0)>> \in Seq(Requests("list"))
    BY RequestTypes
<1>2. \A S : <<>> \in Seq(S)
    OBVIOUS
<1> QED BY <1>1, <1>2 DEF GetsTyped, NoGets, ListGets, Kinds, PageKinds

\* The rest of TypeOK.
PageTyped ==
    /\ size \in [Segments -> 0..MaxSize]
    /\ version \in [Segments -> Nat]
    /\ wire \in Seq([seg : Segments, change : {1, -1}])
    /\ route \in Segments \cup {"list"}
    /\ newest \in [Kinds -> {"sent", "shown", "overtaken"}]
    /\ listed = NoValue \/ listed \in Sizes
    /\ header = NoValue \/ header \in Headers
    /\ feed = NoValue \/ feed \in Feeds
    /\ table = NoValue \/ table \in [page : Pages, offset : Nat]
    /\ route = "list" => header = NoValue /\ feed = NoValue /\ table = NoValue
    /\ offset \in Nat
    /\ blurred \in BOOLEAN
    /\ missed \in BOOLEAN

LEMMA TypeParts == TypeOK <=> PageTyped /\ GetsTyped(gets, route)
BY GetsTypes DEF TypeOK, PageTyped

LEMMA TypePartsPrimed == TypeOK' <=> PageTyped' /\ GetsTyped(gets', route')
BY GetsTypes DEF TypeOK, PageTyped

LEMMA TypeInit == Init => TypeOK
<1> SUFFICES ASSUME Init PROVE TypeOK
    OBVIOUS
<1>1. PageTyped
  <2>1. <<>> \in Seq([seg : Segments, change : {1, -1}])
      OBVIOUS
  <2>2. size \in [Segments -> 0..MaxSize]
      BY StartAssumption DEF Init
  <2> QED BY <2>1, <2>2 DEF Init, PageTyped, AllSent
<1>2. CASE route = "list"
    BY <1>1, <1>2, NoGetsTypes, TypeParts DEF Init
<1>3. CASE route # "list"
  <2>1. route \in Segments /\ gets = Load(NoGets, route, 0)
      BY <1>3 DEF Init
  <2>2. GetsTyped(NoGets, route)
      BY NoGetsTypes
  <2>3. GetsTyped(gets, route)
      BY <1>3, <2>1, <2>2, LoadTypes DEF GetsTyped
  <2> QED BY <1>1, <2>3, TypeParts
<1> QED BY <1>2, <1>3

LEMMA CommitTypes ==
    ASSUME TypeOK, NEW s \in Segments, Commit(s) PROVE TypeOK'
<1> DEFINE E == [seg : Segments, change : {1, -1}]
<1>1. PICK change \in {1, -1} :
        /\ size[s] + change \in 0..MaxSize
        /\ size' = [size EXCEPT ![s] = @ + change]
        /\ wire' = Append(wire, [seg |-> s, change |-> change])
    BY DEF Commit
<1>2. [seg |-> s, change |-> change] \in E /\ wire \in Seq(E)
    BY DEF TypeOK
<1>3. wire' \in Seq(E)
  <2> HIDE DEF E
  <2> QED BY <1>1, <1>2
<1>4. size' \in [Segments -> 0..MaxSize] /\ version' \in [Segments -> Nat]
    BY <1>1 DEF Commit, TypeOK
<1>5. blurred' \in BOOLEAN
    BY DEF Commit, CountPending, TypeOK
<1> QED BY <1>3, <1>4, <1>5 DEF Commit, TypeOK, shown

LEMMA WireTypes ==
    ASSUME wire \in Seq([seg : Segments, change : {1, -1}]), wire # <<>>
    PROVE  /\ Head(wire) \in [seg : Segments, change : {1, -1}]
           /\ Tail(wire) \in Seq([seg : Segments, change : {1, -1}])
           /\ Append(wire, Head(wire)) \in Seq([seg : Segments, change : {1, -1}])
<1> DEFINE E == [seg : Segments, change : {1, -1}]
<1> SUFFICES /\ Head(wire) \in E
             /\ Tail(wire) \in Seq(E)
             /\ Append(wire, Head(wire)) \in Seq(E)
    OBVIOUS
<1>1. wire \in Seq(E)
    OBVIOUS
<1> HIDE DEF E
<1> QED BY <1>1

LEMMA ReadTypes ==
    ASSUME TypeOK, NEW k \in Kinds, Read(k) PROVE TypeOK'
<1>1. PICK i \in DOMAIN gets[k] :
        gets' = [gets EXCEPT ![k][i].answer = Answer(k, gets[k][i].seg)]
    BY DEF Read
<1>2. gets[k] \in Seq(Requests(k)) /\ DOMAIN gets = Kinds
    BY DEF TypeOK
<1>3. i \in 1..Len(gets[k]) /\ gets[k][i] \in Requests(k)
    BY <1>1, <1>2
<1>4. Answer(k, gets[k][i].seg) \in Answers(k)
    BY <1>3, AnswerTypes DEF Requests, Kinds, PageKinds
<1> DEFINE g == [gets[k][i] EXCEPT !.answer = Answer(k, gets[k][i].seg)]
<1>5. g \in Requests(k)
    BY <1>3, <1>4 DEF Requests
<1>6. /\ DOMAIN gets' = Kinds
      /\ gets'[k] = [gets[k] EXCEPT ![i] = g]
      /\ \A l \in Kinds \ {k} : gets'[l] = gets[l]
    BY <1>1, <1>2
<1> HIDE DEF g
<1>7. gets'[k] \in Seq(Requests(k)) /\ (gets[k] = <<>> => gets'[k] = <<>>)
    BY <1>2, <1>3, <1>5, <1>6
<1>8. route' = route
    BY DEF Read
<1>9. GetsTyped(gets', route')
    BY <1>6, <1>7, <1>8, GetsTypes DEF TypeOK
<1>10. PageTyped'
    BY DEF Read, TypeOK, PageTyped, server, shown
<1> QED BY <1>9, <1>10, TypePartsPrimed

\* What is left of a sequence without one element.
LEMMA Removed ==
    ASSUME NEW S, NEW s \in Seq(S), NEW i \in 1..Len(s)
    PROVE  /\ RemoveAt(s, i) \in Seq(S)
           /\ Len(RemoveAt(s, i)) = Len(s) - 1
           /\ \A j \in 1..(Len(s) - 1) :
                RemoveAt(s, i)[j] = IF j < i THEN s[j] ELSE s[j + 1]
<1> DEFINE a == SubSeq(s, 1, i - 1)
           b == SubSeq(s, i + 1, Len(s))
<1>1. a \in Seq(S) /\ Len(a) = i - 1 /\ \A j \in 1..(i - 1) : a[j] = s[j]
    OBVIOUS
<1>2. /\ b \in Seq(S) /\ Len(b) = Len(s) - i
      /\ \A j \in 1..(Len(s) - i) : b[j] = s[i + j]
    OBVIOUS
<1>3. RemoveAt(s, i) = a \o b
    BY DEF RemoveAt
<1> HIDE DEF a, b
<1>4. RemoveAt(s, i) \in Seq(S) /\ Len(RemoveAt(s, i)) = Len(s) - 1
    BY <1>1, <1>2, <1>3
<1>5. ASSUME NEW j \in 1..(Len(s) - 1)
      PROVE  RemoveAt(s, i)[j] = IF j < i THEN s[j] ELSE s[j + 1]
  <2>1. CASE j < i
      BY <1>1, <1>2, <1>3, <2>1
  <2>2. CASE ~(j < i)
    <3>1. (a \o b)[j] = b[j - (i - 1)]
        BY <1>1, <1>2, <2>2
    <3>2. j - (i - 1) \in 1..(Len(s) - i) /\ i + (j - (i - 1)) = j + 1
        BY <2>2
    <3> QED BY <1>2, <1>3, <2>2, <3>1, <3>2
  <2> QED BY <2>1, <2>2
<1> QED BY <1>4, <1>5

LEMMA RespondTypes ==
    ASSUME TypeOK, NEW k \in Kinds, Respond(k) PROVE TypeOK'
<1>1. /\ gets[k] \in Seq(Requests(k)) /\ DOMAIN gets = Kinds
      /\ DOMAIN gets[k] = 1..Len(gets[k])
    BY DEF TypeOK
<1>2. PICK i \in DOMAIN gets[k] :
        /\ gets[k][i].answer # NoValue
        /\ Show(k, gets[k][i])
        /\ gets' = [gets EXCEPT ![k] = RemoveAt(@, i)]
        /\ newest' = [newest EXCEPT ![k] =
                IF @ # "sent" THEN "overtaken"
                ELSE IF i = Len(gets[k]) THEN "shown" ELSE "sent"]
    BY DEF Respond
<1> DEFINE g == gets[k][i]
<1>3. g \in Requests(k) /\ RemoveAt(gets[k], i) \in Seq(Requests(k))
      /\ gets[k] # <<>>
    BY <1>1, <1>2, Removed
<1>4. g.answer \in Answers(k) /\ g.offset \in Nat
    BY <1>2, <1>3 DEF Requests
<1>5. /\ DOMAIN gets' = Kinds
      /\ gets'[k] = RemoveAt(gets[k], i)
      /\ \A l \in Kinds \ {k} : gets'[l] = gets[l]
      /\ route' = route
    BY <1>1, <1>2 DEF Respond
<1>6. GetsTyped(gets', route')
    BY <1>1, <1>3, <1>5, GetsTypes DEF TypeOK
<1>7. newest' \in [Kinds -> {"sent", "shown", "overtaken"}]
    BY <1>2 DEF TypeOK
<1> HIDE DEF g
<1>8. /\ listed' = IF k = "list" THEN g.answer ELSE listed
      /\ header' = IF k = "detail" THEN g.answer ELSE header
      /\ feed' = IF k = "feed" THEN g.answer ELSE feed
      /\ table' = IF k = "table" THEN [page |-> g.answer, offset |-> g.offset]
                  ELSE table
    BY <1>2 DEF Show, g
<1>9. /\ listed' = NoValue \/ listed' \in Sizes
      /\ header' = NoValue \/ header' \in Headers
      /\ feed' = NoValue \/ feed' \in Feeds
      /\ table' = NoValue \/ table' \in [page : Pages, offset : Nat]
    BY <1>4, <1>8 DEF Answers, TypeOK
<1>10. route = "list" => k = "list"
    BY <1>3 DEF TypeOK
<1>11. route' = "list" => header' = NoValue /\ feed' = NoValue /\ table' = NoValue
    BY <1>5, <1>8, <1>10 DEF TypeOK
<1>12. PageTyped'
    BY <1>7, <1>9, <1>11 DEF Respond, PageTyped, TypeOK, server
<1> QED BY <1>6, <1>12, TypePartsPrimed

\* Further GETs of the detail page.
LEMMA AskTypes ==
    ASSUME TypeOK, route \in Segments, NEW S \in SUBSET PageKinds,
           NEW o \in Nat, NEW g,
           DOMAIN g = Kinds,
           \A k \in Kinds : g[k] = IF k \in S THEN Append(gets[k], Get(route, o))
                                  ELSE gets[k]
    PROVE  GetsTyped(g, route)
<1>1. \A k \in S : Append(gets[k], Get(route, o)) \in Seq(Requests(k))
  <2> SUFFICES ASSUME NEW k \in S
               PROVE  Append(gets[k], Get(route, o)) \in Seq(Requests(k))
      OBVIOUS
  <2>1. k \in Kinds /\ k \in PageKinds
      BY DEF Kinds, PageKinds
  <2>2. gets[k] \in Seq(Requests(k)) /\ Get(route, o) \in Requests(k)
      BY <2>1, RequestTypes DEF TypeOK
  <2> QED BY <2>2
<1>2. GetsTyped(gets, route) /\ route # "list"
    BY RouteAssumption, TypeParts
<1>3. g["list"] = gets["list"] /\ PageKinds \subseteq Kinds
    BY DEF Kinds, PageKinds
<1>4. ASSUME NEW k \in PageKinds PROVE g[k] \in Seq(Requests(k))
    BY <1>1, <1>2, <1>3 DEF GetsTyped
<1> QED BY <1>2, <1>3, <1>4 DEF GetsTyped

LEMMA ReceiveTypes ==
    ASSUME TypeOK, Receive PROVE TypeOK'
<1> DEFINE e == Head(wire)
<1>1. e \in [seg : Segments, change : {1, -1}] /\ wire' \in Seq([seg : Segments, change : {1, -1}])
    BY WireTypes DEF TypeOK, Receive
<1>2. e.seg \in Segments /\ e.change \in Int
    BY <1>1
<1> HIDE DEF e
<1>3. /\ route' = route
      /\ UNCHANGED <<size, version, feed, table, offset, blurred, missed>>
    BY DEF Receive, server
<1>4. CASE route = "list" /\ ApplyToList(e)
  <2>1. listed' = NoValue \/ listed' \in Sizes
    <3>1. CASE listed = NoValue
        BY <1>4, <3>1 DEF ApplyToList
    <3>2. CASE listed # NoValue
      <4>1. listed \in [Segments -> Int]
          BY <3>2 DEF TypeOK, Sizes
      <4>2. listed[e.seg] + e.change \in Int
          BY <1>2, <4>1
      <4>3. listed' = [listed EXCEPT ![e.seg] = listed[e.seg] + e.change]
          BY <1>4, <3>2 DEF ApplyToList
      <4> QED BY <1>2, <4>1, <4>2, <4>3 DEF Sizes
    <3> QED BY <3>1, <3>2
  <2> QED BY <1>1, <1>3, <1>4, <2>1 DEF ApplyToList, TypeOK
<1>5. CASE route = e.seg /\ ApplyToDetail(e)
  <2>1. header' = NoValue \/ header' \in Headers
      BY <1>2, <1>5 DEF ApplyToDetail, TypeOK, Headers
  <2>2. GetsTyped(gets', route)
    <3>1. /\ DOMAIN gets' = Kinds
          /\ \A k \in Kinds : gets'[k] =
                IF k \in {"feed", "table"} THEN Append(gets[k], Get(route, offset))
                ELSE gets[k]
        BY <1>5 DEF ApplyToDetail, TypeOK, Kinds
    <3>2. route \in Segments /\ offset \in Nat
        BY <1>2, <1>5 DEF TypeOK
    <3>3. {"feed", "table"} \subseteq PageKinds
        BY DEF PageKinds
    <3> HIDE <1>5
    <3> QED BY <3>1, <3>2, <3>3, AskTypes
  <2>3. route' # "list"
      BY <1>2, <1>3, <1>5, RouteAssumption
  <2>4. PageTyped'
      BY <1>1, <1>3, <1>5, <2>1, <2>3 DEF ApplyToDetail, TypeOK, PageTyped, Sent
  <2> QED BY <1>3, <2>2, <2>4, TypePartsPrimed
<1>6. CASE UNCHANGED <<gets, newest, listed, header>>
    BY <1>1, <1>3, <1>6 DEF TypeOK
<1> QED BY <1>4, <1>5, <1>6 DEF Receive, e

\* Steps of the user that keep the page.
LEMMA TurnTypes ==
    ASSUME TypeOK, Act, route # "list", NEW o \in Nat, TurnTo(o) PROVE TypeOK'
<1>1. /\ DOMAIN gets' = Kinds
      /\ \A k \in Kinds : gets'[k] =
            IF k \in {"table"} THEN Append(gets[k], Get(route, o)) ELSE gets[k]
    BY DEF TurnTo, TypeOK, Kinds
<1>2. route \in Segments /\ route' = route /\ {"table"} \subseteq PageKinds
    BY DEF TypeOK, TurnTo, PageKinds
<1>3. GetsTyped(gets', route')
    BY <1>1, <1>2, AskTypes
<1>4. PageTyped'
    BY DEF Act, TurnTo, TypeOK, PageTyped, Sent, server, shown
<1> QED BY <1>3, <1>4, TypePartsPrimed

LEMMA OpenTypes ==
    ASSUME TypeOK, OpenList \/ \E s \in Segments : OpenDetail(s) PROVE TypeOK'
<1>1. CASE OpenList
  <2>1. GetsTyped(gets', route')
      BY <1>1, NoGetsTypes DEF OpenList
  <2>2. PageTyped'
      BY <1>1 DEF OpenList, Reloaded, Act, TypeOK, PageTyped, AllSent, server
  <2> QED BY <2>1, <2>2, TypePartsPrimed
<1>2. ASSUME NEW s \in Segments, OpenDetail(s) PROVE TypeOK'
  <2>1. PICK sent : /\ sent \in {NoGets, gets}
                    /\ route = "list" => sent = NoGets
                    /\ gets' = Load(sent, s, 0)
      BY <1>2 DEF OpenDetail
  <2>2. GetsTyped(sent, s)
      BY <2>1, NoGetsTypes, TypeParts, RouteAssumption DEF GetsTyped
  <2>3. GetsTyped(gets', route')
      BY <1>2, <2>1, <2>2, LoadTypes, RouteAssumption DEF GetsTyped, OpenDetail
  <2>4. PageTyped'
      BY <1>2, RouteAssumption
      DEF OpenDetail, Reloaded, Act, TypeOK, PageTyped, AllSent, server
  <2> QED BY <2>3, <2>4, TypePartsPrimed
<1> QED BY <1>1, <1>2

LEMMA TypeStep == TypeOK /\ [Next]_vars => TypeOK'
<1> SUFFICES ASSUME TypeOK, [Next]_vars PROVE TypeOK'
    OBVIOUS
<1>1. CASE Republish
  <2>1. wire' \in Seq([seg : Segments, change : {1, -1}])
      BY <1>1, WireTypes DEF Republish, TypeOK
  <2> QED BY <1>1, <2>1 DEF Republish, TypeOK, server, shown
<1>2. CASE Miss
  <2>1. wire' \in Seq([seg : Segments, change : {1, -1}])
      BY <1>2, WireTypes DEF Miss, TypeOK
  <2> QED BY <1>2, <2>1 DEF Miss, TypeOK, server, shown
<1>3. CASE RefreshList
  <2>1. /\ DOMAIN gets' = Kinds /\ route' = "list" /\ route = "list"
        /\ gets'["list"] = Append(gets["list"], Get(NoValue, 0))
        /\ \A k \in PageKinds : gets'[k] = gets[k]
      BY <1>3 DEF RefreshList, TypeOK, Kinds, PageKinds
  <2>2. gets["list"] \in Seq(Requests("list"))
      BY DEF TypeOK, Kinds
  <2>3. gets'["list"] \in Seq(Requests("list"))
      BY <2>1, <2>2, RequestTypes
  <2>4. GetsTyped(gets', route')
      BY <2>1, <2>3, TypeParts DEF GetsTyped
  <2>5. PageTyped'
      BY <1>3 DEF RefreshList, Reloaded, Act, TypeOK, PageTyped, AllSent,
                    server, shown
  <2> QED BY <2>4, <2>5, TypePartsPrimed
<1>4. CASE Reload
  <2>1. route \in Segments /\ route # "list" /\ offset \in Nat /\ route' = route
      BY <1>4 DEF Reload, TypeOK
  <2>2. GetsTyped(gets, route)
      BY TypeParts
  <2>3. gets' = Load(gets, route, offset)
      BY <1>4 DEF Reload
  <2>4. GetsTyped(gets', route')
      BY <2>1, <2>2, <2>3, LoadTypes DEF GetsTyped
  <2>5. PageTyped'
      BY <1>4 DEF Reload, Reloaded, Act, TypeOK, PageTyped, AllSent, server,
                    shown
  <2> QED BY <2>4, <2>5, TypePartsPrimed
<1>5. ASSUME NextPage \/ PrevPage PROVE TypeOK'
  <2>1. route # "list"
      BY <1>5 DEF NextPage, HasNextPage, PrevPage, TypeOK
  <2>2. offset \in Nat /\ offset + PageSize \in Nat
      BY PageSizeAssumption DEF TypeOK
  <2>3. (IF offset < PageSize THEN 0 ELSE offset - PageSize) \in Nat
      BY PageSizeAssumption, <2>2
  <2> QED BY <1>5, <2>1, <2>2, <2>3, TurnTypes DEF NextPage, PrevPage
<1>6. CASE UNCHANGED vars
    BY <1>6 DEF vars, TypeOK
<1> QED BY <1>1, <1>2, <1>3, <1>4, <1>5, <1>6, CommitTypes, ReadTypes,
           RespondTypes, ReceiveTypes, OpenTypes DEF Next

\* A page only has answers of its kinds of GETs and only waits for those; one
\* that was left holds nothing.
THEOREM TypeCorrect == Spec => []TypeOK
BY TypeInit, TypeStep, PTL DEF Spec
-----------------------------------------------------------------------------
(* What the page shows of an answer to the last GET of a kind, or will show *)
(* if it comes before any other to come.                                   *)

Latest(k) == gets[k][Len(gets[k])]

\* An event is on its way that makes the page load its feed and table again.
EventOwed == \E i \in 1..Len(wire) : wire[i].seg = route

Shows(k) ==
    IF k = "feed" THEN feed = Answer("feed", route)
    ELSE table = [page |-> Answer("table", route), offset |-> offset]

\* The last GET is for what the page is to show, and what it has read is of
\* now.
Awaited(k) ==
    /\ gets[k] # <<>>
    /\ Latest(k).seg = route
    /\ k = "table" => Latest(k).offset = offset
    /\ Latest(k).answer \in {NoValue, Answer(k, route)}

\* The feed and the table are as the server has them, or will be, unless they
\* were overtaken.
Fresh(k) == route # "list" /\ ~missed =>
    \/ EventOwed
    \/ /\ newest[k] = "sent" => Awaited(k)
       /\ newest[k] = "shown" => Shows(k)

\* The header is of the segment of the address, or will be, unless it was
\* overtaken.
HeaderInPlace ==
    /\ \A i \in 1..Len(gets["detail"]) :
        gets["detail"][i].answer # NoValue =>
            gets["detail"][i].answer.seg = gets["detail"][i].seg
    /\ route # "list" =>
        IF newest["detail"] = "sent"
        THEN gets["detail"] # <<>> /\ Latest("detail").seg = route
        ELSE /\ header # NoValue
             /\ newest["detail"] = "shown" => header.seg = route

LEMMA AppendLast ==
    ASSUME NEW S, NEW s \in Seq(S), NEW x \in S
    PROVE  /\ Append(s, x) # <<>>
           /\ Append(s, x)[Len(Append(s, x))] = x
OBVIOUS

\* Asking once more makes the newest GET one for what the page wants.
LEMMA Asked ==
    ASSUME NEW k \in PageKinds, NEW sent \in Seq(Requests(k)),
           route' \in Segments, offset' \in Nat, NEW o \in Nat,
           gets'[k] = Append(sent, Get(route', o))
    PROVE  /\ gets'[k] # <<>>
           /\ Latest(k)'.seg = route'
           /\ Latest(k)'.offset = o
           /\ Latest(k)'.answer = NoValue
<1>1. Get(route', o) \in Requests(k)
    BY RequestTypes
<1>2. gets'[k] # <<>> /\ Latest(k)' = Get(route', o)
    BY <1>1, AppendLast DEF Latest
<1> QED BY <1>2 DEF Get

\* A GET that is read keeps its place, its segment and its page.
LEMMA ReadEffect ==
    ASSUME TypeOK, NEW k \in Kinds, Read(k)
    PROVE  \E i \in 1..Len(gets[k]) :
            /\ gets[k][i].answer = NoValue
            /\ Len(gets'[k]) = Len(gets[k])
            /\ gets'[k][i].seg = gets[k][i].seg
            /\ gets'[k][i].offset = gets[k][i].offset
            /\ gets'[k][i].answer = Answer(k, gets[k][i].seg)
            /\ \A j \in 1..Len(gets[k]) : j # i => gets'[k][j] = gets[k][j]
            /\ \A l \in Kinds \ {k} : gets'[l] = gets[l]
            /\ gets[k] # <<>> /\ gets'[k] # <<>>
<1>1. PICK i \in DOMAIN gets[k] :
        /\ gets[k][i].answer = NoValue
        /\ gets' = [gets EXCEPT ![k][i].answer = Answer(k, gets[k][i].seg)]
    BY DEF Read
<1>2. gets[k] \in Seq(Requests(k)) /\ DOMAIN gets = Kinds
    BY DEF TypeOK
<1>3. i \in 1..Len(gets[k]) /\ gets[k][i] \in Requests(k)
    BY <1>1, <1>2
<1> DEFINE g == [gets[k][i] EXCEPT !.answer = Answer(k, gets[k][i].seg)]
<1>4. /\ g.seg = gets[k][i].seg /\ g.offset = gets[k][i].offset
      /\ g.answer = Answer(k, gets[k][i].seg)
    BY <1>3 DEF Requests
<1>5. /\ gets'[k] = [gets[k] EXCEPT ![i] = g]
      /\ \A l \in Kinds \ {k} : gets'[l] = gets[l]
    BY <1>1, <1>2
<1> HIDE DEF g
<1>6. Len(gets'[k]) = Len(gets[k]) /\ gets[k] # <<>> /\ gets'[k] # <<>>
    BY <1>2, <1>3, <1>5
<1>7. gets'[k][i] = g /\ \A j \in 1..Len(gets[k]) : j # i => gets'[k][j] = gets[k][j]
    BY <1>2, <1>3, <1>5
<1> QED BY <1>1, <1>3, <1>4, <1>5, <1>6, <1>7

\* A GET is answered: the last one is then shown, stays the last one, or is
\* overtaken.
LEMMA RespondEffect ==
    ASSUME TypeOK, NEW k \in Kinds, Respond(k)
    PROVE  /\ \A l \in Kinds \ {k} : gets'[l] = gets[l] /\ newest'[l] = newest[l]
           /\ UNCHANGED <<wire, route, offset, missed, blurred, size, version>>
           /\ \A j \in 1..Len(gets'[k]) : \E m \in 1..Len(gets[k]) :
                gets'[k][j] = gets[k][m]
           /\ \E i \in 1..Len(gets[k]) :
                /\ gets[k][i].answer # NoValue
                /\ Show(k, gets[k][i])
                /\ newest'[k] = "sent" => /\ newest[k] = "sent"
                                          /\ gets'[k] # <<>>
                                          /\ Latest(k)' = Latest(k)
                /\ newest'[k] = "shown" => /\ newest[k] = "sent"
                                           /\ gets[k][i] = Latest(k)
           /\ gets[k] # <<>>
<1>1. /\ gets[k] \in Seq(Requests(k)) /\ DOMAIN gets = Kinds
      /\ DOMAIN gets[k] = 1..Len(gets[k]) /\ Len(gets[k]) \in Nat
      /\ DOMAIN newest = Kinds
    BY DEF TypeOK
<1> DEFINE n == Len(gets[k])
<1>2. PICK i \in DOMAIN gets[k] :
        /\ gets[k][i].answer # NoValue
        /\ Show(k, gets[k][i])
        /\ gets' = [gets EXCEPT ![k] = RemoveAt(@, i)]
        /\ newest' = [newest EXCEPT ![k] =
                IF @ # "sent" THEN "overtaken"
                ELSE IF i = Len(gets[k]) THEN "shown" ELSE "sent"]
    BY DEF Respond
<1> HIDE DEF Show
<1>3. /\ \A l \in Kinds \ {k} : gets'[l] = gets[l] /\ newest'[l] = newest[l]
      /\ gets'[k] = RemoveAt(gets[k], i)
      /\ newest'[k] = IF newest[k] # "sent" THEN "overtaken"
                      ELSE IF i = Len(gets[k]) THEN "shown" ELSE "sent"
    BY <1>1, <1>2
<1>4. /\ gets'[k] \in Seq(Requests(k)) /\ Len(gets'[k]) = n - 1
      /\ \A j \in 1..(n - 1) :
            gets'[k][j] = IF j < i THEN gets[k][j] ELSE gets[k][j + 1]
  <2>1. i \in 1..n
      BY <1>1
  <2>2. /\ RemoveAt(gets[k], i) \in Seq(Requests(k))
        /\ Len(RemoveAt(gets[k], i)) = n - 1
        /\ \A j \in 1..(n - 1) : RemoveAt(gets[k], i)[j] =
                IF j < i THEN gets[k][j] ELSE gets[k][j + 1]
    <3> DEFINE s == gets[k]
    <3>1. s \in Seq(Requests(k)) /\ i \in 1..Len(s)
        BY <1>1, <2>1
    <3> HIDE DEF s
    <3>2. /\ RemoveAt(s, i) \in Seq(Requests(k))
          /\ Len(RemoveAt(s, i)) = Len(s) - 1
          /\ \A j \in 1..(Len(s) - 1) : RemoveAt(s, i)[j] =
                IF j < i THEN s[j] ELSE s[j + 1]
        BY <3>1, Removed
    <3> QED BY <3>2 DEF s
  <2> QED BY <1>3, <2>2
<1>5. \A j \in 1..Len(gets'[k]) :
        /\ j \in 1..n /\ j + 1 \in 1..n
        /\ gets'[k][j] = IF j < i THEN gets[k][j] ELSE gets[k][j + 1]
  <2> HIDE DEF n
  <2>1. n \in Nat
      BY <1>1 DEF n
  <2> QED BY <1>4, <2>1
<1>6. \A j \in 1..Len(gets'[k]) : \E m \in 1..Len(gets[k]) :
        gets'[k][j] = gets[k][m]
    BY <1>5
<1>7. CASE newest'[k] = "sent"
  <2>1. newest[k] = "sent" /\ i # Len(gets[k])
      BY <1>3, <1>7
  <2>2. /\ n - 1 \in 1..(n - 1) /\ n - 1 + 1 = n
        /\ n \in Nat /\ i \in Nat /\ i <= n - 1 /\ n - 1 # 0
      BY <1>1, <2>1
  <2>3. gets'[k][n - 1] = gets[k][n]
    <3> HIDE DEF n
    <3> QED BY <1>4, <2>2
  <2>4. gets'[k] # <<>> /\ Latest(k)' = Latest(k)
      BY <1>4, <2>2, <2>3, EmptySeq DEF Latest
  <2> QED BY <1>2, <1>3, <1>6, <1>7, <2>1, <2>4 DEF Respond, server
<1>8. CASE newest'[k] # "sent"
  <2>1. newest'[k] = "shown" => newest[k] = "sent" /\ gets[k][i] = Latest(k)
      BY <1>3 DEF Latest
  <2>3. UNCHANGED <<wire, route, offset, missed, blurred, size, version>>
      BY DEF Respond, server
  <2>4. i \in 1..Len(gets[k])
      BY <1>1
  <2>2. gets[k] # <<>>
      BY <1>2
  <2> QED BY <1>2, <1>3, <1>6, <1>8, <2>1, <2>2, <2>3, <2>4
<1> QED BY <1>7, <1>8

\* An event that is not the page's own leaves those owed on the wire.
LEMMA StillOwed ==
    ASSUME wire \in Seq([seg : Segments, change : {1, -1}]), wire # <<>>,
           EventOwed, wire' = Tail(wire), route' = route,
           Head(wire).seg # route
    PROVE  EventOwed'
<1> DEFINE E == [seg : Segments, change : {1, -1}]
<1>1. PICK i \in 1..Len(wire) : wire[i].seg = route
    BY DEF EventOwed
<1>2. wire \in Seq(E)
    OBVIOUS
<1> HIDE DEF E
<1>3. i # 1
    BY <1>1, <1>2
<1>4. i - 1 \in 1..Len(Tail(wire)) /\ Tail(wire)[i - 1] = wire[i]
    BY <1>2, <1>3
<1> QED BY <1>1, <1>4 DEF EventOwed

LEMMA MoreOwed ==
    ASSUME wire \in Seq([seg : Segments, change : {1, -1}]),
           NEW e \in [seg : Segments, change : {1, -1}],
           wire' = Append(wire, e), route' = route,
           EventOwed \/ e.seg = route
    PROVE  EventOwed'
<1> DEFINE E == [seg : Segments, change : {1, -1}]
<1>1. wire \in Seq(E) /\ e \in E
    OBVIOUS
<1> HIDE DEF E
<1>2. Len(wire') = Len(wire) + 1 /\ wire'[Len(wire) + 1] = e
    BY <1>1
<1>3. \A i \in 1..Len(wire) : wire'[i] = wire[i]
    BY <1>1
<1>4. 1..Len(wire) \subseteq 1..Len(wire') /\ Len(wire) + 1 \in 1..Len(wire')
    BY <1>1, <1>2
<1> QED BY <1>2, <1>3, <1>4 DEF EventOwed

LEMMA FreshStep ==
    ASSUME TypeOK, TypeOK', NEW k \in {"feed", "table"}, Fresh(k), [Next]_vars
    PROVE  Fresh(k)'
<1>0. /\ k \in Kinds /\ k \in PageKinds /\ DOMAIN gets = Kinds
      /\ gets[k] \in Seq(Requests(k)) /\ offset \in Nat /\ offset' \in Nat
      /\ wire \in Seq([seg : Segments, change : {1, -1}])
    BY DEF TypeOK, Kinds, PageKinds
\* Nothing but the wire changes.
<1>1. ASSUME UNCHANGED <<gets, newest, shown, route, offset, missed>>,
             EventOwed => EventOwed',
             EventOwed' \/ Answer(k, route)' = Answer(k, route)
      PROVE  Fresh(k)'
    BY <1>1 DEF Fresh, Awaited, Shows, Latest, shown
\* The page has asked anew.
<1>2. ASSUME NEW sent \in Seq(Requests(k)), NEW o \in Nat,
             gets'[k] = Append(sent, Get(route', o)), route' \in Segments,
             newest'[k] = "sent", k = "table" => o = offset'
      PROVE  Fresh(k)'
  <2>1. Awaited(k)'
    <3>1. /\ gets'[k] # <<>>
          /\ Latest(k)'.seg = route'
          /\ Latest(k)'.offset = o
          /\ Latest(k)'.answer = NoValue
        BY <1>0, <1>2, Asked
    <3>2. k = "table" => o = offset'
        BY <1>2
    <3> HIDE <1>2
    <3> QED BY <3>1, <3>2 DEF Awaited
  <2>2. newest'[k] = "sent"
      BY <1>2
  <2> HIDE <1>2
  <2> QED BY <2>1, <2>2 DEF Fresh, Awaited
<1>3. ASSUME NEW s \in Segments, Commit(s) PROVE Fresh(k)'
  <2>1. PICK change \in {1, -1} :
            /\ size' = [size EXCEPT ![s] = @ + change]
            /\ wire' = Append(wire, [seg |-> s, change |-> change])
      BY <1>3 DEF Commit
  <2>2. [seg |-> s, change |-> change] \in [seg : Segments, change : {1, -1}]
      OBVIOUS
  <2>3. UNCHANGED <<gets, newest, shown, route, offset, missed>>
      BY <1>3 DEF Commit
  <2>4. EventOwed \/ s = route => EventOwed'
      BY <1>0, <2>1, <2>2, <2>3, MoreOwed
  <2>5. CASE s = route
      BY <1>1, <2>3, <2>4, <2>5
  <2>6. CASE s # route
    <3>1. size'[route] = size[route] /\ version'[route] = version[route]
        BY <1>3, <2>1, <2>6 DEF Commit, TypeOK
    <3>2. Answer(k, route)' = Answer(k, route)
        BY <2>3, <3>1 DEF Answer
    <3> QED BY <1>1, <2>3, <2>4, <3>2
  <2> QED BY <2>5, <2>6
<1>4. CASE Republish
  <2>1. /\ UNCHANGED <<gets, newest, shown, route, offset, missed, size, version>>
        /\ wire # <<>> /\ wire' = Append(wire, Head(wire))
      BY <1>4 DEF Republish, server
  <2>2. EventOwed => EventOwed'
      BY <1>0, <2>1, WireTypes, MoreOwed
  <2> QED BY <1>1, <2>1, <2>2 DEF Answer
<1>5. ASSUME NEW l \in Kinds, Read(l) PROVE Fresh(k)'
  <2>1. UNCHANGED <<size, version, wire, newest, shown, route, offset, missed>>
      BY <1>5 DEF Read, server
  <2>2. EventOwed' = EventOwed /\ Answer(k, route)' = Answer(k, route)
        /\ Shows(k)' = Shows(k)
      BY <2>1 DEF EventOwed, Answer, Shows, shown
  <2>3. PICK i \in 1..Len(gets[l]) :
            /\ Len(gets'[l]) = Len(gets[l])
            /\ gets'[l][i].seg = gets[l][i].seg
            /\ gets'[l][i].offset = gets[l][i].offset
            /\ gets'[l][i].answer = Answer(l, gets[l][i].seg)
            /\ \A j \in 1..Len(gets[l]) : j # i => gets'[l][j] = gets[l][j]
            /\ \A m \in Kinds \ {l} : gets'[m] = gets[m]
            /\ gets[l] # <<>> /\ gets'[l] # <<>>
      BY <1>5, ReadEffect
  <2>4. CASE l # k
    <3>1. gets'[k] = gets[k]
        BY <1>0, <2>3, <2>4
    <3> QED BY <2>1, <2>2, <3>1 DEF Fresh, Awaited, Latest
  <2>5. CASE l = k
    <3>1. Len(gets[k]) \in 1..Len(gets[k])
        BY <1>0, <2>3, <2>5
    <3>2. /\ Latest(k)'.seg = Latest(k).seg
          /\ Latest(k)'.offset = Latest(k).offset
          /\ \/ Latest(k)'.answer = Latest(k).answer
             \/ Latest(k)'.answer = Answer(k, Latest(k).seg)
        BY <2>3, <2>5, <3>1 DEF Latest
    <3>3. Awaited(k) => Awaited(k)'
        BY <2>1, <2>2, <2>3, <2>5, <3>2 DEF Awaited
    <3> QED BY <2>1, <2>2, <3>3 DEF Fresh
  <2> QED BY <2>4, <2>5
<1>6. ASSUME NEW l \in Kinds, Respond(l) PROVE Fresh(k)'
  <2>1. /\ UNCHANGED <<wire, route, offset, missed, size, version>>
        /\ \A m \in Kinds \ {l} : gets'[m] = gets[m] /\ newest'[m] = newest[m]
      BY <1>6, RespondEffect
  <2>2. PICK i \in 1..Len(gets[l]) :
            /\ gets[l][i].answer # NoValue
            /\ Show(l, gets[l][i])
            /\ newest'[l] = "sent" => /\ newest[l] = "sent"
                                      /\ gets'[l] # <<>>
                                      /\ Latest(l)' = Latest(l)
            /\ newest'[l] = "shown" => /\ newest[l] = "sent"
                                       /\ gets[l][i] = Latest(l)
      BY <1>6, RespondEffect
  <2>3. EventOwed' = EventOwed /\ Answer(k, route)' = Answer(k, route)
      BY <2>1 DEF EventOwed, Answer
  <2>4. CASE l # k
    <3>1. gets'[k] = gets[k] /\ newest'[k] = newest[k]
        BY <1>0, <2>1, <2>4
    <3>2. Shows(k)' = Shows(k)
        BY <2>1, <2>2, <2>3, <2>4 DEF Show, Shows, Answer
    <3> QED BY <2>1, <2>3, <3>1, <3>2 DEF Fresh, Awaited, Latest
  <2>5. CASE l = k
    <3>1. CASE newest'[k] = "sent"
      <4>1. Awaited(k) => Awaited(k)'
          BY <2>1, <2>2, <2>3, <2>5, <3>1 DEF Awaited
      <4> QED BY <2>1, <2>2, <2>3, <2>5, <3>1, <4>1 DEF Fresh
    <3>2. CASE newest'[k] = "shown"
      <4> SUFFICES ASSUME route # "list", ~missed, ~EventOwed
                   PROVE  Shows(k)'
          BY <2>1, <2>3, <3>2 DEF Fresh
      <4>1. /\ gets[k][i].answer = Answer(k, route)
            /\ k = "table" => gets[k][i].offset = offset
          BY <2>2, <2>5, <3>2 DEF Fresh, Awaited
      <4>2. /\ k = "feed" => feed' = Answer("feed", route)
            /\ k = "table" => table' = [page |-> Answer("table", route),
                                       offset |-> offset]
          BY <2>2, <2>5, <4>1 DEF Show
      <4> QED BY <2>1, <2>3, <4>2 DEF Shows, Answer
    <3>3. CASE newest'[k] \notin {"sent", "shown"}
        BY <3>3 DEF Fresh
    <3> QED BY <3>1, <3>2, <3>3
  <2> QED BY <2>4, <2>5
<1>7. CASE Receive
  <2>1. /\ wire # <<>> /\ wire' = Tail(wire)
        /\ UNCHANGED <<size, version, route, feed, table, offset, missed>>
      BY <1>7 DEF Receive, server
  <2>2. CASE route = "list"
      BY <2>1, <2>2 DEF Fresh
  <2>3. CASE route = Head(wire).seg /\ ApplyToDetail(Head(wire))
    <3>1. gets'[k] = Append(gets[k], Get(route, offset)) /\ newest'[k] = "sent"
        BY <1>0, <2>3 DEF ApplyToDetail, Sent, Kinds
    <3>2. route \in Segments
        BY <1>0, <2>1, <2>3, WireTypes
    <3> QED BY <1>0, <1>2, <2>1, <3>1, <3>2
  <2>4. CASE route # Head(wire).seg /\ UNCHANGED <<gets, newest, listed, header>>
    <3>1. EventOwed => EventOwed'
        BY <1>0, <2>1, <2>4, StillOwed
    <3> QED BY <1>1, <2>1, <2>4, <3>1 DEF Answer, shown
  <2> QED BY <1>7, <2>2, <2>3, <2>4 DEF Receive
<1>8. CASE Miss
  <2>1. /\ wire # <<>> /\ wire' = Tail(wire)
        /\ UNCHANGED <<size, version, route, gets, newest, shown, offset>>
        /\ missed' = (missed \/ route \in {"list", Head(wire).seg})
      BY <1>8 DEF Miss, server
  <2>2. CASE missed'
      BY <2>2 DEF Fresh
  <2>3. CASE ~missed'
    <3>1. EventOwed => EventOwed'
        BY <1>0, <2>1, <2>3, StillOwed
    <3>2. missed' = missed
        BY <2>1, <2>3 DEF TypeOK
    <3> QED BY <1>1, <2>1, <3>1, <3>2 DEF Answer
  <2> QED BY <2>2, <2>3
<1>9. CASE OpenList \/ RefreshList
    BY <1>9 DEF OpenList, RefreshList, Fresh
<1>10. ASSUME NEW s \in Segments, OpenDetail(s) PROVE Fresh(k)'
  <2>1. PICK sent : /\ sent \in {NoGets, gets}
                    /\ gets' = Load(sent, s, 0)
      BY <1>10 DEF OpenDetail
  <2>2. GetsTyped(NoGets, route) /\ GetsTyped(gets, route)
      BY NoGetsTypes, TypeParts
  <2>3. DOMAIN sent = Kinds /\ \A l \in PageKinds : sent[l] \in Seq(Requests(l))
      BY <2>1, <2>2 DEF GetsTyped
  <2>4. sent[k] \in Seq(Requests(k)) /\ gets'[k] = Append(sent[k], Get(s, 0))
      BY <1>0, <2>1, <2>3, LoadTypes
  <2>5. newest'[k] = "sent"
      BY <1>0, <1>10 DEF OpenDetail, AllSent
  <2> QED BY <1>2, <1>10, <2>4, <2>5 DEF OpenDetail
<1>11. CASE Reload
  <2>1. /\ route \in Segments /\ UNCHANGED <<route, offset>>
        /\ gets' = Load(gets, route, offset)
      BY <1>11 DEF Reload, TypeOK
  <2>2. gets'[k] = Append(gets[k], Get(route, offset))
      BY <1>0, <2>1, TypeParts, LoadTypes DEF GetsTyped
  <2>3. newest'[k] = "sent"
      BY <1>0, <1>11 DEF Reload, AllSent
  <2> QED BY <1>0, <1>2, <2>1, <2>2, <2>3
<1>12. ASSUME NEW o, TurnTo(o), Act, offset' = o PROVE Fresh(k)'
  <2>1. /\ UNCHANGED <<size, version, wire, route, shown, missed>>
        /\ gets' = [gets EXCEPT !["table"] = Append(@, Get(route, o))]
        /\ newest' = Sent({"table"})
      BY <1>12 DEF TurnTo, Act, server
  <2>2. CASE k = "feed"
    <3>1. gets'[k] = gets[k] /\ newest'[k] = newest[k]
        BY <1>0, <2>1, <2>2 DEF Sent
    <3> QED BY <2>1, <2>2, <3>1
            DEF Fresh, Awaited, Shows, Latest, EventOwed, Answer, shown
  <2>3. CASE k = "table"
    <3>1. gets'[k] = Append(gets[k], Get(route, o)) /\ newest'[k] = "sent"
        BY <1>0, <2>1, <2>3 DEF Sent
    <3>2. CASE route \in Segments
        BY <1>0, <1>2, <1>12, <2>1, <3>1, <3>2
    <3>3. CASE route = "list"
        BY <2>1, <3>3 DEF Fresh
    <3> QED BY <3>2, <3>3 DEF TypeOK
  <2> QED BY <2>2, <2>3
<1>13. CASE UNCHANGED vars
    BY <1>13 DEF vars, Fresh, Awaited, Shows, Latest, EventOwed, Answer
<1>14. ASSUME NextPage \/ PrevPage PROVE Fresh(k)'
    BY <1>12, <1>14 DEF NextPage, PrevPage, TurnTo
<1> QED BY <1>3, <1>4, <1>5, <1>6, <1>7, <1>8, <1>9, <1>10, <1>11, <1>13,
           <1>14 DEF Next

LEMMA FreshInit ==
    ASSUME Init, NEW k \in {"feed", "table"} PROVE Fresh(k)
<1>1. CASE route = "list"
    BY <1>1 DEF Fresh
<1>2. CASE route # "list"
  <2>1. route \in Segments /\ gets = Load(NoGets, route, 0) /\ offset = 0
      BY <1>2 DEF Init
  <2>2. k \in PageKinds /\ GetsTyped(NoGets, route)
      BY NoGetsTypes DEF PageKinds
  <2>3. NoGets[k] \in Seq(Requests(k)) /\ gets[k] = Append(NoGets[k], Get(route, 0))
      BY <2>1, <2>2, LoadTypes DEF GetsTyped
  <2>4. Get(route, 0) \in Requests(k)
      BY <2>1, <2>2, RequestTypes
  <2>5. gets[k] # <<>> /\ Latest(k) = Get(route, 0)
      BY <2>3, <2>4, AppendLast DEF Latest
  <2>6. newest[k] = "sent"
      BY <2>2 DEF Init, AllSent, Kinds, PageKinds
  <2> QED BY <2>1, <2>5, <2>6 DEF Fresh, Awaited, Get
<1> QED BY <1>1, <1>2

\* A delta changes the header's count, and the header stays that of its
\* segment.
LEMMA HeaderCounted ==
    ASSUME TypeOK, header # NoValue, NEW n \in Int,
           header' = [header EXCEPT !.count = @ + n]
    PROVE  /\ header' # NoValue /\ header'.seg = header.seg
           /\ header'.count = header.count + n
<1>1. header \in Headers
    BY DEF TypeOK
<1>2. header'.seg = header.seg /\ header'.count = header.count + n
      /\ header' \in Headers
    BY <1>1 DEF Headers
<1>3. NoValue \notin Headers
    BY NoValueAssumption DEF Answers, Kinds
<1> QED BY <1>2, <1>3

LEMMA HeaderInit == Init => HeaderInPlace
<1> SUFFICES ASSUME Init PROVE HeaderInPlace
    OBVIOUS
<1>0. newest["detail"] = "sent"
    BY DEF Init, AllSent, Kinds
<1>1. CASE route = "list"
  <2>1. gets["detail"] = <<>>
      BY <1>1 DEF Init, ListGets, NoGets, Kinds
  <2> QED BY <1>1, <2>1 DEF HeaderInPlace
<1>2. CASE route # "list"
  <2>1. route \in Segments /\ gets = Load(NoGets, route, 0)
      BY <1>2 DEF Init
  <2>2. gets["detail"] = <<Get(route, 0)>>
      BY <2>1 DEF Load, NoGets, Kinds
  <2> QED BY <1>0, <2>2 DEF HeaderInPlace, Latest, Get
<1> QED BY <1>1, <1>2

LEMMA HeaderStep ==
    ASSUME TypeOK, TypeOK', HeaderInPlace, [Next]_vars
    PROVE  HeaderInPlace'
<1>0. /\ "detail" \in Kinds /\ "detail" \in PageKinds /\ DOMAIN gets = Kinds
      /\ gets["detail"] \in Seq(Requests("detail"))
      /\ gets'["detail"] \in Seq(Requests("detail"))
    BY DEF TypeOK, Kinds, PageKinds
\* No step of the header's GETs.
<1>1. ASSUME gets'["detail"] = gets["detail"], route' = route,
             newest'["detail"] = newest["detail"],
             \/ header' = header
             \/ header' # NoValue /\ header'.seg = header.seg
      PROVE  HeaderInPlace'
    BY <1>1 DEF HeaderInPlace, Latest
\* One more.
<1>2. ASSUME NEW sent \in Seq(Requests("detail")), NEW o \in Nat,
             \A i \in 1..Len(sent) :
                sent[i].answer # NoValue => sent[i].answer.seg = sent[i].seg,
             gets'["detail"] = Append(sent, Get(route', o)), route' \in Segments,
             newest'["detail"] = "sent"
      PROVE  HeaderInPlace'
  <2>1. Get(route', o) \in Requests("detail")
      BY <1>0, <1>2, RequestTypes
  <2>2. gets'["detail"] # <<>> /\ Latest("detail")' = Get(route', o)
      BY <1>2, <2>1, AppendLast DEF Latest
  <2>3. \A i \in 1..Len(gets'["detail"]) :
            gets'["detail"][i] = IF i \in 1..Len(sent) THEN sent[i] ELSE Get(route', o)
      BY <1>2, <2>1
  <2>4. Get(route', o).answer = NoValue /\ Get(route', o).seg = route'
      BY DEF Get
  <2> QED BY <1>2, <2>2, <2>3, <2>4 DEF HeaderInPlace
<1>3. ASSUME NEW k \in Kinds, Read(k) PROVE HeaderInPlace'
  <2>1. PICK i \in 1..Len(gets[k]) :
            /\ Len(gets'[k]) = Len(gets[k])
            /\ gets'[k][i].seg = gets[k][i].seg
            /\ gets'[k][i].answer = Answer(k, gets[k][i].seg)
            /\ \A j \in 1..Len(gets[k]) : j # i => gets'[k][j] = gets[k][j]
            /\ \A l \in Kinds \ {k} : gets'[l] = gets[l]
            /\ gets[k] # <<>> /\ gets'[k] # <<>>
      BY <1>3, ReadEffect
  <2>2. UNCHANGED <<header, route, newest>>
      BY <1>3 DEF Read, shown
  <2>3. CASE k # "detail"
      BY <1>0, <1>1, <2>1, <2>2, <2>3
  <2>4. CASE k = "detail"
    <3>1. gets'[k][i].answer.seg = gets'[k][i].seg
        BY <2>1, <2>4 DEF Answer
    <3>2. Len(gets[k]) \in 1..Len(gets[k])
        BY <1>0, <2>1, <2>4
    <3>3. Latest(k)'.seg = Latest(k).seg
        BY <2>1, <3>2 DEF Latest
    <3> QED BY <2>1, <2>2, <2>4, <3>1, <3>3 DEF HeaderInPlace
  <2> QED BY <2>3, <2>4
<1>4. ASSUME NEW k \in Kinds, Respond(k) PROVE HeaderInPlace'
  <2>1. /\ \A l \in Kinds \ {k} : gets'[l] = gets[l] /\ newest'[l] = newest[l]
        /\ \A j \in 1..Len(gets'[k]) : \E m \in 1..Len(gets[k]) :
                gets'[k][j] = gets[k][m]
        /\ route' = route
      BY <1>4, RespondEffect
  <2>2. PICK i \in 1..Len(gets[k]) :
            /\ gets[k][i].answer # NoValue
            /\ Show(k, gets[k][i])
            /\ newest'[k] = "sent" => /\ newest[k] = "sent"
                                      /\ gets'[k] # <<>>
                                      /\ Latest(k)' = Latest(k)
            /\ newest'[k] = "shown" => /\ newest[k] = "sent"
                                       /\ gets[k][i] = Latest(k)
      BY <1>4, RespondEffect
  <2>3. CASE k # "detail"
    <3>1. /\ gets'["detail"] = gets["detail"]
          /\ newest'["detail"] = newest["detail"]
        BY <1>0, <2>1, <2>3
    <3>2. header' = header
        BY <2>2, <2>3 DEF Show
    <3> QED BY <1>1, <2>1, <3>1, <3>2
  <2>4. CASE k = "detail"
    <3>1. /\ header' = gets[k][i].answer /\ header' # NoValue
          /\ header'.seg = gets[k][i].seg
        BY <2>2, <2>4 DEF Show, HeaderInPlace
    <3>2. \A j \in 1..Len(gets'[k]) :
            gets'[k][j].answer # NoValue =>
                gets'[k][j].answer.seg = gets'[k][j].seg
        BY <2>1, <2>4 DEF HeaderInPlace
    <3>3. route # "list" /\ newest[k] = "sent" => Latest(k).seg = route
        BY <2>4 DEF HeaderInPlace
    <3> QED BY <2>1, <2>2, <2>4, <3>1, <3>2, <3>3 DEF HeaderInPlace
  <2> QED BY <2>3, <2>4
<1>5. CASE Receive
  <2>1. route' = route /\ wire # <<>>
      BY <1>5 DEF Receive
  <2>2. Head(wire).change \in Int
      BY <2>1, WireTypes DEF TypeOK
  <2>3. CASE ApplyToDetail(Head(wire))
    <3>1. /\ gets'["detail"] = gets["detail"]
          /\ newest'["detail"] = newest["detail"]
        BY <1>0, <2>3 DEF ApplyToDetail, Sent
    <3>2. \/ header' = header
          \/ header' # NoValue /\ header'.seg = header.seg
        BY <2>2, <2>3, HeaderCounted DEF ApplyToDetail
    <3> QED BY <1>1, <2>1, <3>1, <3>2
  <2>4. CASE UNCHANGED <<gets, newest, header>>
      BY <1>1, <2>1, <2>4
  <2> QED BY <1>5, <2>3, <2>4 DEF Receive, ApplyToList
<1>6. CASE OpenList \/ RefreshList
  <2>1. route' = "list"
      BY <1>6 DEF OpenList, RefreshList
  <2>2. gets'["detail"] = <<>>
      BY <2>1, <1>0 DEF TypeOK
  <2> QED BY <2>1, <2>2 DEF HeaderInPlace
<1>7. ASSUME NEW s \in Segments, OpenDetail(s) PROVE HeaderInPlace'
  <2>1. PICK sent : /\ sent \in {NoGets, gets}
                    /\ gets' = Load(sent, s, 0)
      BY <1>7 DEF OpenDetail
  <2>2. GetsTyped(NoGets, route) /\ GetsTyped(gets, route)
      BY NoGetsTypes, TypeParts
  <2>3. DOMAIN sent = Kinds /\ \A l \in PageKinds : sent[l] \in Seq(Requests(l))
      BY <2>1, <2>2 DEF GetsTyped
  <2>4. /\ sent["detail"] \in Seq(Requests("detail"))
        /\ gets'["detail"] = Append(sent["detail"], Get(s, 0))
      BY <1>0, <2>1, <2>3, LoadTypes
  <2>5. sent["detail"] = <<>> \/ sent["detail"] = gets["detail"]
      BY <1>0, <2>1 DEF NoGets
  <2>6. \A i \in 1..Len(sent["detail"]) :
            sent["detail"][i].answer # NoValue =>
                sent["detail"][i].answer.seg = sent["detail"][i].seg
      BY <2>5 DEF HeaderInPlace
  <2>7. route' = s /\ newest'["detail"] = "sent"
      BY <1>0, <1>7 DEF OpenDetail, AllSent
  <2> QED BY <1>2, <2>4, <2>6, <2>7
<1>8. CASE Reload
  <2>1. /\ route \in Segments /\ route' = route /\ offset \in Nat
        /\ gets' = Load(gets, route, offset)
      BY <1>8 DEF Reload, TypeOK
  <2>2. gets'["detail"] = Append(gets["detail"], Get(route, offset))
      BY <1>0, <2>1, TypeParts, LoadTypes DEF GetsTyped
  <2>3. \A i \in 1..Len(gets["detail"]) :
            gets["detail"][i].answer # NoValue =>
                gets["detail"][i].answer.seg = gets["detail"][i].seg
      BY DEF HeaderInPlace
  <2>4. newest'["detail"] = "sent"
      BY <1>0, <1>8 DEF Reload, AllSent
  <2> QED BY <1>0, <1>2, <2>1, <2>2, <2>3, <2>4
<1>9. ASSUME NEW o, TurnTo(o) PROVE HeaderInPlace'
  <2>1. /\ route' = route /\ header' = header
        /\ gets' = [gets EXCEPT !["table"] = Append(@, Get(route, o))]
      BY <1>9 DEF TurnTo, shown
  <2>2. gets'["detail"] = gets["detail"]
      BY <1>0, <2>1
  <2>3. newest'["detail"] = newest["detail"]
      BY <1>0, <1>9 DEF TurnTo, Sent
  <2> QED BY <1>1, <2>1, <2>2, <2>3
<1>10. ASSUME UNCHANGED <<gets, newest, route, header>> PROVE HeaderInPlace'
    BY <1>1, <1>10
<1>11. ASSUME NEW s \in Segments, Commit(s) PROVE HeaderInPlace'
    BY <1>10, <1>11 DEF Commit, shown
<1>12. CASE Republish \/ Miss
    BY <1>10, <1>12 DEF Republish, Miss, shown
<1>13. CASE UNCHANGED vars
    BY <1>10, <1>13 DEF vars
<1>14. CASE NextPage \/ PrevPage
    BY <1>9, <1>14 DEF NextPage, PrevPage
<1> QED BY <1>3, <1>4, <1>5, <1>6, <1>7, <1>8, <1>11, <1>12, <1>13, <1>14 DEF Next

\* At rest the detail page shows the segment of its address as the server
\* has it, whatever was opened, changed and redelivered before: each event
\* made it ask again, and the last GET asks for what is to be shown.  What an
\* earlier answer has overtaken is excepted.
THEOREM AtRestFresh == Spec => []ViewFresh
<1> DEFINE Inv == TypeOK /\ Fresh("feed") /\ Fresh("table") /\ HeaderInPlace
<1>1. Init => Inv
    BY TypeInit, FreshInit, HeaderInit
<1>2. Inv /\ [Next]_vars => Inv'
  <2> SUFFICES ASSUME Inv, [Next]_vars PROVE Inv'
      OBVIOUS
  <2>1. TypeOK'
      BY TypeStep
  <2>2. HeaderInPlace'
      BY <2>1, HeaderStep
  <2>3. ASSUME NEW k \in {"feed", "table"} PROVE Fresh(k)'
      BY <2>1, FreshStep
  <2>4. ASSUME NEW k, k = "feed" PROVE Fresh(k)' <=> Fresh("feed")'
      BY <2>4 DEF Fresh, Awaited, Shows, Latest, EventOwed, Answer
  <2>5. ASSUME NEW k, k = "table" PROVE Fresh(k)' <=> Fresh("table")'
      BY <2>5 DEF Fresh, Awaited, Shows, Latest, EventOwed, Answer
  <2> QED BY <2>1, <2>2, <2>3, <2>4, <2>5
<1>3. Inv => ViewFresh
  <2> SUFFICES ASSUME Inv, Rest, ~missed, route # "list"
               PROVE  /\ newest["detail"] = "shown" => header.seg = route
                      /\ newest["feed"] = "shown" => feed = Answer("feed", route)
                      /\ newest["table"] = "shown" => table =
                            [page |-> Answer("table", route), offset |-> offset]
      BY DEF ViewFresh
  <2>1. ~EventOwed
      BY DEF Rest, EventOwed
  <2>2. newest["detail"] = "shown" => header.seg = route
      BY DEF HeaderInPlace
  <2>3. /\ newest["feed"] = "shown" => Shows("feed")
        /\ newest["table"] = "shown" => Shows("table")
      BY <2>1 DEF Fresh
  <2> QED BY <2>2, <2>3 DEF Shows
<1> QED BY <1>1, <1>2, <1>3, PTL DEF Spec
-----------------------------------------------------------------------------
(* The counts kept by adding up deltas. *)

\* What an event adds to the count of a segment.
Share(e, s) == IF e.seg = s THEN e.change ELSE 0

\* The events of w bring the count of s from v to t: c holds its values in
\* between.
Adds(w, v, t, s) == \E c \in [0..Len(w) -> Int] :
    /\ c[0] = v
    /\ c[Len(w)] = t
    /\ \A i \in 1..Len(w) : c[i] = c[i - 1] + Share(w[i], s)

Events == [seg : Segments, change : {1, -1}]

LEMMA ShareInt == \A e \in Events : \A s : Share(e, s) \in Int
BY DEF Share, Events

LEMMA AddsNone ==
    /\ \A v \in Int : \A s : Adds(<<>>, v, v, s)
    /\ \A v, t, s : Adds(<<>>, v, t, s) => v = t
<1>1. ASSUME NEW v \in Int, NEW s PROVE Adds(<<>>, v, v, s)
  <2> DEFINE c == [i \in 0..0 |-> v]
  <2>1. Len(<<>>) = 0
      OBVIOUS
  <2>2. c \in [0..Len(<<>>) -> Int] /\ c[0] = v
      BY <2>1
  <2>3. \A i \in 1..Len(<<>>) : FALSE
      BY <2>1
  <2> HIDE DEF c
  <2> QED BY <2>1, <2>2, <2>3 DEF Adds
<1> QED BY <1>1 DEF Adds

LEMMA AddsAppend ==
    ASSUME NEW w \in Seq(Events), NEW e \in Events, NEW v, NEW t \in Int, NEW s,
           Adds(w, v, t, s)
    PROVE  Adds(Append(w, e), v, t + Share(e, s), s)
<1>1. PICK c \in [0..Len(w) -> Int] :
        /\ c[0] = v
        /\ c[Len(w)] = t
        /\ \A i \in 1..Len(w) : c[i] = c[i - 1] + Share(w[i], s)
    BY DEF Adds
<1>2. Share(e, s) \in Int /\ Len(w) \in Nat
    BY ShareInt
<1> DEFINE n == Len(w)
           x == Append(w, e)
           d == [i \in 0..(n + 1) |-> IF i = n + 1 THEN t + Share(e, s) ELSE c[i]]
<1>3. /\ Len(x) = n + 1 /\ x[n + 1] = e
      /\ \A i \in 1..n : x[i] = w[i]
    OBVIOUS
<1>4. d \in [0..Len(x) -> Int] /\ d[0] = v /\ d[Len(x)] = t + Share(e, s)
    BY <1>1, <1>2, <1>3
<1>5. ASSUME NEW i \in 1..Len(x) PROVE d[i] = d[i - 1] + Share(x[i], s)
  <2>1. i - 1 \in 0..n
      BY <1>2, <1>3
  <2>2. CASE i = n + 1
      BY <1>1, <1>2, <1>3, <2>1, <2>2
  <2>3. CASE i # n + 1
    <3>1. i \in 1..n /\ d[i] = c[i] /\ d[i - 1] = c[i - 1] /\ x[i] = w[i]
        BY <1>2, <1>3, <2>1, <2>3
    <3> QED BY <1>1, <3>1
  <2> QED BY <2>2, <2>3
<1> QED BY <1>4, <1>5 DEF Adds

LEMMA AddsTail ==
    ASSUME NEW w \in Seq(Events), w # <<>>, NEW v \in Int, NEW t, NEW s,
           Adds(w, v, t, s)
    PROVE  Adds(Tail(w), v + Share(Head(w), s), t, s)
<1>1. PICK c \in [0..Len(w) -> Int] :
        /\ c[0] = v
        /\ c[Len(w)] = t
        /\ \A i \in 1..Len(w) : c[i] = c[i - 1] + Share(w[i], s)
    BY DEF Adds
<1> DEFINE n == Len(w)
           x == Tail(w)
           d == [i \in 0..(n - 1) |-> c[i + 1]]
<1>2. /\ n \in Nat \ {0} /\ Len(x) = n - 1 /\ Head(w) = w[1]
      /\ \A i \in 1..(n - 1) : x[i] = w[i + 1]
    OBVIOUS
<1>3. c[1] = v + Share(Head(w), s)
    BY <1>1, <1>2
<1>4. /\ d \in [0..Len(x) -> Int]
      /\ d[0] = v + Share(Head(w), s) /\ d[Len(x)] = t
    BY <1>1, <1>2, <1>3
<1>5. ASSUME NEW i \in 1..Len(x) PROVE d[i] = d[i - 1] + Share(x[i], s)
  <2>1. /\ i \in 0..(n - 1) /\ i - 1 \in 0..(n - 1) /\ i + 1 \in 1..n
        /\ x[i] = w[i + 1]
      BY <1>2
  <2>2. d[i] = c[i + 1] /\ d[i - 1] = c[i]
      BY <2>1
  <2>3. c[i + 1] = c[i] + Share(w[i + 1], s)
      BY <1>1, <2>1
  <2> QED BY <2>1, <2>2, <2>3
<1> QED BY <1>4, <1>5 DEF Adds

\* Unless an event and the GET of a count have overlapped, a count that was
\* read has no event behind it, and is the one of now.
Current(k) == \A i \in 1..Len(gets[k]) :
    gets[k][i].answer # NoValue =>
        /\ wire = <<>>
        /\ gets[k][i].answer = Answer(k, gets[k][i].seg)

ReadsCurrent == ~blurred => Current("list") /\ Current("detail")

\* The last answer for the list is on its way, or counts are shown.
ListLoaded == route = "list" =>
    IF newest["list"] = "sent" THEN gets["list"] # <<>> ELSE listed # NoValue

\* Once the last answer is there, or overtaken, what the page shows and what
\* is on its way to it make up the count in the database.
CountChain == ~blurred /\ ~missed =>
    /\ route = "list" /\ newest["list"] # "sent" =>
        \A s \in Segments : Adds(wire, listed[s], size[s], s)
    /\ /\ route # "list"
       /\ newest["detail"] # "sent"
       /\ header.seg = route
       => Adds(wire, header.count, size[route], route)

LEMMA ReadsInit == Init => ReadsCurrent /\ ListLoaded /\ CountChain
<1> SUFFICES ASSUME Init PROVE ReadsCurrent /\ ListLoaded /\ CountChain
    OBVIOUS
<1>0. newest["list"] = "sent" /\ newest["detail"] = "sent"
    BY DEF Init, AllSent, Kinds
<1>1. CASE route = "list"
  <2>1. /\ gets["list"] = <<Get(NoValue, 0)>> /\ gets["detail"] = <<>>
        /\ Len(gets["list"]) = 1 /\ gets["list"][1].answer = NoValue
      BY <1>1 DEF Init, ListGets, NoGets, Kinds, Get
  <2> QED BY <1>0, <1>1, <2>1 DEF ReadsCurrent, Current, ListLoaded, CountChain
<1>2. CASE route # "list"
  <2>1. gets = Load(NoGets, route, 0)
      BY <1>2 DEF Init
  <2>2. /\ gets["detail"] = <<Get(route, 0)>> /\ gets["list"] = <<>>
        /\ Len(gets["detail"]) = 1 /\ gets["detail"][1].answer = NoValue
      BY <2>1 DEF Load, NoGets, Kinds, Get
  <2> QED BY <1>0, <1>2, <2>2 DEF ReadsCurrent, Current, ListLoaded, CountChain
<1> QED BY <1>1, <1>2

LEMMA CurrentKept ==
    ASSUME NEW k \in {"list", "detail"}, Current(k), gets'[k] = gets[k],
           UNCHANGED <<wire, size>>
    PROVE  Current(k)'
<1>1. CASE k = "list"
    BY <1>1 DEF Current, Answer
<1>2. CASE k = "detail"
    BY <1>2 DEF Current, Answer
<1> QED BY <1>1, <1>2

LEMMA CurrentAsked ==
    ASSUME NEW k \in {"list", "detail"}, NEW sent \in Seq(Requests(k)),
           sent = <<>> \/ sent = gets[k], Current(k),
           NEW s, NEW o, Get(s, o) \in Requests(k),
           gets'[k] = Append(sent, Get(s, o)),
           UNCHANGED <<wire, size>>
    PROVE  Current(k)'
<1>1. \A i \in 1..Len(gets'[k]) :
        \/ gets'[k][i] = Get(s, o)
        \/ i \in 1..Len(sent) /\ gets'[k][i] = sent[i]
    OBVIOUS
<1>2. Get(s, o).answer = NoValue
    BY DEF Get
<1>3. Len(<<>>) = 0
    OBVIOUS
<1>4. \A i \in 1..Len(gets'[k]) : gets'[k][i].answer # NoValue =>
        i \in 1..Len(gets[k]) /\ gets'[k][i] = gets[k][i] /\ Current(k)
    BY <1>1, <1>2, <1>3
<1>5. CASE k = "list"
    BY <1>4, <1>5 DEF Current, Answer
<1>6. CASE k = "detail"
    BY <1>4, <1>6 DEF Current, Answer
<1> QED BY <1>5, <1>6

LEMMA CurrentAnswered ==
    ASSUME NEW k \in {"list", "detail"}, Current(k),
           \A j \in 1..Len(gets'[k]) : \E m \in 1..Len(gets[k]) :
                gets'[k][j] = gets[k][m],
           UNCHANGED <<wire, size>>
    PROVE  Current(k)'
<1>1. CASE k = "list"
    BY <1>1 DEF Current, Answer
<1>2. CASE k = "detail"
    BY <1>2 DEF Current, Answer
<1> QED BY <1>1, <1>2

\* While nothing of a kind is read, its GETs may see any change.
LEMMA CurrentUnread ==
    ASSUME NEW k \in {"list", "detail"}, gets'[k] = gets[k],
           \A i \in 1..Len(gets[k]) : gets[k][i].answer = NoValue
    PROVE  Current(k)'
BY DEF Current

LEMMA ReadsStep ==
    ASSUME TypeOK, TypeOK', ReadsCurrent, [Next]_vars
    PROVE  ReadsCurrent'
<1>0. /\ DOMAIN gets = Kinds /\ {"list", "detail"} \subseteq Kinds
      /\ \A k \in Kinds : /\ gets[k] \in Seq(Requests(k))
                          /\ gets'[k] \in Seq(Requests(k))
      /\ DOMAIN gets' = Kinds
    BY DEF TypeOK, Kinds
<1>1. ASSUME ~blurred => Current("list")' /\ Current("detail")',
             blurred' = blurred
      PROVE  ReadsCurrent'
    BY <1>1 DEF ReadsCurrent
<1>2. ASSUME UNCHANGED <<wire, size, blurred>>,
             gets'["list"] = gets["list"], gets'["detail"] = gets["detail"]
      PROVE  ReadsCurrent'
    BY <1>1, <1>2, CurrentKept DEF ReadsCurrent
\* Events come and go only while no count is read, or blur it.
<1>3. ASSUME gets'["list"] = gets["list"], gets'["detail"] = gets["detail"],
             blurred' = blurred,
             wire # <<>> \/ ~CountPending
      PROVE  ReadsCurrent'
  <2> SUFFICES ASSUME ~blurred, NEW k \in {"list", "detail"} PROVE Current(k)'
      BY <1>1, <1>3
  <2>1. \A i \in 1..Len(gets[k]) : gets[k][i].answer = NoValue
      BY <1>0, <1>3 DEF ReadsCurrent, Current, CountPending
  <2> QED BY <1>3, <2>1, CurrentUnread
<1>4. ASSUME NEW s \in Segments, Commit(s) PROVE ReadsCurrent'
  <2>1. UNCHANGED gets /\ blurred' = (blurred \/ CountPending)
      BY <1>4 DEF Commit
  <2>2. CASE CountPending
      BY <2>1, <2>2 DEF ReadsCurrent
  <2>3. CASE ~CountPending
    <3>1. blurred' = blurred
        BY <2>1, <2>3 DEF TypeOK
    <3> QED BY <1>3, <2>1, <2>3, <3>1
  <2> QED BY <2>2, <2>3
<1>5. CASE Republish
    BY <1>5 DEF Republish, ReadsCurrent
<1>6. ASSUME NEW k \in Kinds, Read(k) PROVE ReadsCurrent'
  <2>1. PICK i \in 1..Len(gets[k]) :
            /\ Len(gets'[k]) = Len(gets[k])
            /\ gets'[k][i].seg = gets[k][i].seg
            /\ gets'[k][i].answer = Answer(k, gets[k][i].seg)
            /\ \A j \in 1..Len(gets[k]) : j # i => gets'[k][j] = gets[k][j]
            /\ \A l \in Kinds \ {k} : gets'[l] = gets[l]
      BY <1>6, ReadEffect
  <2>2. /\ UNCHANGED <<wire, size, version>>
        /\ blurred' = (blurred \/ (k \in {"list", "detail"} /\ wire # <<>>))
      BY <1>6 DEF Read, server
  <2>3. CASE k \notin {"list", "detail"}
    <3>1. gets'["list"] = gets["list"] /\ gets'["detail"] = gets["detail"]
        BY <1>0, <2>1, <2>3
    <3>2. blurred' = blurred
        BY <2>2, <2>3 DEF TypeOK
    <3> QED BY <1>2, <2>2, <3>1, <3>2
  <2>4. CASE k \in {"list", "detail"}
    <3> SUFFICES ASSUME ~blurred, wire = <<>>, NEW l \in {"list", "detail"}
                 PROVE  Current(l)'
        BY <2>2, <2>4 DEF ReadsCurrent
    <3>1. Current(l) /\ Current(k)
        BY <2>4 DEF ReadsCurrent
    <3>2. CASE l # k
      <4>1. gets'[l] = gets[l]
          BY <1>0, <2>1, <3>2
      <4> QED BY <2>2, <3>1, <4>1, CurrentKept
    <3>3. CASE l = k
      <4>1. \A j \in 1..Len(gets'[k]) : gets'[k][j].answer # NoValue =>
                gets'[k][j].answer = Answer(k, gets'[k][j].seg)
          BY <2>1, <3>1 DEF Current
      <4>2. CASE k = "list"
          BY <2>2, <3>3, <4>1, <4>2 DEF Current, Answer
      <4>3. CASE k = "detail"
          BY <2>2, <3>3, <4>1, <4>3 DEF Current, Answer
      <4> QED BY <2>4, <4>2, <4>3
    <3> QED BY <3>2, <3>3
  <2> QED BY <2>3, <2>4
<1>7. ASSUME NEW k \in Kinds, Respond(k) PROVE ReadsCurrent'
  <2>1. /\ \A l \in Kinds \ {k} : gets'[l] = gets[l]
        /\ \A j \in 1..Len(gets'[k]) : \E m \in 1..Len(gets[k]) :
                gets'[k][j] = gets[k][m]
        /\ UNCHANGED <<wire, size, blurred>>
      BY <1>7, RespondEffect
  <2> SUFFICES ASSUME ~blurred, NEW l \in {"list", "detail"} PROVE Current(l)'
      BY <1>1, <2>1
  <2>2. Current(l)
      BY DEF ReadsCurrent
  <2>3. CASE l # k
    <3>1. gets'[l] = gets[l]
        BY <1>0, <2>1, <2>3
    <3> QED BY <2>1, <2>2, <3>1, CurrentKept
  <2>4. CASE l = k
      BY <2>1, <2>2, <2>4, CurrentAnswered
  <2> QED BY <2>3, <2>4
<1>8. CASE Receive
  <2>1. wire # <<>> /\ UNCHANGED blurred
      BY <1>8 DEF Receive
  <2>2. gets'["list"] = gets["list"] /\ gets'["detail"] = gets["detail"]
      BY <1>0, <1>8 DEF Receive, ApplyToList, ApplyToDetail
  <2> QED BY <1>3, <2>1, <2>2
<1>9. CASE Miss
  <2>1. wire # <<>> /\ UNCHANGED <<blurred, gets>>
      BY <1>9 DEF Miss
  <2> QED BY <1>3, <2>1
<1>10. ASSUME NEW k \in {"list", "detail"}, NEW l \in {"list", "detail"}, k # l,
              NEW sent \in Seq(Requests(k)),
              sent \in {<<>>, gets[k]}, NEW s, NEW o, Get(s, o) \in Requests(k),
              gets'[k] = Append(sent, Get(s, o)),
              gets'[l] \in {<<>>, gets[l]},
              UNCHANGED <<wire, size, blurred>>
       PROVE  ReadsCurrent'
  <2> SUFFICES ASSUME ~blurred PROVE Current(k)' /\ Current(l)'
      BY <1>1, <1>10
  <2>1. Current(k) /\ Current(l)
      BY DEF ReadsCurrent
  <2>2. Current(k)'
    <3>1. sent = <<>> \/ sent = gets[k]
        BY <1>10
    <3>2. Get(s, o) \in Requests(k) /\ gets'[k] = Append(sent, Get(s, o))
        BY <1>10
    <3>3. UNCHANGED <<wire, size>>
        BY <1>10
    <3> QED BY <2>1, <3>1, <3>2, <3>3, CurrentAsked
  <2>3. CASE gets'[l] = gets[l]
      BY <1>10, <2>1, <2>2, <2>3, CurrentKept
  <2>4. CASE gets'[l] = <<>>
    <3>1. \A i \in 1..Len(gets'[l]) : FALSE
        BY <2>4
    <3> QED BY <2>2, <3>1 DEF Current
  <2> QED BY <1>10, <2>2, <2>3, <2>4
<1>11. CASE OpenList
  <2>1. /\ gets'["list"] = Append(<<>>, Get(NoValue, 0)) /\ gets'["detail"] = <<>>
        /\ UNCHANGED <<wire, size, blurred>>
      BY <1>11 DEF OpenList, ListGets, NoGets, Kinds, Reloaded, Act, server
  <2>2. <<>> \in Seq(Requests("list")) /\ Get(NoValue, 0) \in Requests("list")
      BY RequestTypes
  <2> QED BY <1>10, <2>1, <2>2
<1>12. CASE RefreshList
  <2>1. /\ gets'["list"] = Append(gets["list"], Get(NoValue, 0))
        /\ gets'["detail"] = gets["detail"]
        /\ UNCHANGED <<wire, size, blurred>>
      BY <1>0, <1>12 DEF RefreshList, Reloaded, Act, server
  <2>2. gets["list"] \in Seq(Requests("list")) /\ Get(NoValue, 0) \in Requests("list")
      BY <1>0, RequestTypes
  <2> QED BY <1>10, <2>1, <2>2
<1>13. ASSUME NEW sent, sent \in {NoGets, gets}, NEW s \in Segments, NEW o \in Nat,
              gets' = Load(sent, s, o), UNCHANGED <<wire, size, blurred>>
       PROVE  ReadsCurrent'
  <2>1. GetsTyped(NoGets, route) /\ GetsTyped(gets, route)
      BY NoGetsTypes, TypeParts
  <2>2. DOMAIN sent = Kinds /\ \A l \in PageKinds : sent[l] \in Seq(Requests(l))
      BY <1>13, <2>1 DEF GetsTyped
  <2>3. /\ gets'["list"] = sent["list"]
        /\ gets'["detail"] = Append(sent["detail"], Get(s, o))
        /\ sent["detail"] \in Seq(Requests("detail"))
        /\ Get(s, o) \in Requests("detail")
      BY <1>13, <2>2, LoadTypes, RequestTypes DEF PageKinds
  <2>4. sent["detail"] \in {<<>>, gets["detail"]} /\ sent["list"] \in {<<>>, gets["list"]}
      BY <1>13 DEF NoGets, Kinds
  <2> QED BY <1>10, <1>13, <2>3, <2>4
<1>14. ASSUME NEW s \in Segments, OpenDetail(s) PROVE ReadsCurrent'
  <2>1. UNCHANGED <<wire, size, blurred>>
      BY <1>14 DEF OpenDetail, Reloaded, Act, server
  <2>2. gets' = Load(NoGets, s, 0) \/ gets' = Load(gets, s, 0)
      BY <1>14 DEF OpenDetail
  <2> QED BY <1>13, <2>1, <2>2
<1>15. CASE Reload
    BY <1>13, <1>15 DEF Reload, Reloaded, Act, server, TypeOK
<1>16. CASE NextPage \/ PrevPage
  <2>1. PICK o : gets' = [gets EXCEPT !["table"] = Append(@, Get(route, o))]
      BY <1>16 DEF NextPage, PrevPage, TurnTo
  <2>2. gets'["list"] = gets["list"] /\ gets'["detail"] = gets["detail"]
      BY <1>0, <2>1
  <2> QED BY <1>2, <1>16, <2>2 DEF NextPage, PrevPage, Act, server
<1>17. CASE UNCHANGED vars
    BY <1>2, <1>17 DEF vars
<1> QED BY <1>4, <1>5, <1>6, <1>7, <1>8, <1>9, <1>11, <1>12, <1>14, <1>15,
           <1>16, <1>17 DEF Next

LEMMA ChainStep ==
    ASSUME TypeOK, TypeOK', HeaderInPlace, ReadsCurrent, ListLoaded, CountChain,
           [Next]_vars
    PROVE  ListLoaded' /\ CountChain'
<1>0. /\ DOMAIN gets = Kinds /\ {"list", "detail"} \subseteq Kinds
      /\ \A k \in Kinds : gets[k] \in Seq(Requests(k))
      /\ wire \in Seq(Events) /\ size \in [Segments -> Int]
      /\ route \in Segments \cup {"list"}
      /\ blurred \in BOOLEAN /\ missed \in BOOLEAN
      /\ listed # NoValue => listed \in [Segments -> Int]
      /\ header # NoValue => header.count \in Int
      /\ \A K : \A k \in {"list", "detail"} \ K : Sent(K)[k] = newest[k]
  <2>1. /\ DOMAIN gets = Kinds /\ {"list", "detail"} \subseteq Kinds
        /\ \A k \in Kinds : gets[k] \in Seq(Requests(k))
      BY DEF TypeOK, Kinds
  <2>2. /\ wire \in Seq(Events) /\ size \in [Segments -> Int]
        /\ route \in Segments \cup {"list"}
        /\ blurred \in BOOLEAN /\ missed \in BOOLEAN
      BY DEF TypeOK, Events
  <2>3. /\ listed # NoValue => listed \in [Segments -> Int]
        /\ header # NoValue => header.count \in Int
      BY DEF TypeOK, Sizes, Headers
  <2>4. \A K : \A k \in {"list", "detail"} \ K : Sent(K)[k] = newest[k]
      BY DEF Sent, Kinds
  <2> QED BY <2>1, <2>2, <2>3, <2>4
\* The page still waits for its counts, or still does not.
<1>1. ASSUME gets'["list"] = <<>> <=> gets["list"] = <<>>,
             newest'["list"] = newest["list"],
             newest'["detail"] = newest["detail"],
             UNCHANGED <<route, listed, header, wire, size>>,
             ~blurred' /\ ~missed' => ~blurred /\ ~missed
      PROVE  ListLoaded' /\ CountChain'
    BY <1>1 DEF ListLoaded, CountChain
\* It has asked for them.
<1>2. ASSUME IF route' = "list"
             THEN newest'["list"] = "sent" /\ gets'["list"] # <<>>
             ELSE newest'["detail"] = "sent"
      PROVE  ListLoaded' /\ CountChain'
    BY <1>2 DEF ListLoaded, CountChain
<1>3. ASSUME NEW s \in Segments, Commit(s) PROVE ListLoaded' /\ CountChain'
  <2>1. PICK change \in {1, -1} :
            /\ size' = [size EXCEPT ![s] = @ + change]
            /\ wire' = Append(wire, [seg |-> s, change |-> change])
      BY <1>3 DEF Commit
  <2>2. /\ UNCHANGED <<gets, newest, route, listed, header, missed>>
        /\ ~blurred' => ~blurred
      BY <1>3 DEF Commit, shown
  <2> DEFINE e == [seg |-> s, change |-> change]
  <2>3. e \in Events /\ e.seg = s /\ e.change = change
      BY DEF Events
  <2>4. wire' = Append(wire, e)
      BY <2>1
  <2> HIDE DEF e
  <2>5. ASSUME NEW t \in Segments PROVE size'[t] = size[t] + Share(e, t) /\ size[t] \in Int
      BY <1>0, <2>1, <2>3 DEF Share
  <2>6. ListLoaded'
      BY <2>2 DEF ListLoaded
  <2>7. ASSUME ~blurred', ~missed' PROVE
            /\ route = "list" /\ newest["list"] # "sent" =>
                \A t \in Segments : Adds(wire', listed[t], size'[t], t)
            /\ /\ route # "list" /\ newest["detail"] # "sent"
               /\ header.seg = route
               => Adds(wire', header.count, size'[route], route)
    <3>1. ASSUME NEW t \in Segments, NEW v, Adds(wire, v, size[t], t)
          PROVE  Adds(wire', v, size'[t], t)
      <4>1. Adds(Append(wire, e), v, size[t] + Share(e, t), t)
          BY <1>0, <2>3, <2>5, <3>1, AddsAppend
      <4> QED BY <2>4, <2>5, <4>1
    <3> QED BY <1>0, <2>2, <2>7, <3>1 DEF CountChain
  <2> QED BY <2>2, <2>6, <2>7 DEF CountChain
<1>4. CASE Republish
    BY <1>4 DEF Republish, ListLoaded, CountChain, shown
<1>5. ASSUME NEW k \in Kinds, Read(k) PROVE ListLoaded' /\ CountChain'
  <2>1. /\ \A l \in Kinds \ {k} : gets'[l] = gets[l]
        /\ gets[k] # <<>> /\ gets'[k] # <<>>
      BY <1>5, ReadEffect
  <2>2. gets'["list"] = <<>> <=> gets["list"] = <<>>
      BY <1>0, <2>1
  <2>3. UNCHANGED <<newest, route, listed, header, wire, size>>
      BY <1>5 DEF Read, shown, server
  <2>4. ~blurred' /\ ~missed' => ~blurred /\ ~missed
      BY <1>5 DEF Read
  <2> QED BY <1>1, <2>2, <2>3, <2>4
<1>6. ASSUME NEW k \in Kinds, Respond(k) PROVE ListLoaded' /\ CountChain'
  <2>1. /\ \A l \in Kinds \ {k} : gets'[l] = gets[l] /\ newest'[l] = newest[l]
        /\ UNCHANGED <<wire, route, missed, blurred, size>>
        /\ gets[k] # <<>>
      BY <1>6, RespondEffect
  <2>2. PICK i \in 1..Len(gets[k]) :
            /\ gets[k][i].answer # NoValue
            /\ Show(k, gets[k][i])
            /\ newest'[k] = "sent" => /\ newest[k] = "sent"
                                      /\ gets'[k] # <<>>
                                      /\ Latest(k)' = Latest(k)
            /\ newest'[k] = "shown" => /\ newest[k] = "sent"
                                       /\ gets[k][i] = Latest(k)
      BY <1>6, RespondEffect
  <2>3. CASE k \notin {"list", "detail"}
    <3>1. /\ gets'["list"] = gets["list"]
          /\ newest'["list"] = newest["list"]
          /\ newest'["detail"] = newest["detail"]
        BY <1>0, <2>1, <2>3
    <3>2. UNCHANGED <<listed, header>>
        BY <2>2, <2>3 DEF Show
    <3> QED BY <1>1, <2>1, <3>1, <3>2
  <2>4. ASSUME k \in {"list", "detail"}
        PROVE  /\ k = "list" <=> route = "list"
               /\ ~blurred => /\ wire = <<>>
                              /\ gets[k][i].answer = Answer(k, gets[k][i].seg)
      BY <2>1, <2>2, <2>4 DEF TypeOK, ReadsCurrent, Current
  <2>5. CASE k = "list"
    <3>1. listed' = gets[k][i].answer /\ route' = "list" /\ listed' # NoValue
        BY <2>1, <2>2, <2>4, <2>5 DEF Show
    <3>2. ASSUME ~blurred' PROVE wire' = <<>> /\ listed' = size'
        BY <2>1, <2>4, <2>5, <3>1, <3>2 DEF Answer
    <3>3. \A s \in Segments : Adds(<<>>, size[s], size[s], s)
        BY <1>0, AddsNone
    <3>4. ListLoaded'
        BY <2>2, <2>5, <3>1 DEF ListLoaded
    <3>5. CountChain'
        BY <2>1, <3>1, <3>2, <3>3 DEF CountChain
    <3> QED BY <3>4, <3>5
  <2>6. CASE k = "detail"
    <3>1. header' = gets[k][i].answer /\ route' # "list" /\ route' = route
        BY <2>1, <2>2, <2>4, <2>6 DEF Show
    <3>2. ASSUME ~blurred', header'.seg = route
          PROVE  wire' = <<>> /\ header'.count = size'[route]
        BY <2>1, <2>4, <2>6, <3>1, <3>2 DEF Answer
    <3>3. Adds(<<>>, size[route], size[route], route)
        BY <1>0, <3>1, AddsNone
    <3>4. ListLoaded'
        BY <3>1 DEF ListLoaded
    <3>5. CountChain'
        BY <2>1, <3>1, <3>2, <3>3 DEF CountChain
    <3> QED BY <3>4, <3>5
  <2> QED BY <2>3, <2>5, <2>6
<1>7. CASE Receive
  <2> DEFINE e == Head(wire)
  <2>1. /\ wire # <<>> /\ wire' = Tail(wire)
        /\ UNCHANGED <<size, route, blurred, missed>>
      BY <1>7 DEF Receive, server
  <2>2. e \in Events /\ e.seg \in Segments /\ e.change \in Int
      BY <2>1, WireTypes DEF TypeOK, Events
  <2> HIDE DEF e
  <2>3. ASSUME NEW v \in Int, NEW t, NEW s, Adds(wire, v, t, s)
        PROVE  Adds(wire', v + Share(e, s), t, s)
      BY <1>0, <2>1, <2>3, AddsTail DEF e
  <2>4. CASE route = "list" /\ ApplyToList(e)
    <3>1. UNCHANGED <<gets, newest>>
        BY <2>4 DEF ApplyToList
    <3>2. CASE newest["list"] = "sent"
      <4>1. gets["list"] # <<>>
          BY <2>4, <3>2 DEF ListLoaded
      <4> QED BY <1>2, <2>1, <2>4, <3>1, <3>2, <4>1
    <3>3. CASE newest["list"] # "sent"
      <4>1. listed # NoValue /\ listed \in [Segments -> Int]
          BY <1>0, <2>4, <3>3 DEF ListLoaded
      <4>2. listed' = [listed EXCEPT ![e.seg] = listed[e.seg] + e.change]
          BY <2>4, <4>1 DEF ApplyToList
      <4>3. \A s \in Segments : listed'[s] = listed[s] + Share(e, s) /\ listed[s] \in Int
          BY <2>2, <4>1, <4>2 DEF Share
      <4>4. listed' \in Sizes
          BY <2>2, <4>1, <4>2 DEF Sizes
      <4>5. listed' # NoValue
          BY <4>4, NoValueAssumption DEF Answers, Kinds
      <4>6. ListLoaded'
          BY <3>1, <3>3, <4>5 DEF ListLoaded
      <4>7. ASSUME ~blurred, ~missed, NEW s \in Segments
            PROVE  Adds(wire', listed'[s], size'[s], s)
        <5>1. Adds(wire, listed[s], size[s], s)
            BY <2>4, <3>3, <4>7 DEF CountChain
        <5> QED BY <2>1, <2>3, <4>3, <5>1
      <4> QED BY <2>1, <2>4, <3>1, <4>6, <4>7 DEF CountChain
    <3> QED BY <3>2, <3>3
  <2>5. ASSUME route # "list", newest["detail"] = "sent",
               newest'["detail"] = newest["detail"]
        PROVE  ListLoaded' /\ CountChain'
      BY <1>2, <2>1, <2>5
  <2>6. ASSUME route # "list", newest'["detail"] = newest["detail"],
               header'.count = header.count + Share(e, route),
               header'.seg = header.seg,
               newest["detail"] # "sent", header.count \in Int
        PROVE  ListLoaded' /\ CountChain'
    <3>1. ListLoaded'
        BY <2>1, <2>6 DEF ListLoaded
    <3>2. ASSUME ~blurred, ~missed, header.seg = route
          PROVE  Adds(wire', header'.count, size'[route], route)
      <4>1. Adds(wire, header.count, size[route], route)
          BY <2>6, <3>2 DEF CountChain
      <4> QED BY <2>1, <2>3, <2>6, <4>1
    <3>3. CountChain'
        BY <2>1, <2>6, <3>2 DEF CountChain
    <3> QED BY <3>1, <3>3
  <2>7. ASSUME route # "list", newest["detail"] # "sent"
        PROVE  header # NoValue /\ header.count \in Int
      BY <1>0, <2>7 DEF HeaderInPlace
  <2>8. CASE route = e.seg /\ ApplyToDetail(e)
    <3>1. route # "list"
        BY <2>2, <2>8, RouteAssumption
    <3>2. newest'["detail"] = newest["detail"]
        BY <1>0, <2>8 DEF ApplyToDetail
    <3>3. CASE newest["detail"] # "sent"
      <4>1. header'.count = header.count + e.change /\ header'.seg = header.seg
          BY <2>2, <2>7, <2>8, <3>1, <3>3, HeaderCounted DEF ApplyToDetail
      <4> QED BY <2>6, <2>7, <2>8, <3>1, <3>2, <3>3, <4>1 DEF Share
    <3> QED BY <2>5, <3>1, <3>2, <3>3
  <2>9. CASE route \notin {"list", e.seg} /\ UNCHANGED <<gets, newest, header>>
    <3>1. CASE newest["detail"] # "sent"
      <4>1. header'.count = header.count + Share(e, route)
          BY <2>7, <2>9, <3>1 DEF Share
      <4> QED BY <2>6, <2>7, <2>9, <3>1, <4>1
    <3> QED BY <2>5, <2>9, <3>1
  <2> QED BY <1>7, <2>2, <2>4, <2>8, <2>9, RouteAssumption DEF Receive, e
<1>8. CASE Miss
  <2> DEFINE e == Head(wire)
  <2>1. /\ wire # <<>> /\ wire' = Tail(wire)
        /\ UNCHANGED <<size, route, gets, newest, listed, header, blurred>>
        /\ missed' = (missed \/ route \in {"list", e.seg})
      BY <1>8 DEF Miss, server, shown
  <2>2. ListLoaded'
      BY <2>1 DEF ListLoaded
  <2>3. ASSUME ~blurred', ~missed', newest["detail"] # "sent",
               route # "list" => header.seg = route
        PROVE  route # "list" /\ Adds(wire', header.count, size[route], route)
    <3>1. route \notin {"list", e.seg} /\ ~missed /\ ~blurred
        BY <2>1, <2>3
    <3>2. Adds(wire, header.count, size[route], route) /\ header.count \in Int
        BY <1>0, <2>3, <3>1 DEF CountChain, HeaderInPlace
    <3>3. Adds(Tail(wire), header.count + Share(e, route), size[route], route)
        BY <1>0, <2>1, <3>2, AddsTail
    <3>4. header.count + Share(e, route) = header.count
        BY <3>1, <3>2 DEF Share
    <3> QED BY <2>1, <3>1, <3>3, <3>4
  <2>4. ~missed' => route # "list"
      BY <2>1
  <2> QED BY <2>1, <2>2, <2>3, <2>4 DEF CountChain
<1>9. CASE OpenList
  <2>1. /\ route' = "list" /\ gets'["list"] = <<Get(NoValue, 0)>>
        /\ newest'["list"] = "sent"
      BY <1>9 DEF OpenList, ListGets, NoGets, AllSent, Kinds
  <2> QED BY <1>2, <2>1
<1>10. CASE RefreshList
  <2>1. route' = "list" /\ gets'["list"] = Append(gets["list"], Get(NoValue, 0))
      BY <1>0, <1>10 DEF RefreshList
  <2>2. gets["list"] \in Seq(Requests("list")) /\ Get(NoValue, 0) \in Requests("list")
      BY <1>0, RequestTypes
  <2>3. gets'["list"] # <<>> /\ newest'["list"] = "sent"
      BY <1>0, <1>10, <2>1, <2>2, AppendLast DEF RefreshList, AllSent
  <2> QED BY <1>2, <2>1, <2>3
<1>11. ASSUME NEW s \in Segments, OpenDetail(s) PROVE ListLoaded' /\ CountChain'
  <2>1. route' # "list" /\ newest'["detail"] = "sent"
      BY <1>0, <1>11, RouteAssumption DEF OpenDetail, AllSent
  <2> QED BY <1>2, <2>1
<1>12. CASE Reload
  <2>1. route' # "list" /\ newest'["detail"] = "sent"
      BY <1>0, <1>12 DEF Reload, AllSent
  <2> QED BY <1>2, <2>1
<1>13. CASE NextPage \/ PrevPage
  <2>1. PICK o : gets' = [gets EXCEPT !["table"] = Append(@, Get(route, o))]
      BY <1>13 DEF NextPage, PrevPage, TurnTo
  <2>2. gets'["list"] = gets["list"] /\ newest' = Sent({"table"})
      BY <1>0, <1>13, <2>1 DEF NextPage, PrevPage, TurnTo
  <2>3. UNCHANGED <<route, listed, header, wire, size, blurred, missed>>
      BY <1>13 DEF NextPage, PrevPage, TurnTo, Act, server, shown
  <2>4. newest'["list"] = newest["list"] /\ newest'["detail"] = newest["detail"]
      BY <2>2 DEF Sent, Kinds
  <2> QED BY <1>1, <2>2, <2>3, <2>4
<1>14. CASE UNCHANGED vars
    BY <1>1, <1>14 DEF vars
<1> QED BY <1>3, <1>4, <1>5, <1>6, <1>7, <1>8, <1>9, <1>10, <1>11, <1>12,
           <1>13, <1>14 DEF Next

\* At rest a count kept by adding up deltas is the one in the database, in
\* whatever order the answers came, if no event was lost or doubled and none
\* was under way while the count was read; on the detail page, if the header
\* is not that of a segment looked at before.
THEOREM CountsAddUp == Spec => []UnblurredCounts
<1> DEFINE Inv == /\ TypeOK /\ HeaderInPlace /\ ReadsCurrent
                  /\ ListLoaded /\ CountChain
<1>1. Init => Inv
    BY TypeInit, HeaderInit, ReadsInit
<1>2. Inv /\ [Next]_vars => Inv'
    BY TypeStep, HeaderStep, ReadsStep, ChainStep
<1>3. Inv => UnblurredCounts
  <2> SUFFICES ASSUME Inv, Rest, ~blurred, ~missed PROVE CountsRight
      BY DEF UnblurredCounts
  <2>1. wire = <<>> /\ gets["list"] = <<>> /\ gets["detail"] = <<>>
      BY DEF Rest, Kinds
  <2>2. CASE route = "list"
    <3>1. newest["list"] # "sent" /\ listed # NoValue
        BY <2>1, <2>2 DEF ListLoaded
    <3>2. \A s \in Segments : listed[s] = size[s]
        BY <2>1, <2>2, <3>1, AddsNone DEF CountChain
    <3>3. listed \in [Segments -> Int] /\ size \in [Segments -> 0..MaxSize]
        BY <3>1 DEF TypeOK, Sizes
    <3>4. listed = size
        BY <3>2, <3>3
    <3> QED BY <2>2, <3>4 DEF CountsRight
  <2>3. CASE route # "list"
    <3>1. newest["detail"] # "sent"
        BY <2>1, <2>3 DEF HeaderInPlace
    <3>2. header.seg = route => header.count = size[route]
        BY <2>1, <2>3, <3>1, AddsNone DEF CountChain
    <3> QED BY <2>3, <3>2 DEF CountsRight
  <2> QED BY <2>2, <2>3
<1> QED BY <1>1, <1>2, <1>3, PTL DEF Spec
=============================================================================
