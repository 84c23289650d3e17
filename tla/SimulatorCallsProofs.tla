------------------------ MODULE SimulatorCallsProofs ------------------------
(***************************************************************************)
(* SimulatorCalls' invariants for any customers, amounts, counts and       *)
(* chunks, and any number of calls that overlap.                           *)
(***************************************************************************)
EXTENDS SimulatorCalls, FiniteSetTheorems, TLAPS

-----------------------------------------------------------------------------
(* Calls.  A step is about one call, so what holds of each call is stated  *)
(* of its await and its job.                                               *)

\* A bulk call has inserted what is not left, and nothing is left at the end.
Counted(s, j) ==
    /\ j.kind = "bulk-changes" /\ j.ok => j.inserted + j.left = j.number
    /\ s \in {"read", "write", "shift", "answer"} => j.left = 0
    /\ s = "mark" /\ j.kind # "bulk-changes" => j.left = 0

Fits(s, j) ==
    /\ s \in DOMAIN KindsAt
    /\ j \in Jobs
    /\ j.kind \in KindsAt[s]
    /\ j.kind \in {"transaction", "profile-update"} => j.customer \in Customers
    /\ j.ok => InRange(j)
    /\ ~j.ok => s = "answer"
    /\ Counted(s, j)

CallsFit ==
    /\ step \in [Calls -> DOMAIN KindsAt]
    /\ job \in [Calls -> Jobs]
    /\ \A k \in Calls : Fits(step[k], job[k])

Awaits == {"idle", "insert", "read", "write", "chunk", "shift", "mark", "answer"}

LEMMA KindsAtAwaits ==
    /\ DOMAIN KindsAt = Awaits
    /\ KindsAt["idle"] = {"none"}
    /\ KindsAt["insert"] = {"transaction"}
    /\ KindsAt["read"] = {"profile-update"}
    /\ KindsAt["write"] = {"profile-update"}
    /\ KindsAt["chunk"] = {"bulk-changes"}
    /\ KindsAt["shift"] = {"advance-time"}
    /\ KindsAt["mark"] = {"transaction", "profile-update", "bulk-changes",
                          "advance-time"}
    /\ KindsAt["answer"] = KindsAt["mark"]
BY DEF KindsAt, Awaits, Kinds

\* What is left of TypeOK without the calls.
StoreTyped ==
    /\ BagToSet(transactions) \subseteq Rows
    /\ profile \in [Customers -> SUBSET Keys]
    /\ buffer \subseteq Customers
    /\ owed \in [Customers -> SUBSET Keys]

PanelTyped ==
    /\ busy \in BOOLEAN
    /\ mounted \subseteq Calls
    /\ calls \in Nat

LEMMA TypeParts ==
    /\ TypeOK /\ (\A k \in Calls : Counted(step[k], job[k]))
            <=> StoreTyped /\ CallsFit /\ PanelTyped
BY DEF TypeOK, StoreTyped, CallsFit, PanelTyped, Fits

LEMMA OneCall ==
    ASSUME CallsFit, NEW k \in Calls, NEW s, NEW j, Fits(s, j),
           step' = [step EXCEPT ![k] = s], job' = [job EXCEPT ![k] = j]
    PROVE  CallsFit'
<1>1. step' \in [Calls -> DOMAIN KindsAt]
    BY DEF CallsFit, Fits
<1>2. job' \in [Calls -> Jobs]
    BY DEF CallsFit, Fits
<1>3. \A i \in Calls : step'[i] = (IF i = k THEN s ELSE step[i])
                    /\ job'[i] = (IF i = k THEN j ELSE job[i])
    BY DEF CallsFit
<1>4. \A i \in Calls : Fits(step'[i], job'[i])
    BY <1>3 DEF CallsFit
<1> QED BY <1>1, <1>2, <1>4 DEF CallsFit, KindsAt, Fits, Jobs, Counted, InRange

LEMMA SameCalls ==
    ASSUME CallsFit, UNCHANGED <<step, job>>
    PROVE  CallsFit'
BY DEF CallsFit, KindsAt, Fits, Jobs, Counted, InRange

-----------------------------------------------------------------------------
(* What each action makes of its call.                                     *)

LEMMA RequestFits ==
    ASSUME CallsFit, NEW k \in Calls, Request(k)
    PROVE  \E s, j :
            /\ Fits(s, j)
            /\ s \notin {"idle", "write", "mark"}
            /\ s = "chunk" => j.left > 0
            /\ step[k] = "idle"
            /\ step' = [step EXCEPT ![k] = s]
            /\ job' = [job EXCEPT ![k] = j]
<1>1. ASSUME NEW c \in Customers, NEW amount \in Amounts,
             Start(k, "insert", Job("transaction", c, amount, {}, 1))
      PROVE  Fits("insert", Job("transaction", c, amount, {}, 1))
    <2>1. Job("transaction", c, amount, {}, 1) \in Jobs
        BY AmountsAssumption DEF Job, Jobs, Kinds
    <2> QED BY <2>1, KindsAtAwaits DEF Fits, Job, InRange, Counted, Awaits
<1>2. ASSUME NEW c \in Customers, NEW key \in Keys
      PROVE  Fits("read", Job("profile-update", c, 0, {key}, 0))
    <2>1. Job("profile-update", c, 0, {key}, 0) \in Jobs
        BY DEF Job, Jobs, Kinds
    <2> QED BY <2>1, KindsAtAwaits DEF Fits, Job, InRange, Counted, Awaits
<1>3. ASSUME NEW n \in Counts, n \in 1..MaxCount
      PROVE  /\ Fits("chunk", Job("bulk-changes", {}, n, {}, n))
             /\ Job("bulk-changes", {}, n, {}, n).left > 0
    <2>1. n \in Nat
        BY <1>3, NumbersAssumption
    <2>2. Job("bulk-changes", {}, n, {}, n) \in Jobs
        BY <2>1 DEF Job, Jobs, Kinds
    <2> QED BY <1>3, <2>1, <2>2, KindsAtAwaits
            DEF Fits, Job, InRange, Counted, Awaits
<1>4. ASSUME NEW n \in Days, n \in 1..MaxDays
      PROVE  Fits("shift", Job("advance-time", {}, n, {}, 0))
    <2>1. n \in Int
        BY NumbersAssumption
    <2>2. Job("advance-time", {}, n, {}, 0) \in Jobs
        BY <2>1 DEF Job, Jobs, Kinds
    <2> QED BY <1>4, <2>2, KindsAtAwaits DEF Fits, Job, InRange, Counted, Awaits
<1>5. ASSUME NEW n \in Int, NEW kind \in {"bulk-changes", "advance-time"}
      PROVE  Fits("answer", Rejected(kind, n))
    <2>1. /\ Rejected(kind, n) \in Jobs
          /\ Rejected(kind, n).ok = FALSE
          /\ Rejected(kind, n).kind = kind
          /\ Rejected(kind, n).left = 0
        BY DEF Job, Jobs, Kinds, Rejected
    <2> QED BY <2>1, KindsAtAwaits DEF Fits, Counted, Awaits
<1>6. Counts \subseteq Int /\ Days \subseteq Int
    BY NumbersAssumption
<1>7. CASE \E c \in Customers, amount \in Amounts :
                Start(k, "insert", Job("transaction", c, amount, {}, 1))
    BY <1>1, <1>7 DEF Start
<1>8. CASE \E c \in Customers, key \in Keys :
                Start(k, "read", Job("profile-update", c, 0, {key}, 0))
    BY <1>2, <1>8 DEF Start
<1>9. CASE \E n \in Counts :
            IF n \in 1..MaxCount
            THEN Start(k, "chunk", Job("bulk-changes", {}, n, {}, n))
            ELSE Start(k, "answer", Rejected("bulk-changes", n))
    BY <1>3, <1>5, <1>6, <1>9 DEF Start
<1>10. CASE \E n \in Days :
            IF n \in 1..MaxDays
            THEN Start(k, "shift", Job("advance-time", {}, n, {}, 0))
            ELSE Start(k, "answer", Rejected("advance-time", n))
    BY <1>4, <1>5, <1>6, <1>10 DEF Start
<1> QED BY <1>7, <1>8, <1>9, <1>10 DEF Request, RequestCustomer

LEMMA AnswerFits ==
    ASSUME CallsFit, NEW k \in Calls, Answer(k)
    PROVE  Fits("idle", NoJob)
<1>1. NoJob \in Jobs
    BY DEF NoJob, Job, Jobs, Kinds
<1> QED BY <1>1, KindsAtAwaits DEF Fits, NoJob, Job, InRange, Counted, Awaits

LEMMA InsertFits ==
    ASSUME CallsFit, NEW k \in Calls, Insert(k)
    PROVE  \E j : /\ Fits("mark", j)
                  /\ j.touched = {job[k].customer}
                  /\ job' = [job EXCEPT ![k] = j]
<1> DEFINE j == [job[k] EXCEPT !.left = 0, !.touched = {job[k].customer}]
<1>1. /\ job \in [Calls -> Jobs] /\ job[k] \in Jobs
      /\ job[k].kind = "transaction" /\ job[k].customer \in Customers
      /\ job[k].ok
    BY KindsAtAwaits DEF CallsFit, Fits, Insert
<1>2. job' = [job EXCEPT ![k] = j]
    BY <1>1 DEF Insert, Jobs
<1>3. /\ j \in Jobs /\ j.kind = job[k].kind /\ j.customer = job[k].customer
      /\ j.ok = job[k].ok /\ j.left = 0 /\ j.touched = {job[k].customer}
    BY <1>1 DEF Jobs
<1>4. Fits("mark", j)
    BY <1>1, <1>3, KindsAtAwaits DEF Fits, InRange, Counted, Awaits
<1> QED BY <1>2, <1>3, <1>4

LEMMA ReadFits ==
    ASSUME CallsFit, StoreTyped, NEW k \in Calls, Read(k)
    PROVE  \E j : /\ Fits("write", j)
                  /\ j.patch = job[k].patch \cup profile[job[k].customer]
                  /\ j.customer = job[k].customer
                  /\ job' = [job EXCEPT ![k] = j]
<1> DEFINE j == [job[k] EXCEPT !.patch = @ \cup profile[job[k].customer]]
<1>1. /\ job \in [Calls -> Jobs] /\ job[k] \in Jobs
      /\ job[k].kind = "profile-update" /\ job[k].customer \in Customers
      /\ job[k].ok /\ job[k].left = 0
    BY KindsAtAwaits DEF CallsFit, Fits, Read, Counted
<1>2. job' = [job EXCEPT ![k] = j]
    BY <1>1 DEF Read, Jobs
<1>3. profile[job[k].customer] \in SUBSET Keys
    BY <1>1 DEF StoreTyped
<1>4. /\ j \in Jobs /\ j.kind = job[k].kind /\ j.customer = job[k].customer
      /\ j.ok = job[k].ok /\ j.left = 0
      /\ j.patch = job[k].patch \cup profile[job[k].customer]
    BY <1>1, <1>3 DEF Jobs
<1>5. Fits("write", j)
    BY <1>1, <1>4, KindsAtAwaits DEF Fits, InRange, Counted, Awaits
<1> QED BY <1>2, <1>4, <1>5

LEMMA WriteProfileFits ==
    ASSUME CallsFit, NEW k \in Calls, WriteProfile(k)
    PROVE  \E j : /\ Fits("mark", j)
                  /\ j.touched = {job[k].customer}
                  /\ job' = [job EXCEPT ![k] = j]
<1> DEFINE j == [job[k] EXCEPT !.touched = {job[k].customer}]
<1>1. /\ job \in [Calls -> Jobs] /\ job[k] \in Jobs
      /\ job[k].kind = "profile-update" /\ job[k].customer \in Customers
      /\ job[k].ok /\ job[k].left = 0
    BY KindsAtAwaits DEF CallsFit, Fits, WriteProfile, Counted
<1>2. job' = [job EXCEPT ![k] = j]
    BY <1>1 DEF WriteProfile, Jobs
<1>3. /\ j \in Jobs /\ j.kind = job[k].kind /\ j.customer = job[k].customer
      /\ j.ok = job[k].ok /\ j.left = 0 /\ j.touched = {job[k].customer}
    BY <1>1 DEF Jobs
<1>4. Fits("mark", j)
    BY <1>1, <1>3, KindsAtAwaits DEF Fits, InRange, Counted, Awaits
<1> QED BY <1>2, <1>3, <1>4

LEMMA SmallerNumber ==
    ASSUME NEW m \in Nat, NEW n \in Nat
    PROVE  Min({m, n}) = IF m <= n THEN m ELSE n
BY DEF Min

LEMMA ChunkFits ==
    ASSUME CallsFit, NEW k \in Calls, Chunk(k)
    PROVE  \E size \in Nat : \E rows \in [1..size -> BulkRows] : \E j :
            /\ job[k].left > 0 => size > 0
            /\ transactions' = Added(rows)
            /\ Fits("mark", j)
            /\ j.touched = {rows[i].customer : i \in 1..size}
            /\ job' = [job EXCEPT ![k] = j]
<1> DEFINE size == Min({ChunkSize, job[k].left})
<1>1. /\ job \in [Calls -> Jobs] /\ job[k] \in Jobs
      /\ job[k].kind = "bulk-changes" /\ job[k].ok
      /\ InRange(job[k]) /\ job[k].number \in Int
      /\ job[k].inserted \in Nat /\ job[k].left \in Nat
      /\ job[k].inserted + job[k].left = job[k].number
    BY KindsAtAwaits DEF CallsFit, Fits, Chunk, Counted, Jobs
<1>2. /\ size \in Nat
      /\ job[k].left > 0 => size > 0
      /\ job[k].left - size \in Nat
      /\ job[k].inserted + size \in Nat
      /\ (job[k].inserted + size) + (job[k].left - size) = job[k].number
    <2>1. size = IF ChunkSize <= job[k].left THEN ChunkSize ELSE job[k].left
        BY <1>1, SmallerNumber, ChunkSizeAssumption
    <2> QED BY <1>1, <2>1, ChunkSizeAssumption
<1>3. PICK rows \in [1..size -> BulkRows] :
            /\ transactions' = Added(rows)
            /\ job' = [job EXCEPT
                    ![k].left = @ - size,
                    ![k].inserted = @ + size,
                    ![k].touched = {rows[i].customer : i \in 1..size}]
    BY DEF Chunk
<1> DEFINE touched == {rows[i].customer : i \in 1..size}
           j == [job[k] EXCEPT !.left = @ - size, !.inserted = @ + size,
                               !.touched = touched]
<1> HIDE DEF size
<1>4. touched \subseteq Customers
    BY <1>3 DEF BulkRows
<1> HIDE DEF touched
<1>5. job' = [job EXCEPT ![k] = j]
    BY <1>1, <1>3 DEF Jobs, touched
<1>6. /\ j \in Jobs /\ j.kind = "bulk-changes" /\ j.ok
      /\ j.number = job[k].number /\ j.touched = touched
      /\ j.inserted + j.left = j.number
    BY <1>1, <1>2, <1>4 DEF Jobs
<1>7. Fits("mark", j)
    <2>1. InRange(j)
        BY <1>1, <1>6 DEF InRange
    <2> QED BY <1>6, <2>1, KindsAtAwaits DEF Fits, Counted, Awaits
<1> QED BY <1>2, <1>3, <1>5, <1>6, <1>7 DEF touched

LEMMA ShiftFits ==
    ASSUME CallsFit, NEW k \in Calls, Shift(k)
    PROVE  /\ job[k].number \in Nat
           /\ \E j : /\ Fits("mark", j)
                     /\ j.touched = Customers
                     /\ job' = [job EXCEPT ![k] = j]
<1> DEFINE j == [job[k] EXCEPT !.touched = Customers]
<1>1. /\ job \in [Calls -> Jobs] /\ job[k] \in Jobs
      /\ job[k].kind = "advance-time" /\ job[k].ok
      /\ InRange(job[k]) /\ job[k].left = 0
    BY KindsAtAwaits DEF CallsFit, Fits, Shift, Counted
<1>2. job[k].number \in Nat
    BY <1>1, NumbersAssumption DEF InRange, Jobs
<1>3. job' = [job EXCEPT ![k] = j]
    BY <1>1 DEF Shift, Jobs
<1>4. /\ j \in Jobs /\ j.kind = job[k].kind /\ j.number = job[k].number
      /\ j.ok = job[k].ok /\ j.left = 0 /\ j.touched = Customers
    BY <1>1 DEF Jobs
<1>5. Fits("mark", j)
    BY <1>1, <1>4, KindsAtAwaits DEF Fits, InRange, Counted, Awaits
<1> QED BY <1>2, <1>3, <1>4, <1>5

LEMMA MarkFits ==
    ASSUME CallsFit, NEW k \in Calls, Mark(k)
    PROVE  /\ job[k].touched \subseteq Customers
           /\ \E s \in {"chunk", "answer"} : \E j :
                    /\ Fits(s, j)
                    /\ s = "chunk" => j.left > 0
                    /\ step' = [step EXCEPT ![k] = s]
                    /\ job' = [job EXCEPT ![k] = j]
<1> DEFINE j == [job[k] EXCEPT !.touched = {}]
           s == IF job[k].left = 0 THEN "answer" ELSE "chunk"
<1>1. /\ job \in [Calls -> Jobs] /\ job[k] \in Jobs
      /\ job[k].kind \in KindsAt["mark"] /\ job[k].ok
      /\ Fits("mark", job[k])
    BY KindsAtAwaits DEF CallsFit, Fits, Mark
<1>2. job' = [job EXCEPT ![k] = j]
    BY <1>1 DEF Mark, Jobs
<1>3. /\ j \in Jobs /\ j.kind = job[k].kind /\ j.number = job[k].number
      /\ j.ok = job[k].ok /\ j.left = job[k].left /\ j.inserted = job[k].inserted
      /\ j.customer = job[k].customer
    BY <1>1 DEF Jobs
<1>4. Fits(s, j)
    <2>1. CASE job[k].left = 0
        BY <1>1, <1>3, <2>1, KindsAtAwaits DEF Fits, InRange, Counted, Awaits
    <2>2. CASE job[k].left # 0
        BY <1>1, <1>3, <2>2, KindsAtAwaits DEF Fits, InRange, Counted, Awaits
    <2> QED BY <2>1, <2>2
<1>5. step' = [step EXCEPT ![k] = s]
    BY DEF Mark
<1>6. job[k].touched \subseteq Customers
    BY <1>1 DEF Jobs
<1>7. s \in {"chunk", "answer"} /\ (s = "chunk" => j.left > 0)
    BY <1>1, <1>3 DEF Jobs
<1> HIDE DEF j, s
<1> QED BY <1>2, <1>4, <1>5, <1>6, <1>7

-----------------------------------------------------------------------------
(* Rows.                                                                   *)

LEMMA OlderAge ==
    ASSUME NEW age \in 0..(Age90 + 1), NEW days \in Nat
    PROVE  Older(age, days) \in 0..(Age90 + 1)
BY WindowAssumption DEF Older

LEMMA ShiftedRows ==
    ASSUME NEW days \in Nat, BagToSet(transactions) \subseteq Rows
    PROVE  BagToSet(Shifted(days)) \subseteq Rows
<1> DEFINE Now(t) == [t EXCEPT !.age = Older(@, days)]
<1>1. BagToSet(Shifted(days)) = {Now(t) : t \in BagToSet(transactions)}
    BY DEF Shifted, BagToSet
<1>2. ASSUME NEW t \in Rows
      PROVE  Now(t) \in Rows
    BY OlderAge DEF Rows
<1> HIDE DEF Now
<1> QED BY <1>1, <1>2

LEMMA AddedRows ==
    ASSUME NEW rows, ToSet(rows) \subseteq Rows,
           BagToSet(transactions) \subseteq Rows,
           transactions' = Added(rows)
    PROVE  /\ BagToSet(transactions)' \subseteq Rows
           /\ \A c : (\A t \in ToSet(rows) : t.customer # c) =>
                [t \in RowsOf(c) |-> transactions[t]]' =
                    [t \in RowsOf(c) |-> transactions[t]]
<1>1. /\ DOMAIN transactions' = DOMAIN transactions \cup ToSet(rows)
      /\ \A t \in DOMAIN transactions :
            t \notin ToSet(rows) => transactions'[t] = transactions[t]
    BY DEF Added, BagToSet
<1>2. BagToSet(transactions)' \subseteq Rows
    BY <1>1 DEF BagToSet
<1>3. ASSUME NEW c, \A t \in ToSet(rows) : t.customer # c
      PROVE  [t \in RowsOf(c) |-> transactions[t]]' =
                [t \in RowsOf(c) |-> transactions[t]]
    <2>1. RowsOf(c)' = RowsOf(c)
        BY <1>1, <1>3 DEF RowsOf, BagToSet
    <2>2. \A t \in RowsOf(c) : transactions'[t] = transactions[t]
        BY <1>1, <1>3 DEF RowsOf, BagToSet
    <2> QED BY <2>1, <2>2
<1> QED BY <1>2, <1>3

-----------------------------------------------------------------------------
(* Type correctness. *)

TypeInv == StoreTyped /\ CallsFit /\ PanelTyped

LEMMA InitTypes == Init => TypeInv
<1> SUFFICES ASSUME Init PROVE TypeInv
    OBVIOUS
<1>1. NoJob \in Jobs /\ NoJob.kind = "none" /\ NoJob.ok /\ NoJob.left = 0
    BY DEF NoJob, Job, Jobs, Kinds
<1>2. Fits("idle", NoJob)
    BY <1>1, KindsAtAwaits DEF Fits, InRange, Counted, Awaits
<1>3. CallsFit
    BY <1>1, <1>2, KindsAtAwaits DEF Init, CallsFit, Awaits
<1>4. BagToSet(transactions) = {}
    BY DEF Init, EmptyBag, SetToBag, BagToSet
<1>5. StoreTyped
    BY <1>4 DEF Init, StoreTyped
<1> QED BY <1>3, <1>5 DEF Init, TypeInv, PanelTyped

\* A step of a call, at its await.
LEMMA CallTypes ==
    ASSUME TypeInv, NEW k \in Calls, Fire(k) \/ EndpointStep(k) \/ Answer(k)
    PROVE  CallsFit'
<1> USE DEF TypeInv
<1>1. CASE Fire(k)
    <2>1. Request(k)
        BY <1>1 DEF Fire
    <2> QED BY <2>1, RequestFits, OneCall
<1>2. CASE Answer(k)
    <2>1. Fits("idle", NoJob)
        BY <1>2, AnswerFits
    <2> QED BY <1>2, <2>1, OneCall DEF Answer
<1>3. CASE Insert(k)
    BY <1>3, InsertFits, OneCall DEF Insert
<1>4. CASE Read(k)
    BY <1>4, ReadFits, OneCall DEF Read
<1>5. CASE WriteProfile(k)
    BY <1>5, WriteProfileFits, OneCall DEF WriteProfile
<1>6. CASE Chunk(k)
    BY <1>6, ChunkFits, OneCall DEF Chunk
<1>7. CASE Shift(k)
    BY <1>7, ShiftFits, OneCall DEF Shift
<1>8. CASE Mark(k)
    BY <1>8, MarkFits, OneCall
<1> QED BY <1>1, <1>2, <1>3, <1>4, <1>5, <1>6, <1>7, <1>8 DEF EndpointStep

LEMMA InsertStores ==
    ASSUME TypeInv, NEW k \in Calls, Insert(k)
    PROVE  /\ BagToSet(transactions)' \subseteq Rows
           /\ \A c : c # job[k].customer =>
                [t \in RowsOf(c) |-> transactions[t]]' =
                    [t \in RowsOf(c) |-> transactions[t]]
<1>1. PICK age \in Ages : transactions' = Added(<<
            [customer |-> job[k].customer, amount |-> job[k].number, age |-> age]>>)
    BY DEF Insert
<1> DEFINE r == [customer |-> job[k].customer, amount |-> job[k].number, age |-> age]
<1>2. job[k] \in Jobs /\ job[k].customer \in Customers
    BY KindsAtAwaits DEF TypeInv, CallsFit, Fits, Insert
<1>3. age \in 0..(Age90 + 1)
    BY AgesAssumption, WindowAssumption
<1>4. r \in Rows
    BY <1>2, <1>3 DEF Rows, Jobs
<1>5. r.customer = job[k].customer
    OBVIOUS
<1> HIDE DEF r
<1>6. ToSet(<<r>>) = {r}
    BY DEF ToSet
<1>7. transactions' = Added(<<r>>)
    BY <1>1 DEF r
<1>8. BagToSet(transactions) \subseteq Rows
    BY DEF TypeInv, StoreTyped
<1> QED BY <1>4, <1>5, <1>6, <1>7, <1>8, AddedRows

LEMMA ChunkStores ==
    ASSUME TypeInv, NEW size \in Nat, NEW rows \in [1..size -> BulkRows],
           transactions' = Added(rows)
    PROVE  /\ BagToSet(transactions)' \subseteq Rows
           /\ \A c : c \notin {rows[i].customer : i \in 1..size} =>
                [t \in RowsOf(c) |-> transactions[t]]' =
                    [t \in RowsOf(c) |-> transactions[t]]
<1>1. BulkRows \subseteq Rows
    <2>1. 0..(Window60 - 1) \subseteq 0..(Age90 + 1)
        BY WindowAssumption
    <2>2. {a \in Amounts : a > 0} \subseteq Int
        BY AmountsAssumption
    <2> QED BY <2>1, <2>2 DEF BulkRows, Rows
<1>2. ToSet(rows) = {rows[i] : i \in 1..size}
    BY DEF ToSet
<1>3. ToSet(rows) \subseteq Rows
    BY <1>1, <1>2
<1>4. BagToSet(transactions) \subseteq Rows
    BY DEF TypeInv, StoreTyped
<1> QED BY <1>2, <1>3, <1>4, AddedRows

LEMMA StoreTypes ==
    ASSUME TypeInv, [Next]_vars
    PROVE  StoreTyped'
<1> USE DEF TypeInv
<1>1. ASSUME UNCHANGED <<transactions, profile, buffer, owed>>
      PROVE  StoreTyped'
    BY <1>1 DEF StoreTyped, BagToSet
<1>2. ASSUME NEW k \in Calls, Fire(k)
      PROVE  StoreTyped'
    BY <1>1, <1>2 DEF Fire, Request, RequestCustomer, Start, data
<1>3. ASSUME NEW k \in Calls, Answer(k)
      PROVE  StoreTyped'
    BY <1>1, <1>3 DEF Answer, data
<1>4. ASSUME NEW k \in Calls, Insert(k)
      PROVE  StoreTyped'
    BY <1>4, InsertStores DEF StoreTyped, Insert
<1>5. ASSUME NEW k \in Calls, Read(k)
      PROVE  StoreTyped'
    BY <1>1, <1>5 DEF Read, data
<1>6. ASSUME NEW k \in Calls, WriteProfile(k)
      PROVE  StoreTyped'
    <2>1. job[k].patch \in SUBSET Keys
        BY DEF CallsFit, Jobs
    <2> QED BY <1>6, <2>1 DEF StoreTyped, WriteProfile, BagToSet
<1>7. ASSUME NEW k \in Calls, Chunk(k)
      PROVE  StoreTyped'
    <2>1. BagToSet(transactions)' \subseteq Rows
      <3>1. PICK size \in Nat : \E rows \in [1..size -> BulkRows] : \E j :
              /\ job[k].left > 0 => size > 0
              /\ transactions' = Added(rows)
              /\ Fits("mark", j)
              /\ j.touched = {rows[i].customer : i \in 1..size}
              /\ job' = [job EXCEPT ![k] = j]
          BY <1>7, ChunkFits
      <3>2. PICK rows \in [1..size -> BulkRows] : transactions' = Added(rows)
          BY <3>1
      <3> QED BY <3>2, ChunkStores
    <2> QED BY <1>7, <2>1 DEF StoreTyped, Chunk
<1>8. ASSUME NEW k \in Calls, Shift(k)
      PROVE  StoreTyped'
    <2>1. job[k].number \in Nat
        BY <1>8, ShiftFits
    <2>2. BagToSet(transactions') \subseteq Rows
        BY <1>8, <2>1, ShiftedRows DEF StoreTyped, Shift
    <2> QED BY <1>8, <2>2 DEF StoreTyped, Shift
<1>9. ASSUME NEW k \in Calls, Mark(k)
      PROVE  StoreTyped'
    <2>1. job[k].touched \subseteq Customers
        BY <1>9, MarkFits
    <2> QED BY <1>9, <2>1 DEF StoreTyped, Mark, data, BagToSet
<1>10. CASE Remount
    BY <1>1, <1>10 DEF Remount, data
<1>11. CASE Take
    BY <1>11 DEF Take, StoreTyped, data, BagToSet
<1>12. CASE Day
    <2>1. BagToSet(transactions') \subseteq Rows
        BY <1>12, ShiftedRows DEF StoreTyped, Day
    <2> QED BY <1>12, <2>1 DEF Day, StoreTyped
<1>13. CASE UNCHANGED vars
    BY <1>1, <1>13 DEF vars
<1> QED BY <1>2, <1>3, <1>4, <1>5, <1>6, <1>7, <1>8, <1>9, <1>10, <1>11, <1>12,
           <1>13 DEF Next, CallStep, EndpointStep

LEMMA PanelTypes ==
    ASSUME TypeInv, [Next]_vars
    PROVE  PanelTyped'
<1> USE DEF TypeInv, PanelTyped
<1>1. ASSUME NEW k \in Calls, Fire(k)
      PROVE  PanelTyped'
    <2>1. calls' = calls + 1
        BY <1>1 DEF Fire, Request, RequestCustomer, Start
    <2> QED BY <1>1, <2>1 DEF Fire
<1>2. ASSUME NEW k \in Calls, Answer(k)
      PROVE  PanelTyped'
    BY <1>2 DEF Answer
<1>3. ASSUME NEW k \in Calls, EndpointStep(k)
      PROVE  PanelTyped'
    BY <1>3 DEF EndpointStep, Insert, Read, WriteProfile, Chunk, Shift, Mark
<1>4. CASE Remount
    BY <1>4 DEF Remount
<1>5. CASE Take \/ Day \/ UNCHANGED vars
    BY <1>5 DEF Take, Day, vars
<1> QED BY <1>1, <1>2, <1>3, <1>4, <1>5 DEF Next, CallStep

LEMMA NextTypes == TypeInv /\ [Next]_vars => TypeInv'
<1> SUFFICES ASSUME TypeInv, [Next]_vars PROVE TypeInv'
    OBVIOUS
<1>1. CallsFit'
    <2>1. CASE \E k \in Calls : Fire(k) \/ EndpointStep(k) \/ Answer(k)
        BY <2>1, CallTypes
    <2>2. CASE Remount \/ Take \/ Day \/ UNCHANGED vars
        BY <2>2, SameCalls DEF TypeInv, Remount, Take, Day, vars
    <2> QED BY <2>1, <2>2 DEF Next, CallStep
<1>2. StoreTyped' /\ PanelTyped'
    BY StoreTypes, PanelTypes
<1> QED BY <1>1, <1>2 DEF TypeInv

LEMMA Types == Spec => []TypeInv
<1>1. Init => TypeInv
    BY InitTypes
<1>2. TypeInv /\ [Next]_vars => TypeInv'
    BY NextTypes
<1> QED BY <1>1, <1>2, PTL DEF Spec

(* SimulatorController: whatever calls overlap, each stays at an await of  *)
(* its own endpoint, no number out of range gets past the check, and the   *)
(* rows and patches written are of existing customers.                     *)
THEOREM TypeCorrect == Spec => []TypeOK
<1>1. TypeInv => TypeOK
    BY TypeParts DEF TypeInv
<1> QED BY <1>1, Types, PTL

(* simulateBulk: a bulk call that is answered with success has inserted    *)
(* exactly the rows it was asked for, for every count and chunk size, and  *)
(* whatever the last chunk is left with.                                   *)
THEOREM BulkIsExact == Spec => []BulkExact
<1>1. TypeInv => BulkExact
    BY DEF TypeInv, CallsFit, Fits, Counted, BulkExact, Jobs
<1> QED BY <1>1, Types, PTL

-----------------------------------------------------------------------------
(* Patches.                                                                *)

\* What is to be written has all the keys that the profile owes.
PatchInv ==
    /\ PatchKept
    /\ \A k \in Calls : step[k] = "write" =>
            owed[job[k].customer] \subseteq job[k].patch

LEMMA PatchSame ==
    ASSUME PatchInv, UNCHANGED <<profile, owed>>, NEW k \in Calls,
           \A i \in Calls : /\ i # k => step'[i] = step[i] /\ job'[i] = job[i]
                            /\ i = k => step'[i] # "write"
    PROVE  PatchInv'
BY DEF PatchInv, PatchKept

LEMMA PatchInduction == TypeInv /\ PatchInv /\ [Next]_vars => PatchInv'
<1> SUFFICES ASSUME TypeInv, PatchInv, [Next]_vars
             PROVE  PatchInv'
    OBVIOUS
<1>1. /\ step \in [Calls -> DOMAIN KindsAt] /\ job \in [Calls -> Jobs]
      /\ profile \in [Customers -> SUBSET Keys]
      /\ owed \in [Customers -> SUBSET Keys]
      /\ \A k \in Calls : step[k] \in {"read", "write"} =>
            job[k].customer \in Customers
    BY KindsAtAwaits DEF TypeInv, StoreTyped, CallsFit, Fits
<1>2. ASSUME NEW k \in Calls, Fire(k)
      PROVE  PatchInv'
    <2>1. Request(k)
        BY <1>2 DEF Fire
    <2>2. PICK s, j : /\ s # "write"
                      /\ step' = [step EXCEPT ![k] = s]
                      /\ job' = [job EXCEPT ![k] = j]
        BY <2>1, RequestFits DEF TypeInv
    <2>3. UNCHANGED <<profile, owed>>
        BY <2>1 DEF Request, RequestCustomer, Start, data
    <2> QED BY <1>1, <2>2, <2>3, PatchSame
<1>3. ASSUME NEW k \in Calls, Read(k)
      PROVE  PatchInv'
    <2>1. PICK j : /\ j.patch = job[k].patch \cup profile[job[k].customer]
                   /\ j.customer = job[k].customer
                   /\ job' = [job EXCEPT ![k] = j]
        BY <1>3, ReadFits DEF TypeInv
    <2>2. owed[j.customer] \subseteq j.patch
        BY <1>1, <1>3, <2>1 DEF PatchInv, PatchKept, Read
    <2> QED BY <1>1, <1>3, <2>1, <2>2 DEF PatchInv, PatchKept, Read, data
<1>4. ASSUME NEW k \in Calls, WriteProfile(k)
      PROVE  PatchInv'
    <2> DEFINE c == job[k].customer
    <2>1. /\ c \in Customers /\ step[k] = "write"
          /\ profile' = [profile EXCEPT ![c] = job[k].patch]
          /\ owed' = [owed EXCEPT ![c] = IF Overlapping(k, c) = {}
                                         THEN @ \cup job[k].patch ELSE @]
        BY <1>1, <1>4 DEF WriteProfile
    <2>2. PICK j : job' = [job EXCEPT ![k] = j]
        BY <1>4, WriteProfileFits DEF TypeInv
    <2>3. owed'[c] \subseteq job[k].patch
        BY <1>1, <2>1 DEF PatchInv
    <2>4. PatchKept'
        BY <1>1, <2>1, <2>3 DEF PatchInv, PatchKept
    <2>5. ASSUME NEW i \in Calls, step'[i] = "write"
          PROVE  owed'[job'[i].customer] \subseteq job'[i].patch
        <3>1. i # k /\ step[i] = "write" /\ job'[i] = job[i]
            BY <1>1, <1>4, <2>2, <2>5 DEF WriteProfile
        <3>2. CASE job[i].customer = c
            \* The profile of c has been read meanwhile, and nothing is owed.
            <4>1. i \in Overlapping(k, c)
                BY <3>1, <3>2 DEF Overlapping
            <4> QED BY <1>1, <2>1, <3>1, <3>2, <4>1 DEF PatchInv
        <3>3. CASE job[i].customer # c
            BY <1>1, <2>1, <3>1, <3>3 DEF PatchInv
        <3> QED BY <3>2, <3>3
    <2> QED BY <2>4, <2>5 DEF PatchInv
<1>5. ASSUME NEW k \in Calls, Insert(k) \/ Chunk(k) \/ Shift(k) \/ Mark(k) \/ Answer(k)
      PROVE  PatchInv'
    <2>1. UNCHANGED <<profile, owed>>
        BY <1>5 DEF Insert, Chunk, Shift, Mark, Answer, data
    <2>2. \A i \in Calls : i = k => step'[i] # "write"
        BY <1>1, <1>5 DEF Insert, Chunk, Shift, Mark, Answer
    <2>3. \A i \in Calls : i # k => step'[i] = step[i]
        BY <1>1, <1>5 DEF Insert, Chunk, Shift, Mark, Answer
    <2>4. \E j : job' = [job EXCEPT ![k] = j]
      <3>1. CallsFit
          BY DEF TypeInv
      <3>2. CASE Insert(k)
          BY <3>1, <3>2, InsertFits
      <3>3. CASE Chunk(k)
          BY <3>3 DEF Chunk
      <3>4. CASE Shift(k)
          BY <3>1, <3>4, ShiftFits
      <3>5. CASE Mark(k)
          BY <3>1, <3>5, MarkFits
      <3>6. CASE Answer(k)
          BY <3>6 DEF Answer
      <3> QED BY <1>5, <3>2, <3>3, <3>4, <3>5, <3>6
    <2>5. \A i \in Calls : i # k => job'[i] = job[i]
        BY <1>1, <2>4
    <2> QED BY <2>1, <2>2, <2>3, <2>5, PatchSame
<1>6. CASE Remount \/ Take \/ Day \/ UNCHANGED vars
    BY <1>6 DEF PatchInv, PatchKept, Remount, Take, Day, vars, data
<1> QED BY <1>2, <1>3, <1>4, <1>5, <1>6 DEF Next, CallStep, EndpointStep

(* simulateProfile: what a patch has set stays set, whatever other patches *)
(* come, unless one was written between the read and the write of another. *)
THEOREM PatchesAreKept == Spec => []PatchKept
<1>1. Init => PatchInv
    BY DEF Init, PatchInv, PatchKept
<1>2. TypeInv /\ PatchInv /\ [Next]_vars => PatchInv'
    BY PatchInduction
<1>3. PatchInv => PatchKept
    BY DEF PatchInv
<1> QED BY <1>1, <1>2, <1>3, Types, PTL DEF Spec

-----------------------------------------------------------------------------
(* The panel.                                                              *)

PanelInv ==
    /\ busy => \E k \in Calls : mounted = {k}
    /\ ~busy => mounted = {}
    /\ \A k \in mounted : step[k] # "idle"

LEMMA PanelInduction == TypeInv /\ PanelInv /\ [Next]_vars => PanelInv'
<1> SUFFICES ASSUME TypeInv, PanelInv, [Next]_vars
             PROVE  PanelInv'
    OBVIOUS
<1>1. step \in [Calls -> DOMAIN KindsAt]
    BY DEF TypeInv, CallsFit
<1>2. ASSUME NEW k \in Calls, Fire(k)
      PROVE  PanelInv'
    <2>1. PICK s : s # "idle" /\ step' = [step EXCEPT ![k] = s]
        BY <1>2, RequestFits DEF TypeInv, Fire
    <2>2. busy' /\ mounted' = {k}
        BY <1>2 DEF PanelInv, Fire
    <2> QED BY <1>1, <2>1, <2>2 DEF PanelInv
<1>3. ASSUME NEW k \in Calls, Answer(k)
      PROVE  PanelInv'
    <2>1. CASE k \in mounted
        <3>1. mounted = {k}
            BY <2>1 DEF PanelInv
        <3> QED BY <1>3, <2>1, <3>1 DEF PanelInv, Answer
    <2>2. CASE k \notin mounted
        BY <1>1, <1>3, <2>2 DEF PanelInv, Answer
    <2> QED BY <2>1, <2>2
<1>4. ASSUME NEW k \in Calls, EndpointStep(k)
      PROVE  PanelInv'
    <2>1. \E s : s # "idle" /\ step' = [step EXCEPT ![k] = s]
        BY <1>4 DEF EndpointStep, Insert, Read, WriteProfile, Chunk, Shift, Mark
    <2>2. UNCHANGED <<busy, mounted>>
        BY <1>4 DEF EndpointStep, Insert, Read, WriteProfile, Chunk, Shift, Mark
    <2>3. \A i \in Calls : step'[i] = "idle" => step[i] = "idle"
        BY <1>1, <2>1
    <2>4. mounted \subseteq Calls
        BY DEF TypeInv, PanelTyped
    <2> QED BY <2>2, <2>3, <2>4 DEF PanelInv
<1>5. CASE Remount
    BY <1>5 DEF PanelInv, Remount
<1>6. CASE Take \/ Day \/ UNCHANGED vars
    BY <1>6 DEF PanelInv, Take, Day, vars
<1> QED BY <1>2, <1>3, <1>4, <1>5, <1>6 DEF Next, CallStep

(* SimulatorPanel: the buttons are disabled exactly as long as a call of   *)
(* this panel is under way, whenever calls of panels that were left are    *)
(* answered, and so a panel never has two calls.                           *)
THEOREM PanelHasOneCall == Spec => []OneCallPerPanel
<1>1. Init => PanelInv
    BY DEF Init, PanelInv
<1>2. TypeInv /\ PanelInv /\ [Next]_vars => PanelInv'
    BY PanelInduction
<1>3. TypeInv /\ PanelInv => OneCallPerPanel
    <2>1. Cardinality({}) = 0 /\ \A k : Cardinality({k}) = 1
        BY FS_EmptySet, FS_Singleton
    <2> QED BY <2>1 DEF TypeInv, PanelTyped, PanelInv, OneCallPerPanel
<1> QED BY <1>1, <1>2, <1>3, Types, PTL DEF Spec

-----------------------------------------------------------------------------
(* Signals.                                                                *)

\* What EachWriteSignalled says of a step.
StepSignals ==
    /\ \A c \in Customers :
        c \in Marking \/ (step' # step /\ StoredOf(c)' # StoredOf(c)) =>
            c \in Marking' \cup buffer'
    /\ buffer \subseteq buffer' \/ (buffer' = {} /\ Marking' = Marking)

LEMMA MarkingMembers ==
    \A c : c \in Marking <=>
        \E k \in Calls : step[k] = "mark" /\ c \in job[k].touched
BY DEF Marking

LEMMA MarkingAfter ==
    ASSUME TypeInv, NEW k \in Calls, NEW s, NEW j,
           step' = [step EXCEPT ![k] = s], job' = [job EXCEPT ![k] = j]
    PROVE  /\ step[k] # "mark" => Marking \subseteq Marking'
           /\ Marking \subseteq Marking' \cup job[k].touched
           /\ s = "mark" => j.touched \subseteq Marking'
<1>1. /\ step'[k] = s /\ job'[k] = j
      /\ \A i \in Calls : i # k => step'[i] = step[i] /\ job'[i] = job[i]
    BY DEF TypeInv, CallsFit
<1>2. \A c : c \in Marking' <=>
            \E i \in Calls : step'[i] = "mark" /\ c \in job'[i].touched
    BY DEF Marking
<1> QED BY <1>1, <1>2, MarkingMembers

LEMMA StoredAfter ==
    ASSUME NEW c, UNCHANGED profile,
           [t \in RowsOf(c) |-> transactions[t]]' = [t \in RowsOf(c) |-> transactions[t]]
    PROVE  StoredOf(c)' = StoredOf(c)
BY DEF StoredOf

\* A step of k that writes, and is then about to mark whom it wrote to.
LEMMA WritesSignal ==
    ASSUME TypeInv, NEW k \in Calls, NEW j, step[k] # "mark",
           step' = [step EXCEPT ![k] = "mark"], job' = [job EXCEPT ![k] = j],
           UNCHANGED buffer,
           \A c \in Customers \ j.touched : StoredOf(c)' = StoredOf(c)
    PROVE  StepSignals
BY MarkingAfter DEF StepSignals

\* A step of k that writes nothing.
LEMMA OthersSignal ==
    ASSUME TypeInv, NEW k \in Calls, NEW s, NEW j, step[k] # "mark",
           step' = [step EXCEPT ![k] = s], job' = [job EXCEPT ![k] = j],
           UNCHANGED <<data, buffer>>
    PROVE  StepSignals
<1>1. \A c : StoredOf(c)' = StoredOf(c)
    BY DEF StoredOf, RowsOf, BagToSet, data
<1> QED BY <1>1, MarkingAfter DEF StepSignals

LEMMA EachStepSignals == TypeInv /\ [Next]_vars => StepSignals
<1> SUFFICES ASSUME TypeInv, [Next]_vars
             PROVE  StepSignals
    OBVIOUS
<1>1. /\ step \in [Calls -> DOMAIN KindsAt] /\ job \in [Calls -> Jobs]
      /\ profile \in [Customers -> SUBSET Keys]
    BY DEF TypeInv, StoreTyped, CallsFit
<1>2. ASSUME NEW k \in Calls, Fire(k)
      PROVE  StepSignals
    <2>1. Request(k)
        BY <1>2 DEF Fire
    <2>2. \E s, j : /\ step[k] = "idle"
                    /\ step' = [step EXCEPT ![k] = s]
                    /\ job' = [job EXCEPT ![k] = j]
        BY <2>1, RequestFits DEF TypeInv
    <2>3. UNCHANGED <<data, buffer>>
        BY <2>1 DEF Request, RequestCustomer, Start
    <2> QED BY <2>2, <2>3, OthersSignal
<1>3. ASSUME NEW k \in Calls, Answer(k)
      PROVE  StepSignals
    BY <1>3, OthersSignal DEF Answer
<1>4. ASSUME NEW k \in Calls, Read(k)
      PROVE  StepSignals
    BY <1>4, OthersSignal DEF Read
<1>5. ASSUME NEW k \in Calls, Insert(k)
      PROVE  StepSignals
    <2>1. PICK j : /\ j.touched = {job[k].customer}
                   /\ job' = [job EXCEPT ![k] = j]
        BY <1>5, InsertFits DEF TypeInv
    <2>2. UNCHANGED <<profile, buffer>>
        BY <1>5 DEF Insert
    <2>3. \A c \in Customers \ j.touched : StoredOf(c)' = StoredOf(c)
        BY <1>5, <2>1, <2>2, InsertStores, StoredAfter
    <2>4. step[k] # "mark" /\ step' = [step EXCEPT ![k] = "mark"]
        BY <1>5 DEF Insert
    <2> QED BY <2>1, <2>2, <2>3, <2>4, WritesSignal
<1>6. ASSUME NEW k \in Calls, WriteProfile(k)
      PROVE  StepSignals
    <2>1. PICK j : /\ j.touched = {job[k].customer}
                   /\ job' = [job EXCEPT ![k] = j]
        BY <1>6, WriteProfileFits DEF TypeInv
    <2>2. UNCHANGED <<transactions, buffer>>
        BY <1>6 DEF WriteProfile
    <2>3. \A c \in Customers \ j.touched : profile'[c] = profile[c]
        BY <1>1, <1>6, <2>1 DEF WriteProfile
    <2>4. \A c \in Customers \ j.touched : StoredOf(c)' = StoredOf(c)
        BY <2>2, <2>3 DEF StoredOf, RowsOf, BagToSet
    <2>5. step[k] # "mark" /\ step' = [step EXCEPT ![k] = "mark"]
        BY <1>6 DEF WriteProfile
    <2> QED BY <2>1, <2>2, <2>4, <2>5, WritesSignal
<1>7. ASSUME NEW k \in Calls, Chunk(k)
      PROVE  StepSignals
    <2>0. CallsFit
        BY DEF TypeInv
    <2>1. PICK size \in Nat : \E rows \in [1..size -> BulkRows] : \E j :
            /\ job[k].left > 0 => size > 0
            /\ transactions' = Added(rows)
            /\ Fits("mark", j)
            /\ j.touched = {rows[i].customer : i \in 1..size}
            /\ job' = [job EXCEPT ![k] = j]
        BY <1>7, <2>0, ChunkFits
    <2>2. PICK rows \in [1..size -> BulkRows] : \E j :
            /\ transactions' = Added(rows)
            /\ j.touched = {rows[i].customer : i \in 1..size}
            /\ job' = [job EXCEPT ![k] = j]
        BY <2>1
    <2>3. PICK j : /\ j.touched = {rows[i].customer : i \in 1..size}
                   /\ job' = [job EXCEPT ![k] = j]
        BY <2>2
    <2>4. UNCHANGED <<profile, buffer>>
        BY <1>7 DEF Chunk
    <2>5. \A c : c \notin j.touched =>
            [t \in RowsOf(c) |-> transactions[t]]' =
                [t \in RowsOf(c) |-> transactions[t]]
        BY <2>2, <2>3, ChunkStores
    <2>6. \A c \in Customers \ j.touched : StoredOf(c)' = StoredOf(c)
        BY <2>4, <2>5, StoredAfter
    <2>7. step[k] # "mark" /\ step' = [step EXCEPT ![k] = "mark"]
        BY <1>7 DEF Chunk
    <2> QED BY <2>3, <2>4, <2>6, <2>7, WritesSignal
<1>8. ASSUME NEW k \in Calls, Shift(k)
      PROVE  StepSignals
    <2>1. PICK j : /\ j.touched = Customers
                   /\ job' = [job EXCEPT ![k] = j]
        BY <1>8, ShiftFits DEF TypeInv
    <2>2. /\ step[k] # "mark" /\ step' = [step EXCEPT ![k] = "mark"]
          /\ UNCHANGED buffer
        BY <1>8 DEF Shift
    <2> QED BY <2>1, <2>2, WritesSignal
<1>9. ASSUME NEW k \in Calls, Mark(k)
      PROVE  StepSignals
    <2>1. PICK s \in {"chunk", "answer"} : \E j :
            step' = [step EXCEPT ![k] = s] /\ job' = [job EXCEPT ![k] = j]
        BY <1>9, MarkFits DEF TypeInv
    <2>2. Marking \subseteq Marking' \cup job[k].touched
        BY <2>1, MarkingAfter
    <2>3. UNCHANGED data /\ buffer' = buffer \cup job[k].touched
        BY <1>9 DEF Mark
    <2>4. \A c : StoredOf(c)' = StoredOf(c)
        BY <2>3 DEF StoredOf, RowsOf, BagToSet, data
    <2> QED BY <2>2, <2>3, <2>4 DEF StepSignals
<1>10. CASE Remount \/ Take \/ Day \/ UNCHANGED vars
    <2>1. UNCHANGED <<step, job>>
        BY <1>10 DEF Remount, Take, Day, vars
    <2>2. Marking' = Marking
        BY <2>1 DEF Marking
    <2>3. buffer' = buffer \/ buffer' = {}
        BY <1>10 DEF Remount, Take, Day, vars
    <2> QED BY <2>1, <2>2, <2>3 DEF StepSignals
<1> QED BY <1>2, <1>3, <1>4, <1>5, <1>6, <1>7, <1>8, <1>9, <1>10
        DEF Next, CallStep, EndpointStep

(* simulator.controller.ts and ChangeBufferService.markChanged: no row and *)
(* no patch that any endpoint writes goes without a signal for its         *)
(* customer, and none is lost before a flush takes it, whatever overlaps.  *)
THEOREM WritesAreSignalled == Spec => EachWriteSignalled
<1>1. TypeInv /\ [Next]_vars => [StepSignals]_vars
    BY EachStepSignals
<1>2. Spec => [][StepSignals]_vars
    BY <1>1, Types, PTL DEF Spec
<1> QED BY <1>2, PTL DEF EachWriteSignalled, StepSignals
=============================================================================
