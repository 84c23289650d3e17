--------------------------- MODULE SimulatorCalls ---------------------------
(***************************************************************************)
(* The calls of the simulator: the panel of the list page and the four     *)
(* endpoints, with the rows and signals they write.  Of segments there is  *)
(* only that a flush takes the signals; Simulator has the rest.            *)
(***************************************************************************)
EXTENDS Integers, SequencesExt, Bags

CONSTANTS
    Customers,
    Amounts,    \* of a transaction
    Ages,       \* of a transaction when it is inserted
    Window60,   \* 60 days
    Age90,      \* 90 days
    ChunkSize,  \* of a bulk call
    Counts,     \* count of a bulk call
    MaxCount,   \* most that bulk accepts
    Days,       \* days of an advance-time call
    MaxDays,    \* most that advance-time accepts
    Keys,       \* of a customer's profile
    Calls,      \* concurrent calls
    MaxCalls,   \* bound on calls
    MaxRows     \* bound on transactions

ASSUME WindowAssumption ==
    Window60 \in Nat /\ Age90 \in Nat /\ Window60 < Age90
ASSUME AmountsAssumption == Amounts \subseteq Int
ASSUME AgesAssumption == Ages \subseteq 0..Age90
ASSUME ChunkSizeAssumption == ChunkSize \in Nat \ {0}
ASSUME NumbersAssumption ==
    /\ Counts \subseteq Int /\ Days \subseteq Int
    /\ MaxCount \in Nat /\ MaxDays \in Nat

VARIABLES
    transactions, \* Transaction rows
    profile,      \* the keys each customer's profile has been patched with
    buffer,       \* the Redis set of changed customers
    step,         \* the await each call is at
    job,          \* what the call does
    owed,         \* history: keys patched with no second patch under way
    busy,         \* busy of the panel on the page
    mounted,      \* calls of the panel on the page
    calls

vars == <<transactions, profile, buffer, step, job, owed, busy, mounted, calls>>
data == <<transactions, profile>>

\* Ages of more than 90 days are alike.
Older(age, days) == IF age + days > Age90 THEN Age90 + 1 ELSE age + days

\* The transactions, when all of them have become older.
Shifted(days) ==
    LET rows == BagToSet(transactions)
        Now(t) == [t EXCEPT !.age = Older(@, days)]
    IN [r \in {Now(t) : t \in rows} |->
            MapThenSumSet(LAMBDA t : transactions[t],
                          {t \in rows : Now(t) = r})]

\* The transactions, with more of them.
Added(rows) ==
    LET Before(t) == IF BagIn(t, transactions) THEN transactions[t] ELSE 0
    IN [t \in BagToSet(transactions) \cup ToSet(rows) |->
            IF t \in ToSet(rows) THEN Before(t) + ToBag(rows)[t]
            ELSE transactions[t]]

RowsOf(c) == {t \in BagToSet(transactions) : t.customer = c}

Job(kind, c, number, patch, left) ==
    [kind |-> kind, customer |-> c, number |-> number, patch |-> patch,
     left |-> left, inserted |-> 0, touched |-> {}, ok |-> TRUE]

NoJob == Job("none", {}, 0, {}, 0)

Init ==
    /\ transactions = EmptyBag
    /\ profile = [c \in Customers |-> {}]
    /\ buffer = {}
    /\ step = [k \in Calls |-> "idle"]
    /\ job = [k \in Calls |-> NoJob]
    /\ owed = [c \in Customers |-> {}]
    /\ busy = FALSE
    /\ mounted = {}
    /\ calls = 0

-----------------------------------------------------------------------------
(* The panel.  A call from curl is like one of a panel that was left.      *)

\* Rows that calls have still to insert.
Planned == FoldFunction(LAMBDA j, n : n + j.left, 0, job)

Start(k, first, j) ==
    /\ step[k] = "idle"
    /\ calls < MaxCalls
    /\ BagCardinality(transactions) + Planned + j.left <= MaxRows
    /\ calls' = calls + 1
    /\ step' = [step EXCEPT ![k] = first]
    /\ job' = [job EXCEPT ![k] = j]
    /\ UNCHANGED <<data, buffer, owed>>

Rejected(kind, n) == [Job(kind, {}, n, {}, 0) EXCEPT !.ok = FALSE]

\* A request about one customer.
RequestCustomer(k) ==
    \/ \E c \in Customers, amount \in Amounts :
        Start(k, "insert", Job("transaction", c, amount, {}, 1))
    \/ \E c \in Customers, key \in Keys :
        Start(k, "read", Job("profile-update", c, 0, {key}, 0))

\* Mutant: the ranges are not checked.
RequestUnchecked(k) ==
    \/ RequestCustomer(k)
    \/ \E n \in Counts :
        Start(k, "chunk", Job("bulk-changes", {}, n, {}, n))
    \/ \E n \in Days :
        Start(k, "shift", Job("advance-time", {}, n, {}, 0))

\* A request to one of the endpoints; out of range, bulk-changes and
\* advance-time reject it.
Request(k) ==
    \/ RequestCustomer(k)
    \/ \E n \in Counts :
        IF n \in 1..MaxCount
        THEN Start(k, "chunk", Job("bulk-changes", {}, n, {}, n))
        ELSE Start(k, "answer", Rejected("bulk-changes", n))
    \/ \E n \in Days :
        IF n \in 1..MaxDays
        THEN Start(k, "shift", Job("advance-time", {}, n, {}, 0))
        ELSE Start(k, "answer", Rejected("advance-time", n))

\* run: the buttons are disabled while busy.
Fire(k) ==
    /\ ~busy
    /\ Request(k)
    /\ busy' = TRUE
    /\ mounted' = mounted \cup {k}

\* The list page is left, and opened again with a new panel: the calls of
\* the old one go on.
Remount ==
    /\ busy
    /\ busy' = FALSE
    /\ mounted' = {}
    /\ UNCHANGED <<data, buffer, step, job, owed, calls>>

\* Mutant: busy belongs to all panels.
AnswerAnyPanel(k) ==
    /\ step[k] = "answer"
    /\ step' = [step EXCEPT ![k] = "idle"]
    /\ job' = [job EXCEPT ![k] = NoJob]
    /\ busy' = FALSE
    /\ mounted' = mounted \ {k}
    /\ UNCHANGED <<data, buffer, owed, calls>>

\* done or failed, in the panel that made the call.
Answer(k) ==
    /\ step[k] = "answer"
    /\ step' = [step EXCEPT ![k] = "idle"]
    /\ job' = [job EXCEPT ![k] = NoJob]
    /\ busy' = (busy /\ k \notin mounted)
    /\ mounted' = mounted \ {k}
    /\ UNCHANGED <<data, buffer, owed, calls>>

-----------------------------------------------------------------------------
(* The endpoints.                                                          *)

\* occurredAt is now, or what the body says.
Insert(k) ==
    /\ step[k] = "insert"
    /\ \E age \in Ages : transactions' = Added(<<
            [customer |-> job[k].customer, amount |-> job[k].number, age |-> age]>>)
    /\ job' = [job EXCEPT ![k].left = 0, ![k].touched = {job[k].customer}]
    /\ step' = [step EXCEPT ![k] = "mark"]
    /\ UNCHANGED <<profile, buffer, owed, busy, mounted, calls>>

\* Mutant: the patch replaces the profile.
ReadPatchOnly(k) ==
    /\ step[k] = "read"
    /\ step' = [step EXCEPT ![k] = "write"]
    /\ UNCHANGED <<data, buffer, job, owed, busy, mounted, calls>>

\* The row is read and the patch merged into it.
Read(k) ==
    /\ step[k] = "read"
    /\ job' = [job EXCEPT ![k].patch = @ \cup profile[job[k].customer]]
    /\ step' = [step EXCEPT ![k] = "write"]
    /\ UNCHANGED <<data, buffer, owed, busy, mounted, calls>>

\* The other calls that have read the profile of c.
Overlapping(k, c) ==
    {j \in Calls \ {k} : step[j] = "write" /\ job[j].customer = c}

\* Mutant: a patch signals nobody, since no metric depends on it.
WriteProfileSilent(k) ==
    /\ step[k] = "write"
    /\ profile' = [profile EXCEPT ![job[k].customer] = job[k].patch]
    /\ step' = [step EXCEPT ![k] = "mark"]
    /\ UNCHANGED <<transactions, buffer, job, owed, busy, mounted, calls>>

WriteProfile(k) ==
    /\ step[k] = "write"
    /\ LET c == job[k].customer IN
        /\ profile' = [profile EXCEPT ![c] = job[k].patch]
        /\ owed' = [owed EXCEPT ![c] =
                IF Overlapping(k, c) = {} THEN @ \cup job[k].patch ELSE @]
        /\ job' = [job EXCEPT ![k].touched = {c}]
    /\ step' = [step EXCEPT ![k] = "mark"]
    /\ UNCHANGED <<transactions, buffer, busy, mounted, calls>>

BulkRows == [customer : Customers, amount : {a \in Amounts : a > 0},
             age : 0..(Window60 - 1)]

\* Mutant: every chunk is a full one.
ChunkFull(k) ==
    /\ step[k] = "chunk"
    /\ \E rows \in [1..ChunkSize -> BulkRows] :
        /\ transactions' = Added(rows)
        /\ job' = [job EXCEPT
                ![k].left = IF @ < ChunkSize THEN 0 ELSE @ - ChunkSize,
                ![k].inserted = @ + ChunkSize,
                ![k].touched = {rows[i].customer : i \in 1..ChunkSize}]
    /\ step' = [step EXCEPT ![k] = "mark"]
    /\ UNCHANGED <<profile, buffer, owed, busy, mounted, calls>>

Chunk(k) ==
    /\ step[k] = "chunk"
    /\ LET size == Min({ChunkSize, job[k].left}) IN
       \E rows \in [1..size -> BulkRows] :
        /\ transactions' = Added(rows)
        /\ job' = [job EXCEPT
                ![k].left = @ - size,
                ![k].inserted = @ + size,
                ![k].touched = {rows[i].customer : i \in 1..size}]
    /\ step' = [step EXCEPT ![k] = "mark"]
    /\ UNCHANGED <<profile, buffer, owed, busy, mounted, calls>>

Shift(k) ==
    /\ step[k] = "shift"
    /\ transactions' = Shifted(job[k].number)
    /\ job' = [job EXCEPT ![k].touched = Customers]
    /\ step' = [step EXCEPT ![k] = "mark"]
    /\ UNCHANGED <<profile, buffer, owed, busy, mounted, calls>>

\* Mutant: a bulk call marks the customers of its last chunk.
MarkLast(k) ==
    /\ step[k] = "mark"
    /\ buffer' = IF job[k].left = 0 THEN buffer \cup job[k].touched ELSE buffer
    /\ job' = [job EXCEPT ![k].touched = {}]
    /\ step' = [step EXCEPT ![k] = IF job[k].left = 0 THEN "answer" ELSE "chunk"]
    /\ UNCHANGED <<data, owed, busy, mounted, calls>>

\* markChanged, and on to the next chunk.
Mark(k) ==
    /\ step[k] = "mark"
    /\ buffer' = buffer \cup job[k].touched
    /\ job' = [job EXCEPT ![k].touched = {}]
    /\ step' = [step EXCEPT ![k] = IF job[k].left = 0 THEN "answer" ELSE "chunk"]
    /\ UNCHANGED <<data, owed, busy, mounted, calls>>

EndpointStep(k) ==
    \/ Insert(k)
    \/ Read(k)
    \/ WriteProfile(k)
    \/ Chunk(k)
    \/ Shift(k)
    \/ Mark(k)

-----------------------------------------------------------------------------
\* A flush takes all signals.
Take ==
    /\ buffer # {}
    /\ buffer' = {}
    /\ UNCHANGED <<data, step, job, owed, busy, mounted, calls>>

\* A day goes by.  NOW() is in each query, and nothing else takes notice.
Day ==
    /\ transactions # EmptyBag
    /\ transactions' = Shifted(1)
    /\ UNCHANGED <<profile, buffer, step, job, owed, busy, mounted, calls>>

CallStep ==
    \/ \E k \in Calls : Fire(k) \/ EndpointStep(k) \/ Answer(k)
    \/ Remount

Next == CallStep \/ Take \/ Day

Spec == Init /\ [][Next]_vars

-----------------------------------------------------------------------------
(* Properties.                                                             *)

Rows == [customer : Customers, amount : Int, age : 0..(Age90 + 1)]

Kinds == {"none", "transaction", "profile-update", "bulk-changes", "advance-time"}

Jobs == [kind : Kinds, customer : Customers \cup {{}}, number : Int,
         patch : SUBSET Keys, left : Nat, inserted : Nat,
         touched : SUBSET Customers, ok : BOOLEAN]

\* What a call can be doing at each await.
KindsAt == [idle   |-> {"none"},
            insert |-> {"transaction"},
            read   |-> {"profile-update"},
            write  |-> {"profile-update"},
            chunk  |-> {"bulk-changes"},
            shift  |-> {"advance-time"},
            mark   |-> Kinds \ {"none"},
            answer |-> Kinds \ {"none"}]

\* The ranges the endpoints check.
InRange(j) ==
    /\ j.kind = "bulk-changes" => j.number \in 1..MaxCount
    /\ j.kind = "advance-time" => j.number \in 1..MaxDays

(* Each call is at an await of its own endpoint, and a number out of range *)
(* never gets past the check.                                              *)
TypeOK ==
    /\ BagToSet(transactions) \subseteq Rows
    /\ profile \in [Customers -> SUBSET Keys]
    /\ buffer \subseteq Customers
    /\ step \in [Calls -> DOMAIN KindsAt]
    /\ job \in [Calls -> Jobs]
    /\ \A k \in Calls :
        /\ job[k].kind \in KindsAt[step[k]]
        /\ job[k].kind \in {"transaction", "profile-update"} =>
            job[k].customer \in Customers
        /\ job[k].ok => InRange(job[k])
        /\ ~job[k].ok => step[k] = "answer"
    /\ owed \in [Customers -> SUBSET Keys]
    /\ busy \in BOOLEAN
    /\ mounted \subseteq Calls
    /\ calls \in Nat

\* The customers that calls have written to and are about to mark.
Marking == UNION {job[k].touched : k \in {k \in Calls : step[k] = "mark"}}

\* What is stored of c.
StoredOf(c) == <<[t \in RowsOf(c) |-> transactions[t]], profile[c]>>

(* Whatever a call changes in the rows or the profile of a customer, it is *)
(* about to mark him; who is about to be marked gets into the buffer, also *)
(* beside other calls and a flush; and only a flush takes him from there.  *)
EachWriteSignalled == [][
    /\ \A c \in Customers :
        c \in Marking \/ (step' # step /\ StoredOf(c)' # StoredOf(c)) =>
            c \in Marking' \cup buffer'
    /\ buffer \subseteq buffer' \/ (buffer' = {} /\ Marking' = Marking)]_vars

(* A patch keeps the keys of earlier ones, except of one whose write fell  *)
(* between the read and the write of this one.                             *)
PatchKept == \A c \in Customers : owed[c] \subseteq profile[c]

(* A bulk call that is answered with success has inserted the number of    *)
(* rows it was asked for, whatever is left for the last chunk.             *)
BulkExact == \A k \in Calls :
    step[k] = "answer" /\ job[k].kind = "bulk-changes" /\ job[k].ok =>
        job[k].inserted = job[k].number

(* The buttons are disabled exactly as long as a call of the panel is      *)
(* under way, also when a call of an earlier panel is answered meanwhile,  *)
(* and so a panel has one call at a time.                                  *)
OneCallPerPanel ==
    /\ Cardinality(mounted) = IF busy THEN 1 ELSE 0
    /\ \A k \in mounted : step[k] # "idle"
=============================================================================
