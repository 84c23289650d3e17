----------------------------- MODULE Simulator ------------------------------
(***************************************************************************)
(* What becomes of the seeded segments, and of users' own ones, as the     *)
(* calls of SimulatorCalls insert transactions, shift them, and as they    *)
(* get older.                                                              *)
(*                                                                         *)
(* Metrics are computed from the transactions, with the windows of         *)
(* computeAll, and rules are the trees of RuleTree.  A flush is one step,  *)
(* and nothing crashes: SegmentSync has the steps and the crashes, and the *)
(* metrics as a value that changes in any way.                             *)
(***************************************************************************)
EXTENDS SimulatorCalls, RuleTree

CONSTANTS
    Window30,   \* 30 days
    Infinity,   \* last_tx_age_days without transactions
    VipSum,     \* 5000
    UserRules   \* rules sent with POST /segments, by segment

ASSUME Window30Assumption == Window30 \in Nat /\ Window30 < Window60
ASSUME InfinityAssumption == Infinity \in Nat /\ Infinity > Age90 + 1

VARIABLES
    member,       \* SegmentMember rows
    aged          \* history: time has passed since the last rebuild

all == <<vars, member, aged>>

-----------------------------------------------------------------------------
(* Metrics and segments.                                                   *)

Metrics(rows, in30, in60) ==
    LET Count(S) == MapThenSumSet(LAMBDA t : transactions[t], S) IN
    [tx_count_30d |-> Count(in30),
     tx_count_total |-> Count(rows),
     sum_amount_60d |-> MapThenSumSet(LAMBDA t : t.amount * transactions[t], in60),
     last_tx_age_days |-> Min({t.age : t \in rows} \cup {Infinity})]

\* Mutant: the 30 days are counted from the wrong end.
MetricsOfOld(c) == Metrics(RowsOf(c), {t \in RowsOf(c) : t.age >= Window30},
                                      {t \in RowsOf(c) : t.age <= Window60})

\* computeAll, for one customer.
MetricsOf(c) == Metrics(RowsOf(c), {t \in RowsOf(c) : t.age <= Window30},
                                   {t \in RowsOf(c) : t.age <= Window60})

SeedRules == [s \in {"Active Buyers", "VIP", "Risk Group", "Active VIPs"} |->
    CASE s = "Active Buyers" -> Compare("tx_count_30d", ">=", 1)
      [] s = "VIP" -> Compare("sum_amount_60d", ">", VipSum)
      [] s = "Risk Group" -> And(<<Compare("last_tx_age_days", ">", Age90),
                                   Compare("tx_count_total", ">=", 1)>>)
      [] s = "Active VIPs" -> And(<<InSegment("Active Buyers"), InSegment("VIP")>>)]

\* The seeded segments, and those whose rule was accepted.
Rule == [s \in DOMAIN SeedRules \cup
              {s \in DOMAIN UserRules : Valid(UserRules[s])} |->
            IF s \in DOMAIN SeedRules THEN SeedRules[s] ELSE UserRules[s]]
Segments == DOMAIN Rule

Parents == [s \in Segments |-> CollectParentIds(Rule[s])]

\* A rule is sent with POST /segments, and assertRuleReferences accepts only
\* references to segments that are there already: they exist, in no cycle.
ASSUME RulesAssumption ==
    /\ IsFiniteSet(DOMAIN UserRules)
    /\ \A s \in Segments : Parents[s] \subseteq Segments
    /\ \A S \in SUBSET Segments :
            S # {} => \E s \in S : Parents[s] \cap S = {}

\* topoSort: the first segment whose parents are done, again and again.
TopoSort ==
    LET sort[n \in 0..Cardinality(Segments)] ==
            IF n = 0 THEN <<>>
            ELSE LET done == ToSet(sort[n - 1])
                     next == {s \in Segments \ done :
                                Parents[s] \cap Segments \subseteq done}
                 IN IF next = {} THEN sort[n - 1]
                    ELSE Append(sort[n - 1], CHOOSE s \in next : TRUE)
    IN sort[Cardinality(Segments)]

\* What an evaluation of s answers for each customer, parents having the
\* members of m.
Answers(s, m) ==
    LET metrics == [c \in Customers |-> MetricsOf(c)]
        parents == [q \in Parents[s] |-> m[q]]
    IN [c \in Customers |-> Evaluate(Rule[s], metrics[c], parents, c)]

\* evaluateSegment, unless the rebuild is over.
Evaluated(r, s) ==
    LET answers == Answers(s, r.member) IN
    IF r.over \/ \E c \in Customers : answers[c] = "throws"
    THEN [r EXCEPT !.over = TRUE]
    ELSE [r EXCEPT !.member[s] = {c \in Customers : answers[c] = "yes"}]

\* rebuildAllDynamic, from the members of m: each segment sees its parents'
\* new members; topoSort throws on a cycle, and one that throws ends it.
RebuildAllDynamic(m) ==
    LET rebuild[n \in 0..Len(TopoSort)] ==
            IF n = 0 THEN [member |-> m,
                           over |-> Len(TopoSort) < Cardinality(Segments)]
            ELSE Evaluated(rebuild[n - 1], TopoSort[n])
    IN rebuild[Len(TopoSort)].member

-----------------------------------------------------------------------------
\* The segments are seeded without members, and the boot rebuilds them.
SimulatorInit ==
    /\ Init
    /\ member = RebuildAllDynamic([s \in Segments |-> {}])
    /\ aged = FALSE

Flush ==
    /\ Take
    /\ member' = RebuildAllDynamic(member)
    /\ aged' = FALSE

Tick ==
    /\ Day
    /\ aged' = TRUE
    /\ UNCHANGED member

SimulatorNext ==
    \/ CallStep /\ UNCHANGED <<member, aged>>
    \/ Flush
    \/ Tick

SimulatorSpec == SimulatorInit /\ [][SimulatorNext]_all

-----------------------------------------------------------------------------
(* Properties.                                                             *)

\* The customers the rule of s asks for.
Target(s) == {c \in Customers : Meets(Rule[s], MetricsOf(c), member, c)}

(* An evaluation of a rule that was accepted never throws, and finds the   *)
(* customers that meet every leaf of the tree: the parents it loads are    *)
(* those it will ask for, however deep the in_segment node, and no rule    *)
(* holds for want of a leaf.                                               *)
RuleMeaning == \A s \in Segments : Answers(s, member) =
    [c \in Customers |-> IF c \in Target(s) THEN "yes" ELSE "no"]

Pending == buffer # {} \/ \E k \in Calls : step[k] = "mark"

(* A membership is wrong only while a signal is pending or because time    *)
(* has passed since the last rebuild: no row that a transaction, a chunk   *)
(* of a bulk call or a shift of the timeline wrote goes unnoticed.         *)
DriftOnlyByTime == Pending \/ aged \/ \A s \in Segments : member[s] = Target(s)

(* Time, which marks nobody, drives customers out of the windows and never *)
(* into them: at worst, Active Buyers has too many and Risk Group too few. *)
(* (Of VIP neither can be said, an amount may be negative.)                *)
DriftOneWay == ~Pending =>
    /\ Target("Active Buyers") \subseteq member["Active Buyers"]
    /\ member["Risk Group"] \subseteq Target("Risk Group")
=============================================================================
