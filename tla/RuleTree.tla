------------------------------ MODULE RuleTree ------------------------------
(***************************************************************************)
(* Segment rules: trees of compare, in_segment and and nodes, what the     *)
(* controller accepts, what the dependency graph takes from them and what  *)
(* the evaluator answers.  The functions of the code that call themselves  *)
(* on the children of a node are taken level by level here.                *)
(***************************************************************************)
EXTENDS Integers, Sequences

CONSTANTS
    NoNumber, \* a value that is not a finite number
    MaxDepth  \* deepest level validateRule accepts (32)

ASSUME MaxDepthAssumption == MaxDepth \in Nat \ {0}

MetricNames ==
    {"tx_count_30d", "tx_count_total", "sum_amount_60d", "last_tx_age_days"}

Compare(metric, op, value) ==
    [kind |-> "compare", metric |-> metric, op |-> op, value |-> value]
InSegment(s) == [kind |-> "in_segment", segmentId |-> s]
And(children) == [kind |-> "and", children |-> children]

Children(node) == {node.children[i] : i \in DOMAIN node.children}

\* The nodes of a tree at each depth, to one more than is accepted.
Levels(root) ==
    LET level[d \in 0..(MaxDepth + 1)] ==
            IF d = 0 THEN {root}
            ELSE UNION {Children(n) : n \in {n \in level[d - 1] : n.kind = "and"}}
    IN level

Nodes(root) == UNION {Levels(root)[d] : d \in 0..MaxDepth}

WellFormed(node) ==
    \/ /\ node.kind = "compare"
       /\ node.metric \in MetricNames
       /\ node.op \in {">", ">=", "<", "<=", "==", "!="}
       /\ node.value # NoNumber
    \/ node.kind = "in_segment"
    \/ /\ node.kind = "and"
       /\ node.children \in Seq(Children(node)) \ {<<>>}

\* validateRule accepts the tree.
Valid(root) ==
    /\ Levels(root)[MaxDepth + 1] = {}
    /\ \A node \in Nodes(root) : WellFormed(node)

\* Mutant: one level only.
CollectTopParentIds(root) ==
    {n.segmentId : n \in {n \in {root} \cup Levels(root)[1] : n.kind = "in_segment"}}

CollectParentIds(root) ==
    {n.segmentId : n \in {n \in Nodes(root) : n.kind = "in_segment"}}

ApplyOp(left, op, right) ==
    CASE op = ">" -> left > right
      [] op = ">=" -> left >= right
      [] op = "<" -> left < right
      [] op = "<=" -> left <= right
      [] op = "==" -> left = right
      [] op = "!=" -> left # right

\* every: the answer of the first child that is not "yes", if there is one.
Every(answers) ==
    LET others == {i \in DOMAIN answers : answers[i] # "yes"} IN
    IF others = {} THEN "yes"
    ELSE answers[CHOOSE i \in others : \A j \in others : i <= j]

\* The answer of a node whose children answer as below says; parents has
\* the memberships that the caller loaded.
AnswerOf(node, metrics, parents, c, below) ==
    CASE node.kind = "compare" ->
            IF ApplyOp(metrics[node.metric], node.op, node.value)
            THEN "yes" ELSE "no"
      [] node.kind = "in_segment" ->
            IF node.segmentId \notin DOMAIN parents THEN "throws"
            ELSE IF c \in parents[node.segmentId] THEN "yes" ELSE "no"
      [] node.kind = "and" ->
            Every([i \in DOMAIN node.children |-> below[node.children[i]]])

Evaluate(root, metrics, parents, c) ==
    LET answers[d \in 0..(MaxDepth + 1)] ==
            [n \in Levels(root)[d] |->
                AnswerOf(n, metrics, parents, c, answers[d + 1])]
    IN answers[0][root]

-----------------------------------------------------------------------------
(* What a rule means.                                                      *)

Leaves(root) == {n \in Nodes(root) : n.kind # "and"}

Holds(leaf, metrics, member, c) ==
    IF leaf.kind = "compare"
    THEN ApplyOp(metrics[leaf.metric], leaf.op, leaf.value)
    ELSE c \in member[leaf.segmentId]

\* A rule is met by who meets all of its leaves, and it has some.
Meets(root, metrics, member, c) ==
    LET leaves == Leaves(root) IN
    leaves # {} /\ \A leaf \in leaves : Holds(leaf, metrics, member, c)
=============================================================================
