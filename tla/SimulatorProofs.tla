-------------------------- MODULE SimulatorProofs ---------------------------
(***************************************************************************)
(* What Simulator says of rules, rebuilds and drift, for any rules that    *)
(* were accepted, any windows, amounts and ages, and any calls: the        *)
(* evaluator finds whom a rule asks for, a rebuild gives each segment      *)
(* those, and after it only a signal or time is between the two.           *)
(***************************************************************************)
EXTENDS Simulator, SimulatorCallsProofs, WellFoundedInduction

-----------------------------------------------------------------------------
(* Induction over sets of numbers.                                         *)

LEMMA SmallestNumber ==
    ASSUME NEW S \in SUBSET Nat, S # {}
    PROVE  \E m \in S : \A n \in S : m <= n
<1>1. PICK m \in S : \A n \in S : <<n, m>> \notin OpToRel(<, Nat)
    BY NatLessThanWellFounded, WFMin
<1>2. ASSUME NEW n \in S, n < m
      PROVE  FALSE
    <2>1. <<n, m>> \in OpToRel(<, Nat)
        BY <1>2 DEF OpToRel
    <2> QED BY <1>1, <2>1
<1>3. \A n \in S : m <= n
    BY <1>2
<1> QED BY <1>3

LEMMA AllNumbers ==
    ASSUME NEW S \in SUBSET Nat, 0 \in S, \A n \in S : n + 1 \in S
    PROVE  S = Nat
<1> SUFFICES ASSUME Nat \ S # {} PROVE FALSE
    OBVIOUS
<1>1. PICK m \in Nat \ S : \A n \in Nat \ S : m <= n
    BY SmallestNumber
<1>2. m # 0 /\ m - 1 \in S
    BY <1>1
<1> QED BY <1>1, <1>2

LEMMA UpTo ==
    ASSUME NEW N \in Nat, NEW S, 0 \in S,
           \A n \in 0..(N - 1) : n \in S => n + 1 \in S
    PROVE  0..N \subseteq S
<1> DEFINE T == {n \in Nat : n <= N => n \in S}
<1>1. 0 \in T /\ T \in SUBSET Nat
    OBVIOUS
<1>2. ASSUME NEW n \in T PROVE n + 1 \in T
    OBVIOUS
<1> HIDE DEF T
<1>3. T = Nat
    BY <1>1, <1>2, AllNumbers
<1> QED BY <1>3 DEF T

LEMMA DownFrom ==
    ASSUME NEW N \in Nat, NEW S, N \in S,
           \A n \in 0..(N - 1) : n + 1 \in S => n \in S
    PROVE  0..N \subseteq S
<1> DEFINE T == {n \in Nat : n <= N => N - n \in S}
<1>1. 0 \in T /\ T \in SUBSET Nat
    OBVIOUS
<1>2. ASSUME NEW n \in T PROVE n + 1 \in T
    <2> SUFFICES ASSUME n + 1 <= N PROVE N - (n + 1) \in S
        OBVIOUS
    <2>1. N - (n + 1) \in 0..(N - 1) /\ (N - (n + 1)) + 1 = N - n
        OBVIOUS
    <2> QED BY <2>1
<1> HIDE DEF T
<1>3. T = Nat
    BY <1>1, <1>2, AllNumbers
<1>4. ASSUME NEW n \in 0..N PROVE n \in S
    <2>1. N - n \in T /\ N - n <= N /\ N - (N - n) = n
        BY <1>3
    <2> QED BY <2>1 DEF T
<1> QED BY <1>4

-----------------------------------------------------------------------------
(* The levels of a tree.                                                   *)

\* The nodes under those of S.
Below(S) == UNION {Children(n) : n \in {n \in S : n.kind = "and"}}

LEMMA LevelsExist ==
    ASSUME NEW root, NEW k \in Nat
    PROVE  \E f : f = [d \in 0..k |-> IF d = 0 THEN {root} ELSE Below(f[d - 1])]
<1> DEFINE Good == {n \in Nat : \E f : f = [d \in 0..n |->
                        IF d = 0 THEN {root} ELSE Below(f[d - 1])]}
<1>1. 0 \in Good
    <2>1. [d \in 0..0 |-> {root}] = [d \in 0..0 |->
            IF d = 0 THEN {root} ELSE Below([e \in 0..0 |-> {root}][d - 1])]
        OBVIOUS
    <2> QED BY <2>1
<1>2. ASSUME NEW n \in Good
      PROVE  n + 1 \in Good
    <2>1. PICK f : f = [d \in 0..n |-> IF d = 0 THEN {root} ELSE Below(f[d - 1])]
        OBVIOUS
    <2> DEFINE g == [d \in 0..(n + 1) |->
                        IF d = n + 1 THEN Below(f[n]) ELSE f[d]]
    <2> n \in Nat
        OBVIOUS
    <2> HIDE DEF Good
    <2>2. ASSUME NEW d \in 0..(n + 1)
          PROVE  g[d] = IF d = 0 THEN {root} ELSE Below(g[d - 1])
        <3>1. CASE d = n + 1
            <4>1. n \in 0..(n + 1) /\ g[n] = f[n]
                BY <2>1
            <4> QED BY <3>1, <4>1
        <3>2. CASE d \in 0..n
            <4>1. g[d] = f[d] /\ (d # 0 => g[d - 1] = f[d - 1])
                BY <3>2
            <4>2. f[d] = IF d = 0 THEN {root} ELSE Below(f[d - 1])
                BY <2>1, <3>2
            <4> QED BY <4>1, <4>2
        <3> QED BY <3>1, <3>2
    <2>3. g = [d \in 0..(n + 1) |-> IF d = 0 THEN {root} ELSE Below(g[d - 1])]
        BY <2>2
    <2> HIDE DEF g
    <2> QED BY <2>3 DEF Good
<1>3. Good = Nat
    <2> HIDE DEF Good
    <2>1. Good \in SUBSET Nat
        BY DEF Good
    <2> QED BY <1>1, <1>2, <2>1, AllNumbers
<1> QED BY <1>3

LEMMA LevelsDef ==
    ASSUME NEW root
    PROVE  Levels(root) = [d \in 0..(MaxDepth + 1) |->
                IF d = 0 THEN {root} ELSE Below(Levels(root)[d - 1])]
<1>1. MaxDepth + 1 \in Nat
    BY MaxDepthAssumption
<1>2. \E f : f = [d \in 0..(MaxDepth + 1) |->
                    IF d = 0 THEN {root} ELSE Below(f[d - 1])]
    BY <1>1, LevelsExist
<1> QED BY <1>2 DEF Levels, Below

LEMMA LevelFacts ==
    ASSUME NEW root
    PROVE  /\ Levels(root)[0] = {root}
           /\ \A d \in 0..MaxDepth : Levels(root)[d + 1] = Below(Levels(root)[d])
BY LevelsDef, MaxDepthAssumption

\* What the evaluator needs of a rule, whatever its numbers.
Tree(root) ==
    /\ Levels(root)[MaxDepth + 1] = {}
    /\ \A n \in Nodes(root) :
        \/ n.kind \in {"compare", "in_segment"}
        \/ n.kind = "and" /\ n.children \in Seq(Children(n)) \ {<<>>}

LEMMA ValidTree == \A root : Valid(root) => Tree(root)
BY DEF Valid, Tree, WellFormed

LEMMA TreeLevels ==
    ASSUME NEW root, Tree(root), NEW d \in 0..MaxDepth, NEW n \in Levels(root)[d]
    PROVE  /\ n \in Nodes(root)
           /\ n.kind \in {"compare", "in_segment", "and"}
           /\ n.kind = "and" =>
                /\ DOMAIN n.children \subseteq Nat
                /\ DOMAIN n.children # {}
                /\ \A i \in DOMAIN n.children :
                        n.children[i] \in Levels(root)[d + 1]
<1>1. n \in Nodes(root)
    BY DEF Nodes
<1>2. n.kind \in {"compare", "in_segment", "and"}
    BY <1>1 DEF Tree
<1>3. ASSUME n.kind = "and"
      PROVE  /\ DOMAIN n.children \subseteq Nat
             /\ DOMAIN n.children # {}
             /\ \A i \in DOMAIN n.children :
                    n.children[i] \in Levels(root)[d + 1]
    <2>1. n.children \in Seq(Children(n)) \ {<<>>}
        BY <1>1, <1>3 DEF Tree
    <2>2. /\ DOMAIN n.children = 1..Len(n.children)
          /\ Len(n.children) \in Nat \ {0}
        BY <2>1
    <2>3. DOMAIN n.children \subseteq Nat /\ 1 \in DOMAIN n.children
        BY <2>2
    <2>4. Children(n) \subseteq Levels(root)[d + 1]
        BY <1>3, LevelFacts DEF Below
    <2> QED BY <2>3, <2>4 DEF Children
<1> QED BY <1>1, <1>2, <1>3

-----------------------------------------------------------------------------
(* The evaluator.                                                          *)

LEMMA EveryAnswer ==
    ASSUME NEW answers, DOMAIN answers \subseteq Nat
    PROVE  /\ Every(answers) = "yes" <=> \A i \in DOMAIN answers : answers[i] = "yes"
           /\ (\A i \in DOMAIN answers : answers[i] \in {"yes", "no"}) =>
                Every(answers) \in {"yes", "no"}
<1> DEFINE others == {i \in DOMAIN answers : answers[i] # "yes"}
<1>1. CASE others = {}
    BY <1>1 DEF Every
<1>2. CASE others # {}
    <2>1. others \in SUBSET Nat
        OBVIOUS
    <2>2. \E i \in others : \A j \in others : i <= j
        BY <1>2, <2>1, SmallestNumber
    <2>3. PICK i \in others : Every(answers) = answers[i]
        BY <1>2, <2>2 DEF Every
    <2> QED BY <2>3
<1> QED BY <1>1, <1>2

\* f answers as the evaluator does, for the nodes of depth k and more.
AnswersFrom(k, f, root, metrics, parents, c) ==
    f = [d \in k..(MaxDepth + 1) |-> [n \in Levels(root)[d] |->
            AnswerOf(n, metrics, parents, c, f[d + 1])]]

LEMMA AnswersExist ==
    ASSUME NEW root, Levels(root)[MaxDepth + 1] = {},
           NEW metrics, NEW parents, NEW c
    PROVE  \E f : AnswersFrom(0, f, root, metrics, parents, c)
<1> DEFINE top == MaxDepth + 1
           At(d, g) == [n \in Levels(root)[d] |->
                            AnswerOf(n, metrics, parents, c, g[d + 1])]
           Good == {k \in 0..top : \E f : f = [d \in k..top |-> At(d, f)]}
<1>1. top \in Nat
    BY MaxDepthAssumption
<1>2. \A f, g : At(top, f) = At(top, g)
    <2>1. Levels(root)[top] = {}
        OBVIOUS
    <2> QED BY <2>1
<1> HIDE DEF top
<1>3. top \in Good
    <2> DEFINE f == [d \in top..top |-> At(top, 0)]
    <2>1. \A d \in top..top : d = top
        BY <1>1
    <2>2. At(top, 0) = At(top, f)
        BY <1>2
    <2>3. \A d \in top..top : f[d] = At(d, f)
        BY <2>1, <2>2
    <2>4. f = [d \in top..top |-> At(d, f)]
        BY <2>3
    <2> HIDE DEF f
    <2>5. \E g : g = [d \in top..top |-> At(d, g)]
        BY <2>4
    <2> QED BY <1>1, <2>5
<1>4. ASSUME NEW m \in 0..(top - 1), m + 1 \in Good
      PROVE  m \in Good
    <2>1. m \in Nat /\ m < top /\ m \in 0..top
        BY <1>1
    <2>2. PICK f : f = [d \in (m + 1)..top |-> At(d, f)]
        BY <1>4
    <2> DEFINE g == [d \in m..top |-> IF d = m THEN At(m, f) ELSE f[d]]
    <2>3. ASSUME NEW d \in m..top
          PROVE  g[d] = At(d, g)
        <3>1. CASE d = m
            <4>1. m + 1 \in m..top /\ m + 1 # m
                BY <1>1, <2>1
            <4>2. g[m + 1] = f[m + 1] /\ g[m] = At(m, f)
                BY <1>1, <2>1, <4>1
            <4> HIDE DEF g
            <4>3. At(m, f) = At(m, g)
                BY <4>2
            <4> QED BY <3>1, <4>2, <4>3
        <3>2. CASE d \in (m + 1)..top
            <4>1. g[d] = f[d] /\ f[d] = At(d, f)
                BY <1>1, <2>1, <2>2, <3>2
            <4>2. d # top => g[d + 1] = f[d + 1]
                BY <1>1, <2>1, <3>2
            <4> HIDE DEF g
            <4>3. At(d, f) = At(d, g)
                BY <1>2, <4>2
            <4> QED BY <4>1, <4>3
        <3> QED BY <1>1, <2>1, <3>1, <3>2
    <2>4. g = [d \in m..top |-> At(d, g)]
        BY <2>3
    <2> HIDE DEF g
    <2>5. \E h : h = [d \in m..top |-> At(d, h)]
        BY <2>4
    <2> QED BY <2>1, <2>5
<1> HIDE DEF Good
<1>5. 0 \in Good
    <2>1. 0..top \subseteq Good
        BY <1>1, <1>3, <1>4, DownFrom
    <2> QED BY <1>1, <2>1
<1> QED BY <1>5 DEF Good, AnswersFrom, top

LEMMA EvaluateAnswers ==
    ASSUME NEW root, Tree(root), NEW metrics, NEW parents, NEW c
    PROVE  \E f :
            /\ Evaluate(root, metrics, parents, c) = f[0][root]
            /\ \A d \in 0..MaxDepth : \A n \in Levels(root)[d] :
                    f[d][n] = AnswerOf(n, metrics, parents, c, f[d + 1])
<1>1. \E f : AnswersFrom(0, f, root, metrics, parents, c)
    BY AnswersExist DEF Tree
<1>2. \E f : /\ AnswersFrom(0, f, root, metrics, parents, c)
             /\ Evaluate(root, metrics, parents, c) = f[0][root]
    BY <1>1 DEF Evaluate, AnswersFrom
<1>3. PICK f : /\ AnswersFrom(0, f, root, metrics, parents, c)
               /\ Evaluate(root, metrics, parents, c) = f[0][root]
    BY <1>2
<1>4. \A d \in 0..MaxDepth : d \in 0..(MaxDepth + 1)
    BY MaxDepthAssumption
<1>5. \A d \in 0..MaxDepth : f[d] = [n \in Levels(root)[d] |->
                        AnswerOf(n, metrics, parents, c, f[d + 1])]
    BY <1>3, <1>4 DEF AnswersFrom
<1>6. \A d \in 0..MaxDepth : \A n \in Levels(root)[d] :
            f[d][n] = AnswerOf(n, metrics, parents, c, f[d + 1])
    BY <1>5
<1> QED BY <1>3, <1>6

LEMMA TreeHasLeaf ==
    ASSUME NEW root, Tree(root)
    PROVE  Leaves(root) # {}
<1> SUFFICES ASSUME Leaves(root) = {} PROVE FALSE
    OBVIOUS
<1> DEFINE Filled == {d \in 0..(MaxDepth + 1) : Levels(root)[d] # {}}
<1>1. 0 \in Filled
    BY LevelFacts, MaxDepthAssumption
<1>2. ASSUME NEW d \in 0..((MaxDepth + 1) - 1), d \in Filled
      PROVE  d + 1 \in Filled
    <2>1. d \in 0..MaxDepth /\ d + 1 \in 0..(MaxDepth + 1)
        BY MaxDepthAssumption
    <2>2. PICK n : n \in Levels(root)[d]
        BY <1>2
    <2>3. n \in Nodes(root) /\ n.kind = "and"
        BY <2>1, <2>2 DEF Leaves, Nodes
    <2>4. PICK i : n.children[i] \in Levels(root)[d + 1]
        BY <2>1, <2>2, <2>3, TreeLevels
    <2> QED BY <2>1, <2>4
<1> HIDE DEF Filled
<1>3. MaxDepth + 1 \in Nat
    BY MaxDepthAssumption
<1>4. MaxDepth + 1 \in Filled
    <2>1. 0..(MaxDepth + 1) \subseteq Filled
        BY <1>1, <1>2, <1>3, UpTo
    <2> QED BY <1>3, <2>1
<1> QED BY <1>4 DEF Filled, Tree

(* evaluateRule answers yes exactly when each leaf of the tree is met, and *)
(* never throws, if it is given the members of the parents that            *)
(* collectParentIds finds, whatever the depth of the tree.                 *)
THEOREM EvaluatorIsRight ==
    ASSUME NEW root, Tree(root), NEW metrics, NEW members, NEW c
    PROVE  Evaluate(root, metrics,
                    [q \in CollectParentIds(root) |-> members[q]], c) =
                IF Meets(root, metrics, members, c) THEN "yes" ELSE "no"
<1> DEFINE parents == [q \in CollectParentIds(root) |-> members[q]]
           Met(n) == Holds(n, metrics, members, c)
<1>2. /\ DOMAIN parents = CollectParentIds(root)
      /\ \A q \in CollectParentIds(root) : parents[q] = members[q]
    OBVIOUS
<1> HIDE DEF parents
<1>1. PICK f : /\ Evaluate(root, metrics, parents, c) = f[0][root]
               /\ \A d \in 0..MaxDepth : \A n \in Levels(root)[d] :
                    f[d][n] = AnswerOf(n, metrics, parents, c, f[d + 1])
    BY EvaluateAnswers
<1>3. ASSUME NEW d \in 0..MaxDepth, NEW n \in Levels(root)[d], n.kind # "and"
      PROVE  f[d][n] = IF Met(n) THEN "yes" ELSE "no"
    <2>1. n \in Nodes(root) /\ n.kind \in {"compare", "in_segment"}
        BY <1>3, TreeLevels
    <2>2. f[d][n] = AnswerOf(n, metrics, parents, c, f[d + 1])
        BY <1>1
    <2>3. CASE n.kind = "compare"
        BY <2>2, <2>3 DEF AnswerOf, Holds
    <2>4. CASE n.kind = "in_segment"
        <3>1. n.segmentId \in CollectParentIds(root)
            BY <2>1, <2>4 DEF CollectParentIds
        <3> QED BY <1>2, <2>2, <2>4, <3>1 DEF AnswerOf, Holds
    <2> QED BY <2>1, <2>3, <2>4
<1>4. ASSUME NEW d \in 0..MaxDepth, NEW n \in Levels(root)[d], n.kind = "and"
      PROVE  LET Child(i) == f[d + 1][n.children[i]] IN
             /\ f[d][n] = "yes" <=> \A i \in DOMAIN n.children : Child(i) = "yes"
             /\ (\A i \in DOMAIN n.children : Child(i) \in {"yes", "no"}) =>
                    f[d][n] \in {"yes", "no"}
    <2> DEFINE answers == [i \in DOMAIN n.children |-> f[d + 1][n.children[i]]]
    <2>1. f[d][n] = Every(answers)
        BY <1>1, <1>4 DEF AnswerOf
    <2>2. DOMAIN answers \subseteq Nat
        BY <1>4, TreeLevels
    <2>3. /\ DOMAIN answers = DOMAIN n.children
          /\ \A i \in DOMAIN n.children : answers[i] = f[d + 1][n.children[i]]
        OBVIOUS
    <2> HIDE DEF answers
    <2> QED BY <2>1, <2>2, <2>3, EveryAnswer
<1> DEFINE AllMet == \A leaf \in Leaves(root) : Met(leaf)
           Answered(d) == \A n \in Levels(root)[d] :
                /\ f[d][n] \in {"yes", "no"}
                /\ AllMet => f[d][n] = "yes"
           AllYes(d) == \A n \in Levels(root)[d] : f[d][n] = "yes"
<1>5. ASSUME NEW d \in 0..MaxDepth, Answered(d + 1)
      PROVE  Answered(d)
    <2> SUFFICES ASSUME NEW n \in Levels(root)[d]
                 PROVE  /\ f[d][n] \in {"yes", "no"}
                        /\ AllMet => f[d][n] = "yes"
        OBVIOUS
    <2>1. CASE n.kind = "and"
        <3>1. \A i \in DOMAIN n.children : n.children[i] \in Levels(root)[d + 1]
            BY <2>1, TreeLevels
        <3> QED BY <1>4, <1>5, <2>1, <3>1
    <2>2. CASE n.kind # "and"
        <3>1. n \in Leaves(root)
            BY <2>2, TreeLevels DEF Leaves
        <3> HIDE DEF Met
        <3> QED BY <1>3, <2>2, <3>1
    <2> QED BY <2>1, <2>2
<1>6. ASSUME NEW d \in 0..MaxDepth, AllYes(d)
      PROVE  AllYes(d + 1)
    <2> SUFFICES ASSUME NEW m \in Levels(root)[d + 1]
                 PROVE  f[d + 1][m] = "yes"
        OBVIOUS
    <2>1. m \in Below(Levels(root)[d])
        BY LevelFacts
    <2>2. PICK n \in Levels(root)[d] : n.kind = "and" /\ m \in Children(n)
        BY <2>1 DEF Below
    <2>3. PICK i \in DOMAIN n.children : m = n.children[i]
        BY <2>2 DEF Children
    <2> QED BY <1>4, <1>6, <2>2, <2>3
<1> HIDE DEF Answered, AllYes, Met
<1>7. /\ MaxDepth \in Nat /\ MaxDepth + 1 \in Nat
      /\ (MaxDepth + 1) - 1 = MaxDepth
      /\ 0 \in 0..MaxDepth
    BY MaxDepthAssumption
<1>8. Answered(0)
    <2> DEFINE S == {d \in 0..(MaxDepth + 1) : Answered(d)}
    <2>1. MaxDepth + 1 \in S
        BY <1>7 DEF Answered, Tree
    <2>2. \A d \in 0..((MaxDepth + 1) - 1) : d + 1 \in S => d \in S
        BY <1>5, <1>7
    <2> HIDE DEF S
    <2>3. 0..(MaxDepth + 1) \subseteq S
        BY <1>7, <2>1, <2>2, DownFrom
    <2> QED BY <1>7, <2>3 DEF S
<1>9. ASSUME AllYes(0)
      PROVE  \A d \in 0..MaxDepth : AllYes(d)
    <2> DEFINE S == {d \in 0..MaxDepth : AllYes(d)}
    <2>1. 0 \in S
        BY <1>7, <1>9
    <2>2. \A d \in 0..(MaxDepth - 1) : d \in S => d + 1 \in S
        BY <1>6, <1>7
    <2> HIDE DEF S
    <2>3. 0..MaxDepth \subseteq S
        BY <1>7, <2>1, <2>2, UpTo
    <2> QED BY <2>3 DEF S
<1>10. root \in Levels(root)[0] /\ \A n \in Levels(root)[0] : n = root
    BY LevelFacts
<1>11. f[0][root] = "yes" => AllMet
    <2> SUFFICES ASSUME f[0][root] = "yes", NEW leaf \in Leaves(root)
                 PROVE  Met(leaf)
        OBVIOUS
    <2>1. PICK d \in 0..MaxDepth : leaf \in Levels(root)[d] /\ leaf.kind # "and"
        BY DEF Leaves, Nodes
    <2>2. f[d][leaf] = "yes"
        BY <1>9, <1>10, <2>1 DEF AllYes
    <2> QED BY <1>3, <2>1, <2>2
<1>12. f[0][root] = IF AllMet THEN "yes" ELSE "no"
    BY <1>8, <1>10, <1>11 DEF Answered
<1>13. Meets(root, metrics, members, c) <=> AllMet
    BY TreeHasLeaf DEF Meets, Met
<1> QED BY <1>1, <1>12, <1>13 DEF parents

-----------------------------------------------------------------------------
(* The rules.                                                              *)

Seeds == {"Active Buyers", "VIP", "Risk Group", "Active VIPs"}

LEMMA SeedRule ==
    /\ Seeds \subseteq Segments
    /\ Rule["Active Buyers"] = Compare("tx_count_30d", ">=", 1)
    /\ Rule["VIP"] = Compare("sum_amount_60d", ">", VipSum)
    /\ Rule["Risk Group"] = And(<<Compare("last_tx_age_days", ">", Age90),
                                  Compare("tx_count_total", ">=", 1)>>)
    /\ Rule["Active VIPs"] = And(<<InSegment("Active Buyers"), InSegment("VIP")>>)
<1>1. /\ SeedRules["Active Buyers"] = Compare("tx_count_30d", ">=", 1)
      /\ SeedRules["VIP"] = Compare("sum_amount_60d", ">", VipSum)
      /\ SeedRules["Risk Group"] = And(<<Compare("last_tx_age_days", ">", Age90),
                                         Compare("tx_count_total", ">=", 1)>>)
      /\ SeedRules["Active VIPs"] = And(<<InSegment("Active Buyers"), InSegment("VIP")>>)
      /\ DOMAIN SeedRules = Seeds
    BY DEF SeedRules, Seeds
<1> QED BY <1>1 DEF Rule, Segments, Seeds

LEMMA LeafTree ==
    ASSUME NEW node, node.kind \in {"compare", "in_segment"}
    PROVE  Tree(node) /\ Nodes(node) = {node}
<1>1. Below({node}) = {} /\ Below({}) = {}
    BY DEF Below
<1> DEFINE S == {d \in 0..MaxDepth : Levels(node)[d + 1] = {}}
<1>2. 0 \in S
    <2>1. 0 \in 0..MaxDepth
        BY MaxDepthAssumption
    <2>2. Levels(node)[0] = {node} /\ Levels(node)[0 + 1] = Below(Levels(node)[0])
        BY <2>1, LevelFacts
    <2> QED BY <1>1, <2>1, <2>2
<1>3. ASSUME NEW d \in 0..(MaxDepth - 1), d \in S
      PROVE  d + 1 \in S
    <2>1. d + 1 \in 0..MaxDepth
        BY MaxDepthAssumption
    <2> QED BY <1>1, <1>3, <2>1, LevelFacts
<1> HIDE DEF S
<1>4. 0..MaxDepth \subseteq S
    BY <1>2, <1>3, UpTo, MaxDepthAssumption
<1>5. \A d \in 0..MaxDepth : Levels(node)[d + 1] = {}
    BY <1>4 DEF S
<1>6. ASSUME NEW d \in 0..MaxDepth, d # 0
      PROVE  Levels(node)[d] = {}
    <2>1. d - 1 \in 0..MaxDepth /\ (d - 1) + 1 = d
        BY <1>6, MaxDepthAssumption
    <2> QED BY <1>5, <2>1
<1>7. Nodes(node) = {node}
    <2>1. 0 \in 0..MaxDepth /\ MaxDepth \in 0..MaxDepth
        BY MaxDepthAssumption
    <2> QED BY <1>6, <2>1, LevelFacts DEF Nodes
<1>8. Levels(node)[MaxDepth + 1] = {}
    BY <1>5, MaxDepthAssumption
<1> QED BY <1>7, <1>8 DEF Tree

LEMMA PairTree ==
    ASSUME NEW a, NEW b, a.kind \in {"compare", "in_segment"},
           b.kind \in {"compare", "in_segment"}
    PROVE  Tree(And(<<a, b>>)) /\ Nodes(And(<<a, b>>)) = {And(<<a, b>>), a, b}
<1> DEFINE node == And(<<a, b>>)
<1>1. /\ node.kind = "and" /\ node.children = <<a, b>>
      /\ Children(node) = {a, b}
      /\ node.children \in Seq(Children(node)) \ {<<>>}
    <2>1. node.kind = "and" /\ node.children = <<a, b>>
        BY DEF And
    <2>2. DOMAIN <<a, b>> = {1, 2} /\ <<a, b>>[1] = a /\ <<a, b>>[2] = b
        OBVIOUS
    <2>3. Children(node) = {a, b}
        BY <2>1, <2>2 DEF Children
    <2>4. <<a, b>> \in Seq({a, b}) /\ <<a, b>> # <<>>
        OBVIOUS
    <2> QED BY <2>1, <2>3, <2>4
<1> HIDE DEF node
<1>2. Below({node}) = {a, b} /\ Below({a, b}) = {} /\ Below({}) = {}
    BY <1>1 DEF Below
<1>3. Levels(node)[0] = {node} /\ Levels(node)[1] = {a, b}
    <2>1. 0 \in 0..MaxDepth
        BY MaxDepthAssumption
    <2>2. Levels(node)[0] = {node} /\ Levels(node)[0 + 1] = Below(Levels(node)[0])
        BY <2>1, LevelFacts
    <2>3. 0 + 1 = 1
        OBVIOUS
    <2> QED BY <1>2, <2>2, <2>3
<1> DEFINE S == {d \in 0..MaxDepth : d # 0 => Levels(node)[d + 1] = {}}
<1>4. 0 \in S
    BY MaxDepthAssumption
<1>5. ASSUME NEW d \in 0..(MaxDepth - 1), d \in S
      PROVE  d + 1 \in S
    <2>1. d + 1 \in 0..MaxDepth
        BY MaxDepthAssumption
    <2>2. Levels(node)[(d + 1) + 1] = Below(Levels(node)[d + 1])
        BY <2>1, LevelFacts
    <2>3. d = 0 => d + 1 = 1
        OBVIOUS
    <2>4. Levels(node)[d + 1] \in {{}, {a, b}}
        BY <1>3, <1>5, <2>3
    <2> QED BY <1>2, <2>1, <2>2, <2>4
<1> HIDE DEF S
<1>6. 0..MaxDepth \subseteq S
    BY <1>4, <1>5, UpTo, MaxDepthAssumption
<1>7. \A d \in 0..MaxDepth : d # 0 => Levels(node)[d + 1] = {}
    BY <1>6 DEF S
<1>8. ASSUME NEW d \in 0..MaxDepth, d \notin {0, 1}
      PROVE  Levels(node)[d] = {}
    <2>1. d - 1 \in 0..MaxDepth /\ (d - 1) + 1 = d /\ d - 1 # 0
        BY <1>8, MaxDepthAssumption
    <2> QED BY <1>7, <2>1
<1>9. Nodes(node) = {node, a, b}
    <2>1. 0 \in 0..MaxDepth /\ 1 \in 0..MaxDepth
        BY MaxDepthAssumption
    <2> QED BY <1>3, <1>8, <2>1 DEF Nodes
<1>10. Levels(node)[MaxDepth + 1] = {}
    BY <1>7, MaxDepthAssumption
<1>11. Tree(node)
    BY <1>1, <1>9, <1>10 DEF Tree
<1> QED BY <1>9, <1>11 DEF node

LEMMA RulesAreTrees ==
    ASSUME NEW s \in Segments
    PROVE  Tree(Rule[s])
<1>1. CASE s \in Seeds
    <2>1. ASSUME NEW metric, NEW op, NEW value
          PROVE  Compare(metric, op, value).kind \in {"compare", "in_segment"}
        BY DEF Compare
    <2>2. ASSUME NEW q
          PROVE  InSegment(q).kind \in {"compare", "in_segment"}
        BY DEF InSegment
    <2>3. ASSUME NEW metric, NEW op, NEW value
          PROVE  Tree(Compare(metric, op, value))
        BY <2>1, LeafTree
    <2>4. Tree(And(<<Compare("last_tx_age_days", ">", Age90),
                     Compare("tx_count_total", ">=", 1)>>))
        <3> DEFINE a == Compare("last_tx_age_days", ">", Age90)
                   b == Compare("tx_count_total", ">=", 1)
        <3>1. /\ a.kind \in {"compare", "in_segment"}
              /\ b.kind \in {"compare", "in_segment"}
            BY <2>1
        <3> HIDE DEF a, b
        <3>2. Tree(And(<<a, b>>))
            BY <3>1, PairTree
        <3> QED BY <3>2 DEF a, b
    <2>5. Tree(And(<<InSegment("Active Buyers"), InSegment("VIP")>>))
        <3> DEFINE a == InSegment("Active Buyers")
                   b == InSegment("VIP")
        <3>1. /\ a.kind \in {"compare", "in_segment"}
              /\ b.kind \in {"compare", "in_segment"}
            BY <2>2
        <3> HIDE DEF a, b
        <3>2. Tree(And(<<a, b>>))
            BY <3>1, PairTree
        <3> QED BY <3>2 DEF a, b
    <2>6. s \in Seeds => Tree(Rule[s])
        BY <2>3, <2>4, <2>5, SeedRule DEF Seeds
    <2> QED BY <1>1, <2>6
<1>2. CASE s \notin Seeds
    <2>1. DOMAIN SeedRules = Seeds
        BY DEF SeedRules, Seeds
    <2>2. Rule[s] = UserRules[s] /\ Valid(UserRules[s])
        BY <1>2, <2>1 DEF Rule, Segments
    <2> QED BY <2>2, ValidTree
<1> QED BY <1>1, <1>2

\* The customers the rule of s asks for, if the members are those of m.
TargetIn(s, m) == {c \in Customers : Meets(Rule[s], MetricsOf(c), m, c)}

LEMMA AnswersMeaning ==
    ASSUME NEW s \in Segments, NEW m
    PROVE  Answers(s, m) =
                [c \in Customers |-> IF c \in TargetIn(s, m) THEN "yes" ELSE "no"]
<1>1. ASSUME NEW c \in Customers
      PROVE  Evaluate(Rule[s], MetricsOf(c), [q \in Parents[s] |-> m[q]], c) =
                IF c \in TargetIn(s, m) THEN "yes" ELSE "no"
    <2>1. Parents[s] = CollectParentIds(Rule[s])
        BY DEF Parents
    <2>2. c \in TargetIn(s, m) <=> Meets(Rule[s], MetricsOf(c), m, c)
        BY DEF TargetIn
    <2> QED BY <2>1, <2>2, RulesAreTrees, EvaluatorIsRight
<1>2. Answers(s, m) = [c \in Customers |->
            Evaluate(Rule[s], MetricsOf(c), [q \in Parents[s] |-> m[q]], c)]
    BY DEF Answers
<1> QED BY <1>1, <1>2

LEMMA RulesMean == RuleMeaning
BY AnswersMeaning DEF RuleMeaning, Target, TargetIn

(* evaluateSegment, for every rule that validateRule and                   *)
(* assertRuleReferences accept: it never throws, and finds the customers   *)
(* that meet each leaf of the tree, in whatever state.                     *)
THEOREM RulesMeanWhatTheySay == SimulatorSpec => []RuleMeaning
BY RulesMean, PTL

-----------------------------------------------------------------------------
(* The order of a rebuild.                                                 *)

SegmentCount == Cardinality(Segments)

\* The segments of q, without repetition, each after its parents.
InOrder(q) ==
    \A i \in 1..Len(q) :
        /\ q[i] \notin {q[j] : j \in 1..(i - 1)}
        /\ Parents[q[i]] \subseteq {q[j] : j \in 1..(i - 1)}

\* One more segment in the order.
Sorted(q) ==
    LET done == ToSet(q)
        next == {s \in Segments \ done : Parents[s] \cap Segments \subseteq done}
    IN IF next = {} THEN q ELSE Append(q, CHOOSE s \in next : TRUE)

LEMMA SegmentsFinite == IsFiniteSet(Segments) /\ SegmentCount \in Nat
<1>1. Segments = Seeds \cup {s \in DOMAIN UserRules : Valid(UserRules[s])}
    BY DEF Segments, Rule, SeedRules, Seeds
<1>2. IsFiniteSet({s \in DOMAIN UserRules : Valid(UserRules[s])})
    <2>1. {s \in DOMAIN UserRules : Valid(UserRules[s])} \in SUBSET DOMAIN UserRules
        OBVIOUS
    <2> QED BY <2>1, FS_Subset, RulesAssumption
<1>3. IsFiniteSet(Seeds)
    <2>1. IsFiniteSet({"Active Buyers"})
        BY FS_Singleton
    <2>2. IsFiniteSet({"Active Buyers"} \cup {"VIP"})
        BY <2>1, FS_AddElement
    <2>3. IsFiniteSet(({"Active Buyers"} \cup {"VIP"}) \cup {"Risk Group"})
        BY <2>2, FS_AddElement
    <2>4. IsFiniteSet((({"Active Buyers"} \cup {"VIP"}) \cup {"Risk Group"})
                            \cup {"Active VIPs"})
        BY <2>3, FS_AddElement
    <2>5. Seeds = (({"Active Buyers"} \cup {"VIP"}) \cup {"Risk Group"})
                        \cup {"Active VIPs"}
        BY DEF Seeds
    <2> QED BY <2>4, <2>5
<1>4. IsFiniteSet(Segments)
    BY <1>1, <1>2, <1>3, FS_Union
<1> QED BY <1>4, FS_CardinalityType DEF SegmentCount

LEMMA SortExists ==
    \E f : f = [n \in 0..SegmentCount |-> IF n = 0 THEN <<>> ELSE Sorted(f[n - 1])]
<1> DEFINE Chain(n) == \E f : f = [i \in 0..n |->
                            IF i = 0 THEN <<>> ELSE Sorted(f[i - 1])]
           Good == {n \in Nat : Chain(n)}
<1>1. 0 \in Good
    <2>1. [i \in 0..0 |-> <<>>] = [i \in 0..0 |->
            IF i = 0 THEN <<>> ELSE Sorted([e \in 0..0 |-> <<>>][i - 1])]
        OBVIOUS
    <2> QED BY <2>1
<1>2. ASSUME NEW n \in Good
      PROVE  n + 1 \in Good
    <2>1. PICK f : f = [i \in 0..n |-> IF i = 0 THEN <<>> ELSE Sorted(f[i - 1])]
        OBVIOUS
    <2> DEFINE g == [i \in 0..(n + 1) |->
                        IF i = n + 1 THEN Sorted(f[n]) ELSE f[i]]
    <2> n \in Nat
        OBVIOUS
    <2> HIDE DEF Good
    <2>2. ASSUME NEW i \in 0..(n + 1)
          PROVE  g[i] = IF i = 0 THEN <<>> ELSE Sorted(g[i - 1])
        <3>1. CASE i = n + 1
            <4>1. n \in 0..(n + 1) /\ g[n] = f[n]
                BY <2>1
            <4> QED BY <3>1, <4>1
        <3>2. CASE i \in 0..n
            <4>1. g[i] = f[i] /\ (i # 0 => g[i - 1] = f[i - 1])
                BY <3>2
            <4>2. f[i] = IF i = 0 THEN <<>> ELSE Sorted(f[i - 1])
                BY <2>1, <3>2
            <4> QED BY <4>1, <4>2
        <3> QED BY <3>1, <3>2
    <2>3. g = [i \in 0..(n + 1) |-> IF i = 0 THEN <<>> ELSE Sorted(g[i - 1])]
        BY <2>2
    <2> HIDE DEF g
    <2>4. Chain(n + 1)
        BY <2>3
    <2> HIDE DEF Chain
    <2> QED BY <2>4 DEF Good
<1> HIDE DEF Good
<1>3. Good = Nat
    <2>1. Good \in SUBSET Nat
        BY DEF Good
    <2> QED BY <1>1, <1>2, <2>1, AllNumbers
<1> QED BY <1>3, SegmentsFinite DEF Good

LEMMA OneMoreSorted ==
    ASSUME NEW q \in Seq(Segments), InOrder(q),
           Cardinality(ToSet(q)) = Len(q), IsFiniteSet(ToSet(q)), Len(q) < SegmentCount
    PROVE  /\ Sorted(q) \in Seq(Segments)
           /\ Len(Sorted(q)) = Len(q) + 1
           /\ InOrder(Sorted(q))
           /\ IsFiniteSet(ToSet(Sorted(q)))
           /\ Cardinality(ToSet(Sorted(q))) = Len(q) + 1
<1> DEFINE done == ToSet(q)
           next == {s \in Segments \ done : Parents[s] \cap Segments \subseteq done}
<1>1. done = {q[i] : i \in 1..Len(q)} /\ done \subseteq Segments
    BY DEF ToSet
<1>2. Segments \ done # {}
    <2>1. done # Segments
        BY DEF SegmentCount
    <2> QED BY <1>1, <2>1
<1>3. PICK p \in Segments \ done : Parents[p] \cap (Segments \ done) = {}
    BY <1>2, RulesAssumption
<1>4. p \in next
    BY <1>3
<1>5. PICK s \in next : Sorted(q) = Append(q, s)
    BY <1>4 DEF Sorted
<1>6. s \in Segments /\ s \notin done /\ Parents[s] \subseteq done
    BY <1>5, RulesAssumption
<1> HIDE DEF next, done
<1>7. /\ Sorted(q) \in Seq(Segments)
      /\ Len(Sorted(q)) = Len(q) + 1
      /\ Len(q) \in Nat
      /\ \A i \in 1..Len(q) : Sorted(q)[i] = q[i]
      /\ Sorted(q)[Len(q) + 1] = s
    BY <1>5, <1>6
<1>8. \A i \in 1..(Len(q) + 1) : {Sorted(q)[j] : j \in 1..(i - 1)} = {q[j] : j \in 1..(i - 1)}
    BY <1>7
<1>9. InOrder(Sorted(q))
    <2> SUFFICES ASSUME NEW i \in 1..(Len(q) + 1)
                 PROVE  /\ Sorted(q)[i] \notin {q[j] : j \in 1..(i - 1)}
                        /\ Parents[Sorted(q)[i]] \subseteq {q[j] : j \in 1..(i - 1)}
        BY <1>7, <1>8 DEF InOrder
    <2>1. CASE i = Len(q) + 1
        <3>1. {q[j] : j \in 1..(i - 1)} = done
            BY <1>1, <1>7, <2>1
        <3> QED BY <1>6, <1>7, <2>1, <3>1
    <2>2. CASE i \in 1..Len(q)
        BY <1>7, <2>2 DEF InOrder
    <2> QED BY <1>7, <2>1, <2>2
<1>10. ToSet(Sorted(q)) = done \cup {s}
    <2>1. ToSet(Sorted(q)) = {Sorted(q)[i] : i \in 1..(Len(q) + 1)}
        BY <1>7 DEF ToSet
    <2> QED BY <1>1, <1>7, <2>1
<1>11. IsFiniteSet(ToSet(Sorted(q))) /\ Cardinality(ToSet(Sorted(q))) = Len(q) + 1
    <2>1. IsFiniteSet(done) /\ Cardinality(done) = Len(q)
        BY DEF done
    <2>2. /\ IsFiniteSet(done \cup {s})
          /\ Cardinality(done \cup {s}) = Cardinality(done) + 1
        BY <1>6, <2>1, FS_AddElement
    <2> QED BY <1>10, <2>1, <2>2
<1> QED BY <1>7, <1>9, <1>11

(* topoSort throws never: it finds all segments, each after its parents.   *)
LEMMA SortOrders ==
    /\ TopoSort \in Seq(Segments)
    /\ Len(TopoSort) = SegmentCount
    /\ InOrder(TopoSort)
    /\ ToSet(TopoSort) = Segments
<1>1. PICK f : /\ f = [n \in 0..SegmentCount |-> IF n = 0 THEN <<>> ELSE Sorted(f[n - 1])]
               /\ TopoSort = f[SegmentCount]
    BY SortExists DEF TopoSort, Sorted, SegmentCount
<1> DEFINE S == {n \in 0..SegmentCount : /\ f[n] \in Seq(Segments)
                                  /\ Len(f[n]) = n
                                  /\ InOrder(f[n])
                                  /\ IsFiniteSet(ToSet(f[n]))
                                  /\ Cardinality(ToSet(f[n])) = n}
<1>2. SegmentCount \in Nat
    BY SegmentsFinite
<1>3. 0 \in S
    <2>1. f[0] = <<>>
        BY <1>1, <1>2
    <2>2. ToSet(<<>>) = {}
        BY DEF ToSet
    <2>3. InOrder(<<>>) /\ <<>> \in Seq(Segments) /\ Len(<<>>) = 0
        BY DEF InOrder
    <2>4. IsFiniteSet({}) /\ Cardinality({}) = 0 /\ 0 \in 0..SegmentCount
        BY <1>2, FS_EmptySet
    <2> QED BY <2>1, <2>2, <2>3, <2>4
<1>4. ASSUME NEW n \in 0..(SegmentCount - 1), n \in S
      PROVE  n + 1 \in S
    <2>1. n + 1 \in 0..SegmentCount /\ n < SegmentCount /\ (n + 1) - 1 = n /\ n + 1 # 0
        BY <1>2
    <2>2. f[n + 1] = Sorted(f[n])
        BY <1>1, <2>1
    <2> QED BY <1>4, <2>1, <2>2, OneMoreSorted
<1> HIDE DEF S
<1>5. 0..SegmentCount \subseteq S
    BY <1>2, <1>3, <1>4, UpTo
<1>6. SegmentCount \in S
    BY <1>2, <1>5
<1>7. /\ TopoSort \in Seq(Segments) /\ Len(TopoSort) = SegmentCount /\ InOrder(TopoSort)
      /\ IsFiniteSet(ToSet(TopoSort)) /\ Cardinality(ToSet(TopoSort)) = SegmentCount
    BY <1>1, <1>6 DEF S
<1>8. ToSet(TopoSort) \in SUBSET Segments
    BY <1>7 DEF ToSet
<1>9. ToSet(TopoSort) = Segments
    BY <1>7, <1>8, SegmentsFinite, FS_Subset DEF SegmentCount
<1> QED BY <1>7, <1>9

-----------------------------------------------------------------------------
(* The rebuild.                                                            *)

Members == [Segments -> SUBSET Customers]

\* The members of m are those the rules of the segments in S ask for.
RightIn(S, m) == \A s \in S : m[s] = TargetIn(s, m)

LEMMA TargetByParents ==
    ASSUME NEW s \in Segments, NEW m, NEW n, \A q \in Parents[s] : m[q] = n[q]
    PROVE  TargetIn(s, m) = TargetIn(s, n)
<1> SUFFICES ASSUME NEW c \in Customers
             PROVE  Meets(Rule[s], MetricsOf(c), m, c) =
                        Meets(Rule[s], MetricsOf(c), n, c)
    BY DEF TargetIn
<1>1. ASSUME NEW leaf \in Leaves(Rule[s])
      PROVE  Holds(leaf, MetricsOf(c), m, c) = Holds(leaf, MetricsOf(c), n, c)
    <2>1. leaf \in Nodes(Rule[s]) /\ leaf.kind # "and"
        BY DEF Leaves
    <2>2. leaf.kind \in {"compare", "in_segment"}
        BY <2>1, RulesAreTrees DEF Tree
    <2>3. leaf.kind = "in_segment" => leaf.segmentId \in Parents[s]
        BY <2>1 DEF Parents, CollectParentIds
    <2> QED BY <2>2, <2>3 DEF Holds
<1> QED BY <1>1 DEF Meets

\* A rebuild that is not over.
Running == {r \in [member : Members, over : BOOLEAN] : ~r.over}

LEMMA EvaluatedMeaning ==
    ASSUME NEW r \in Running, NEW s \in Segments
    PROVE  /\ Evaluated(r, s) \in Running
           /\ Evaluated(r, s).member =
                    [r.member EXCEPT ![s] = TargetIn(s, r.member)]
<1> DEFINE answers == Answers(s, r.member)
<1>1. answers = [c \in Customers |->
                    IF c \in TargetIn(s, r.member) THEN "yes" ELSE "no"]
    BY AnswersMeaning
<1>2. /\ \A c \in Customers : answers[c] # "throws"
      /\ {c \in Customers : answers[c] = "yes"} = TargetIn(s, r.member)
    BY <1>1 DEF TargetIn
<1> HIDE DEF answers
<1>3. /\ r \in [member : Members, over : BOOLEAN] /\ ~r.over
      /\ r.member \in [Segments -> SUBSET Customers]
    BY DEF Running, Members
<1>4. Evaluated(r, s) = [r EXCEPT !.member[s] = TargetIn(s, r.member)]
    BY <1>2, <1>3 DEF Evaluated, answers
<1>5. TargetIn(s, r.member) \in SUBSET Customers
    BY DEF TargetIn
<1> QED BY <1>3, <1>4, <1>5 DEF Running, Members

LEMMA RebuildExists ==
    ASSUME NEW r
    PROVE  \E f : f = [n \in 0..Len(TopoSort) |->
                IF n = 0 THEN r ELSE Evaluated(f[n - 1], TopoSort[n])]
<1> DEFINE Chain(n) == \E f : f = [i \in 0..n |->
                            IF i = 0 THEN r ELSE Evaluated(f[i - 1], TopoSort[i])]
           Good == {n \in Nat : Chain(n)}
<1>1. 0 \in Good
    <2>1. [i \in 0..0 |-> r] = [i \in 0..0 |->
            IF i = 0 THEN r ELSE Evaluated([e \in 0..0 |-> r][i - 1], TopoSort[i])]
        OBVIOUS
    <2> QED BY <2>1
<1>2. ASSUME NEW n \in Good
      PROVE  n + 1 \in Good
    <2>1. PICK f : f = [i \in 0..n |->
                            IF i = 0 THEN r ELSE Evaluated(f[i - 1], TopoSort[i])]
        OBVIOUS
    <2> DEFINE g == [i \in 0..(n + 1) |->
                        IF i = n + 1 THEN Evaluated(f[n], TopoSort[i]) ELSE f[i]]
    <2> n \in Nat
        OBVIOUS
    <2> HIDE DEF Good
    <2>2. ASSUME NEW i \in 0..(n + 1)
          PROVE  g[i] = IF i = 0 THEN r ELSE Evaluated(g[i - 1], TopoSort[i])
        <3>1. CASE i = n + 1
            <4>1. n \in 0..(n + 1) /\ g[n] = f[n]
                BY <2>1
            <4> QED BY <3>1, <4>1
        <3>2. CASE i \in 0..n
            <4>1. g[i] = f[i] /\ (i # 0 => g[i - 1] = f[i - 1])
                BY <3>2
            <4>2. f[i] = IF i = 0 THEN r ELSE Evaluated(f[i - 1], TopoSort[i])
                BY <2>1, <3>2
            <4> QED BY <4>1, <4>2
        <3> QED BY <3>1, <3>2
    <2>3. g = [i \in 0..(n + 1) |->
                    IF i = 0 THEN r ELSE Evaluated(g[i - 1], TopoSort[i])]
        BY <2>2
    <2> HIDE DEF g
    <2>4. Chain(n + 1)
        BY <2>3
    <2> HIDE DEF Chain
    <2> QED BY <2>4 DEF Good
<1> HIDE DEF Good
<1>3. Good = Nat
    <2>1. Good \in SUBSET Nat
        BY DEF Good
    <2> QED BY <1>1, <1>2, <2>1, AllNumbers
<1>4. Len(TopoSort) \in Nat
    BY SortOrders
<1> QED BY <1>3, <1>4 DEF Good

(* rebuildAllDynamic gives every segment the members its rule asks for,    *)
(* whatever members it starts from: no segment is evaluated before one of  *)
(* its parents, and no later evaluation undoes an earlier one.             *)
THEOREM RebuildIsRight ==
    ASSUME NEW m \in Members
    PROVE  /\ RebuildAllDynamic(m) \in Members
           /\ RightIn(Segments, RebuildAllDynamic(m))
<1> DEFINE N == Len(TopoSort)
           first == [member |-> m, over |-> Len(TopoSort) < Cardinality(Segments)]
           Done(n) == {TopoSort[i] : i \in 1..n}
<1>1. PICK f : /\ f = [n \in 0..N |->
                        IF n = 0 THEN first ELSE Evaluated(f[n - 1], TopoSort[n])]
               /\ RebuildAllDynamic(m) = f[N].member
    BY RebuildExists DEF RebuildAllDynamic
<1>2. N \in Nat /\ N = Cardinality(Segments)
    BY SortOrders DEF SegmentCount
<1>3. first \in Running
    <2> DEFINE over == Len(TopoSort) < Cardinality(Segments)
    <2>1. ~over /\ over \in BOOLEAN
        BY <1>2
    <2> HIDE DEF over
    <2>2. [member |-> m, over |-> over] \in Running
        BY <2>1 DEF Running
    <2> QED BY <2>2 DEF over
<1> HIDE DEF first
<1>4. f[0] = first /\ \A n \in 0..(N - 1) : f[n + 1] = Evaluated(f[n], TopoSort[n + 1])
    <2>1. \A n \in 0..(N - 1) : n + 1 \in 0..N /\ n + 1 # 0 /\ (n + 1) - 1 = n
        BY <1>2
    <2> QED BY <1>1, <1>2, <2>1
<1> DEFINE S == {n \in 0..N : f[n] \in Running /\ RightIn(Done(n), f[n].member)}
<1>5. 0 \in S
    <2>1. Done(0) = {}
        OBVIOUS
    <2>2. RightIn(Done(0), f[0].member)
        BY <2>1 DEF RightIn
    <2> QED BY <1>2, <1>3, <1>4, <2>2
<1>6. ASSUME NEW n \in 0..(N - 1), n \in S
      PROVE  n + 1 \in S
    <2>1. n \in Nat /\ n + 1 \in 0..N /\ n + 1 \in 1..N
        BY <1>2
    <2> DEFINE x == f[n].member
               s == TopoSort[n + 1]
               y == [x EXCEPT ![s] = TargetIn(s, x)]
    <2>2. f[n] \in Running /\ x \in Members /\ RightIn(Done(n), x)
        BY <1>6 DEF Running
    <2>3. /\ s \in Segments /\ s \notin Done(n) /\ Parents[s] \subseteq Done(n)
          /\ \A i \in 1..n : /\ TopoSort[i] \in Segments
                             /\ Parents[TopoSort[i]] \subseteq Done(n)
        <3>1. \A i \in 1..N : TopoSort[i] \in Segments
            BY SortOrders
        <3>2. (n + 1) - 1 = n
            BY <2>1
        <3>3. s \notin Done(n) /\ Parents[s] \subseteq Done(n)
            BY <2>1, <3>2, SortOrders DEF InOrder
        <3>4. ASSUME NEW i \in 1..n
              PROVE  Parents[TopoSort[i]] \subseteq Done(n)
            <4>1. i \in 1..N /\ {TopoSort[j] : j \in 1..(i - 1)} \subseteq Done(n)
                BY <1>2, <2>1
            <4> QED BY <4>1, SortOrders DEF InOrder
        <3> QED BY <2>1, <3>1, <3>3, <3>4, <1>2
    <2>4. Done(n + 1) = Done(n) \cup {s}
        BY <2>1
    <2>5. Done(n) \subseteq Segments
        BY <2>3
    <2>6. /\ y \in Members /\ y[s] = TargetIn(s, x)
          /\ \A q \in Segments \ {s} : y[q] = x[q]
        BY <2>2, <2>3 DEF Members, TargetIn
    <2>7. f[n + 1] \in Running /\ f[n + 1].member = y
        <3>1. f[n + 1] = Evaluated(f[n], s)
            BY <1>4
        <3> HIDE DEF s
        <3>2. /\ Evaluated(f[n], s) \in Running
              /\ Evaluated(f[n], s).member = [f[n].member EXCEPT ![s] =
                                                TargetIn(s, f[n].member)]
            BY <2>2, <2>3, EvaluatedMeaning
        <3> QED BY <3>1, <3>2
    <2> HIDE DEF x, s, y, Done
    <2>8. \A q \in Done(n) : y[q] = x[q]
        BY <2>3, <2>5, <2>6
    <2>9. TargetIn(s, y) = TargetIn(s, x)
        BY <2>3, <2>8, TargetByParents
    <2>10. ASSUME NEW q \in Done(n)
           PROVE  y[q] = TargetIn(q, y)
        <3>1. q \in Segments /\ Parents[q] \subseteq Done(n)
            BY <2>3, <2>5 DEF Done
        <3>2. TargetIn(q, y) = TargetIn(q, x)
            BY <2>8, <3>1, TargetByParents
        <3> QED BY <2>2, <2>8, <3>2 DEF RightIn
    <2>11. RightIn(Done(n + 1), y)
        BY <2>4, <2>6, <2>9, <2>10 DEF RightIn
    <2> QED BY <2>1, <2>7, <2>11
<1> HIDE DEF S
<1>7. N \in S
    <2>1. 0..N \subseteq S
        BY <1>2, <1>5, <1>6, UpTo
    <2> QED BY <1>2, <2>1
<1>8. f[N].member \in Members /\ RightIn(Done(N), f[N].member)
    BY <1>7 DEF S, Running
<1>9. Done(N) = Segments
    BY SortOrders DEF ToSet
<1> QED BY <1>1, <1>8, <1>9

-----------------------------------------------------------------------------
(* Drift.                                                                  *)

\* A call about to mark has someone to mark, and one about to insert a
\* chunk has rows to insert.
TouchedInv == \A k \in Calls :
    /\ step[k] = "mark" => job[k].touched # {} \/ Customers = {}
    /\ step[k] = "chunk" => job[k].left > 0

\* What a step of a call does to the rows leaves a signal pending, and a
\* signal that is pending stays so.
Noticed ==
    /\ Pending => Pending'
    /\ UNCHANGED transactions \/ Pending'

LEMMA TouchedAfter ==
    ASSUME TypeInv, TouchedInv, NEW k \in Calls, NEW s, NEW j,
           step' = [step EXCEPT ![k] = s], job' = [job EXCEPT ![k] = j],
           s = "mark" => j.touched # {} \/ Customers = {},
           s = "chunk" => j.left > 0
    PROVE  TouchedInv'
<1>1. /\ step'[k] = s /\ job'[k] = j
      /\ \A i \in Calls : i # k => step'[i] = step[i] /\ job'[i] = job[i]
    BY DEF TypeInv, CallsFit
<1> QED BY <1>1 DEF TouchedInv

LEMMA PendingAfter ==
    ASSUME TypeInv, NEW k \in Calls, NEW s, step[k] # "mark",
           step' = [step EXCEPT ![k] = s], UNCHANGED buffer
    PROVE  /\ Pending => Pending'
           /\ s = "mark" => Pending'
<1>1. /\ step'[k] = s
      /\ \A i \in Calls : i # k => step'[i] = step[i]
    BY DEF TypeInv, CallsFit
<1> QED BY <1>1 DEF Pending

LEMMA CallNoticed ==
    ASSUME TypeInv, TouchedInv, NEW k \in Calls,
           Fire(k) \/ EndpointStep(k) \/ Answer(k)
    PROVE  TouchedInv' /\ (Customers = {} \/ Noticed)
<1> USE DEF TypeInv
<1>1. CASE Fire(k)
    <2>1. Request(k)
        BY <1>1 DEF Fire
    <2>2. PICK s, j : /\ s # "mark" /\ (s = "chunk" => j.left > 0)
                      /\ step[k] = "idle"
                      /\ step' = [step EXCEPT ![k] = s]
                      /\ job' = [job EXCEPT ![k] = j]
        BY <2>1, RequestFits
    <2>3. UNCHANGED <<transactions, buffer>>
        BY <2>1 DEF Request, RequestCustomer, Start, data
    <2> QED BY <2>2, <2>3, TouchedAfter, PendingAfter DEF Noticed
<1>2. CASE Answer(k)
    <2>1. /\ step[k] = "answer" /\ step' = [step EXCEPT ![k] = "idle"]
          /\ job' = [job EXCEPT ![k] = NoJob] /\ UNCHANGED <<transactions, buffer>>
        BY <1>2 DEF Answer, data
    <2> QED BY <2>1, TouchedAfter, PendingAfter DEF Noticed
<1>3. CASE Read(k)
    <2>1. PICK j : job' = [job EXCEPT ![k] = j]
        BY <1>3, ReadFits
    <2>2. /\ step[k] = "read" /\ step' = [step EXCEPT ![k] = "write"]
          /\ UNCHANGED <<transactions, buffer>>
        BY <1>3 DEF Read, data
    <2> QED BY <2>1, <2>2, TouchedAfter, PendingAfter DEF Noticed
<1>4. CASE Insert(k) \/ WriteProfile(k) \/ Chunk(k) \/ Shift(k)
    <2>1. /\ step[k] # "mark" /\ step' = [step EXCEPT ![k] = "mark"]
          /\ UNCHANGED buffer
        BY <1>4 DEF Insert, WriteProfile, Chunk, Shift
    <2>2. \E j : /\ j.touched # {} \/ Customers = {}
                 /\ job' = [job EXCEPT ![k] = j]
        <3>1. CASE Insert(k)
            BY <3>1, InsertFits
        <3>2. CASE WriteProfile(k)
            BY <3>2, WriteProfileFits
        <3>3. CASE Shift(k)
            BY <3>3, ShiftFits
        <3>4. CASE Chunk(k)
            <4>1. step[k] = "chunk"
                BY <3>4 DEF Chunk
            <4>2. job[k].left > 0
                BY <4>1 DEF TouchedInv
            <4>3. PICK size \in Nat : \E rows \in [1..size -> BulkRows] : \E j :
                    /\ job[k].left > 0 => size > 0
                    /\ transactions' = Added(rows)
                    /\ Fits("mark", j)
                    /\ j.touched = {rows[i].customer : i \in 1..size}
                    /\ job' = [job EXCEPT ![k] = j]
                BY <3>4, ChunkFits
            <4>4. PICK rows \in [1..size -> BulkRows] : \E j :
                    /\ job[k].left > 0 => size > 0
                    /\ transactions' = Added(rows)
                    /\ Fits("mark", j)
                    /\ j.touched = {rows[i].customer : i \in 1..size}
                    /\ job' = [job EXCEPT ![k] = j]
                BY <4>3
            <4>5. size > 0 /\ 1 \in 1..size
                BY <4>2, <4>4
            <4>6. rows[1].customer \in {rows[i].customer : i \in 1..size}
                BY <4>5
            <4> QED BY <4>4, <4>6
        <3> QED BY <1>4, <3>1, <3>2, <3>3, <3>4
    <2> QED BY <2>1, <2>2, TouchedAfter, PendingAfter DEF Noticed
<1>5. CASE Mark(k)
    <2>1. PICK s \in {"chunk", "answer"} : \E j :
                    /\ s = "chunk" => j.left > 0
                    /\ step' = [step EXCEPT ![k] = s]
                    /\ job' = [job EXCEPT ![k] = j]
        BY <1>5, MarkFits
    <2>2. TouchedInv'
        BY <2>1, TouchedAfter
    <2>3. /\ UNCHANGED transactions /\ step[k] = "mark"
          /\ buffer' = buffer \cup job[k].touched
        BY <1>5 DEF Mark, data
    <2>4. Customers = {} \/ buffer' # {}
        BY <2>3 DEF TouchedInv
    <2> QED BY <2>2, <2>3, <2>4 DEF Noticed, Pending
<1> QED BY <1>1, <1>2, <1>3, <1>4, <1>5 DEF EndpointStep

LEMMA CallsNoticed ==
    ASSUME TypeInv, TouchedInv, CallStep
    PROVE  TouchedInv' /\ (Customers = {} \/ Noticed)
<1>1. CASE Remount
    BY <1>1 DEF Remount, data, TouchedInv, Noticed, Pending
<1> QED BY <1>1, CallNoticed DEF CallStep

LEMMA MetricsSame ==
    ASSUME UNCHANGED transactions, NEW c
    PROVE  MetricsOf(c)' = MetricsOf(c)
BY DEF MetricsOf, Metrics, RowsOf, MapThenSumSet, MapThenFoldSet

\* Each segment has the members its rule asks for.
InSync == RightIn(Segments, member)

LEMMA TargetSame ==
    ASSUME UNCHANGED <<transactions, member>>, NEW s \in Segments
    PROVE  Target(s)' = Target(s)
<1>1. \A c : MetricsOf(c)' = MetricsOf(c)
    BY MetricsSame
<1>2. Target(s)' = {c \in Customers : Meets(Rule[s], MetricsOf(c)', member', c)}
    BY DEF Target
<1> QED BY <1>1, <1>2 DEF Target

LEMMA SyncMeaning == InSync <=> \A s \in Segments : member[s] = Target(s)
BY DEF InSync, RightIn, TargetIn, Target

\* DriftOnlyByTime, and what it rests on.
DriftInv ==
    /\ TypeInv
    /\ TouchedInv
    /\ member \in Members
    /\ Pending \/ aged \/ InSync

LEMMA SimulatorSteps == [SimulatorNext]_all => [Next]_vars
BY DEF SimulatorNext, all, Next, Flush, Tick

(* Simulator adds the segments to the calls, and nothing to what they do:  *)
(* it implements SimulatorCalls.                                           *)
THEOREM SimulatorImplementsCalls == SimulatorSpec => Spec
<1>1. SimulatorInit => Init
    BY DEF SimulatorInit
<1> QED BY <1>1, SimulatorSteps, PTL DEF SimulatorSpec, Spec

(* What the calls keep to, they keep to beside the segments and flushes.   *)
THEOREM CallInvariants ==
    SimulatorSpec => /\ [](TypeOK /\ BulkExact /\ PatchKept /\ OneCallPerPanel)
                     /\ EachWriteSignalled
BY SimulatorImplementsCalls, TypeCorrect, BulkIsExact, PatchesAreKept,
   PanelHasOneCall, WritesAreSignalled, PTL

LEMMA InitDrift == SimulatorInit => DriftInv /\ InSync
<1> SUFFICES ASSUME SimulatorInit PROVE DriftInv /\ InSync
    OBVIOUS
<1>1. TypeInv
    BY InitTypes DEF SimulatorInit
<1>2. TouchedInv
    BY DEF SimulatorInit, Init, TouchedInv
<1> DEFINE none == [s \in Segments |-> {}]
<1>3. none \in Members
    BY DEF Members
<1> HIDE DEF none
<1>4. member = RebuildAllDynamic(none)
    BY DEF SimulatorInit, none
<1>5. member \in Members /\ InSync
    BY <1>3, <1>4, RebuildIsRight DEF InSync
<1> QED BY <1>1, <1>2, <1>5 DEF DriftInv

LEMMA FlushInSync ==
    ASSUME member \in Members, Flush
    PROVE  member' \in Members /\ InSync'
<1>1. /\ RebuildAllDynamic(member) \in Members
      /\ RightIn(Segments, RebuildAllDynamic(member))
    BY RebuildIsRight
<1>2. member' = RebuildAllDynamic(member) /\ UNCHANGED transactions
    BY DEF Flush, Take, data
<1>3. RightIn(Segments, member')
    BY <1>1, <1>2
<1>4. \A s \in Segments : TargetIn(s, member') = Target(s)'
    <2>1. \A c : MetricsOf(c)' = MetricsOf(c)
        BY <1>2, MetricsSame
    <2> QED BY <2>1 DEF TargetIn, Target
<1>5. \A s \in Segments : member'[s] = Target(s)'
    BY <1>3, <1>4 DEF RightIn
<1>6. InSync'
    BY <1>5 DEF InSync, RightIn, TargetIn, Target
<1> QED BY <1>1, <1>2, <1>6

LEMMA NextDrift == DriftInv /\ [SimulatorNext]_all => DriftInv'
<1> SUFFICES ASSUME DriftInv, [SimulatorNext]_all
             PROVE  DriftInv'
    OBVIOUS
<1> USE DEF DriftInv
<1>1. TypeInv'
    BY SimulatorSteps, NextTypes
<1>2. ASSUME UNCHANGED <<transactions, member>>, InSync
      PROVE  InSync'
    <2>1. \A s \in Segments : Target(s)' = Target(s)
        BY <1>2, TargetSame
    <2>2. \A s \in Segments : member'[s] = Target(s)'
        BY <1>2, <2>1, SyncMeaning
    <2> QED BY <2>2 DEF InSync, RightIn, TargetIn, Target
<1>3. CASE CallStep /\ UNCHANGED <<member, aged>>
    <2>1. TouchedInv' /\ (Customers = {} \/ Noticed)
        BY <1>3, CallsNoticed
    <2>2. member' \in Members
        BY <1>3
    <2>3. CASE Customers = {}
        <3>1. InSync'
            BY <2>2, <2>3 DEF Members, InSync, RightIn, TargetIn
        <3> QED BY <1>1, <2>1, <2>2, <3>1 DEF Members
    <2>4. CASE Noticed
        BY <1>1, <1>2, <1>3, <2>1, <2>2, <2>4 DEF Noticed, Members
    <2> QED BY <2>1, <2>3, <2>4
<1>4. CASE Flush
    <2>1. TouchedInv'
        BY <1>4 DEF Flush, Take, TouchedInv
    <2> QED BY <1>1, <1>4, <2>1, FlushInSync
<1>5. CASE Tick
    <2>1. TouchedInv' /\ aged' /\ member' \in Members
        BY <1>5 DEF Tick, Day, TouchedInv
    <2> QED BY <1>1, <2>1
<1>6. CASE UNCHANGED all
    <2>1. TouchedInv' /\ (Pending => Pending')
        BY <1>6 DEF all, vars, TouchedInv, Pending
    <2>2. member' \in Members /\ UNCHANGED <<transactions, member, aged>>
        BY <1>6 DEF all, vars
    <2> QED BY <1>1, <1>2, <2>1, <2>2
<1> QED BY <1>3, <1>4, <1>5, <1>6 DEF SimulatorNext

LEMMA Drift == SimulatorSpec => []DriftInv
BY InitDrift, NextDrift, PTL DEF SimulatorSpec

(* The endpoints, markChanged and the flush: memberships are wrong only    *)
(* while a signal is pending or because time has passed since the last     *)
(* rebuild, for any rules that were accepted and however calls overlap.    *)
THEOREM DriftNeedsTime == SimulatorSpec => []DriftOnlyByTime
<1>1. DriftInv => DriftOnlyByTime
    BY SyncMeaning DEF DriftInv, DriftOnlyByTime
<1> QED BY <1>1, Drift, PTL

-----------------------------------------------------------------------------
(* Sums.                                                                   *)

\* The rows of S, each as often as it is there.
Total(w, S) == MapThenSumSet(LAMBDA t : w[t], S)

First(S) == CHOOSE t \in S : TRUE

\* The sum over s, when g has those over smaller sets.
SumOf(w, g, s) == IF s = {} THEN 0 ELSE w[First(s)] + g[s \ {First(s)}]

LEMMA SmallerSet ==
    ASSUME NEW s, IsFiniteSet(s), s # {}, NEW n \in Nat, Cardinality(s) <= n + 1
    PROVE  /\ First(s) \in s
           /\ IsFiniteSet(s \ {First(s)})
           /\ Cardinality(s \ {First(s)}) \in Nat
           /\ Cardinality(s \ {First(s)}) <= n
<1>1. First(s) \in s
    BY DEF First
<1>2. /\ IsFiniteSet(s \ {First(s)})
      /\ Cardinality(s \ {First(s)}) = Cardinality(s) - 1
    BY <1>1, FS_RemoveElement
<1>3. Cardinality(s) \in Nat /\ Cardinality(s \ {First(s)}) \in Nat
    BY <1>2, FS_CardinalityType
<1> QED BY <1>1, <1>2, <1>3

LEMMA SumExists ==
    ASSUME NEW w, NEW S, IsFiniteSet(S)
    PROVE  \E g : g = [s \in SUBSET S |-> SumOf(w, g, s)]
<1> DEFINE Small(n) == {s \in SUBSET S : Cardinality(s) <= n}
           Chain(n) == \E g : g = [s \in Small(n) |-> SumOf(w, g, s)]
           Good == {n \in Nat : Chain(n)}
<1>1. \A s \in SUBSET S : IsFiniteSet(s) /\ Cardinality(s) \in Nat
    BY FS_Subset, FS_CardinalityType
<1>2. 0 \in Good
    <2>1. \A s \in Small(0) : s = {}
        BY <1>1, FS_EmptySet
    <2> DEFINE g == [s \in Small(0) |-> 0]
    <2>2. \A s \in Small(0) : g[s] = SumOf(w, g, s)
        BY <2>1 DEF SumOf
    <2>3. g = [s \in Small(0) |-> SumOf(w, g, s)]
        BY <2>2
    <2> HIDE DEF g
    <2>4. Chain(0)
        BY <2>3
    <2> HIDE DEF Chain
    <2> QED BY <2>4
<1>3. ASSUME NEW n \in Good
      PROVE  n + 1 \in Good
    <2>1. PICK f : f = [s \in Small(n) |-> SumOf(w, f, s)]
        OBVIOUS
    <2> n \in Nat
        OBVIOUS
    <2> HIDE DEF Good
    <2> DEFINE g == [s \in Small(n + 1) |-> SumOf(w, f, s)]
    <2>2. ASSUME NEW s \in Small(n + 1)
          PROVE  g[s] = SumOf(w, g, s)
        <3>1. CASE s = {}
            BY <3>1 DEF SumOf
        <3>2. CASE s # {}
            <4> DEFINE r == s \ {First(s)}
            <4>1. r \in Small(n)
                BY <1>1, <3>2, SmallerSet
            <4>2. r \in Small(n + 1) /\ f[r] = SumOf(w, f, r)
                BY <1>1, <2>1, <4>1
            <4>3. g[r] = f[r]
                BY <4>2
            <4> QED BY <3>2, <4>3 DEF SumOf
        <3> QED BY <3>1, <3>2
    <2>3. g = [s \in Small(n + 1) |-> SumOf(w, g, s)]
        BY <2>2
    <2> HIDE DEF g
    <2>4. Chain(n + 1)
        BY <2>3
    <2> HIDE DEF Chain
    <2> QED BY <2>4 DEF Good
<1> HIDE DEF Good
<1>4. Good = Nat
    <2>1. Good \in SUBSET Nat
        BY DEF Good
    <2> QED BY <1>2, <1>3, <2>1, AllNumbers
<1>5. Cardinality(S) \in Good
    BY <1>4, FS_CardinalityType
<1>6. Small(Cardinality(S)) = SUBSET S
    BY FS_Subset
<1>7. PICK g : g = [s \in Small(Cardinality(S)) |-> SumOf(w, g, s)]
    BY <1>5 DEF Good
<1> QED BY <1>6, <1>7

(* Rows that are there at least once are counted at least once.            *)
LEMMA TotalPositive ==
    ASSUME NEW w, NEW S, IsFiniteSet(S), \A t \in S : w[t] \in Nat \ {0}
    PROVE  Total(w, S) \in Nat /\ (Total(w, S) >= 1 <=> S # {})
<1>1. PICK g : /\ g = [s \in SUBSET S |-> SumOf(w, g, s)]
               /\ Total(w, S) = g[S]
    <2> DEFINE g == CHOOSE h : h = [s \in SUBSET S |-> SumOf(w, h, s)]
    <2>1. g = [s \in SUBSET S |-> SumOf(w, g, s)]
        BY SumExists
    <2>2. Total(w, S) = g[S]
        BY DEF Total, MapThenSumSet, MapThenFoldSet, SumOf, First
    <2> QED BY <2>1, <2>2
<1>2. /\ g[{}] = 0
      /\ \A s \in SUBSET S : s # {} => g[s] = w[First(s)] + g[s \ {First(s)}]
    BY <1>1 DEF SumOf
<1> DEFINE Fine(s) == g[s] \in Nat /\ (g[s] >= 1 <=> s # {})
           Good == {n \in Nat : \A s \in SUBSET S : Cardinality(s) <= n => Fine(s)}
<1>3. \A s \in SUBSET S : IsFiniteSet(s) /\ Cardinality(s) \in Nat
    BY FS_Subset, FS_CardinalityType
<1>4. Fine({})
    BY <1>2
<1>5. 0 \in Good
    <2>1. ASSUME NEW s \in SUBSET S, Cardinality(s) <= 0
          PROVE  s = {}
        BY <1>3, <2>1, FS_EmptySet
    <2> HIDE DEF Fine
    <2> QED BY <1>4, <2>1
<1>6. ASSUME NEW n \in Good
      PROVE  n + 1 \in Good
    <2> n \in Nat
        OBVIOUS
    <2> SUFFICES ASSUME NEW s \in SUBSET S, Cardinality(s) <= n + 1
                 PROVE  Fine(s)
        OBVIOUS
    <2> SUFFICES ASSUME s # {}
                 PROVE  Fine(s)
        BY <1>4
    <2> DEFINE r == s \ {First(s)}
    <2>1. First(s) \in S /\ r \in SUBSET S /\ Cardinality(r) <= n
        BY <1>3, SmallerSet
    <2>2. Fine(r)
        BY <2>1
    <2>3. g[s] = w[First(s)] + g[r]
        BY <1>2
    <2>4. w[First(s)] \in Nat \ {0}
        BY <2>1
    <2> HIDE DEF r
    <2> QED BY <2>2, <2>3, <2>4
<1> HIDE DEF Good
<1>7. Good = Nat
    <2>1. Good \in SUBSET Nat
        BY DEF Good
    <2> QED BY <1>5, <1>6, <2>1, AllNumbers
<1>8. Fine(S)
    BY <1>3, <1>7 DEF Good
<1> QED BY <1>1, <1>8

-----------------------------------------------------------------------------
(* Rows.                                                                   *)

\* There are finitely many rows, each at least once.
RowBag(w) == IsFiniteSet(DOMAIN w) /\ \A t \in DOMAIN w : w[t] \in Nat \ {0}

LEMMA ShiftedBag ==
    ASSUME RowBag(transactions), NEW days
    PROVE  RowBag(Shifted(days))
<1> DEFINE rows == DOMAIN transactions
           Now(t) == [t EXCEPT !.age = Older(@, days)]
           Later == {Now(t) : t \in rows}
           After(r) == {t \in rows : Now(t) = r}
<1>1. /\ DOMAIN Shifted(days) = Later
      /\ \A r \in Later : Shifted(days)[r] = Total(transactions, After(r))
    BY DEF Shifted, BagToSet, Total, MapThenSumSet, MapThenFoldSet
<1> HIDE DEF Now
<1>2. IsFiniteSet(Later)
    <2> DEFINE f == [t \in rows |-> Now(t)]
    <2>1. f \in Surjection(rows, Later)
        BY DEF Surjection
    <2> HIDE DEF f, Later
    <2> QED BY <2>1, FS_Surjection DEF RowBag
<1>3. ASSUME NEW r \in Later
      PROVE  Total(transactions, After(r)) \in Nat \ {0}
    <2>1. After(r) \in SUBSET rows /\ After(r) # {}
        OBVIOUS
    <2> HIDE DEF After
    <2>2. IsFiniteSet(After(r)) /\ \A t \in After(r) : transactions[t] \in Nat \ {0}
        BY <2>1, FS_Subset DEF RowBag
    <2>3. /\ Total(transactions, After(r)) \in Nat
          /\ Total(transactions, After(r)) >= 1
        BY <2>1, <2>2, TotalPositive
    <2> QED BY <2>3
<1> QED BY <1>1, <1>2, <1>3 DEF RowBag

LEMMA AddedBag ==
    ASSUME RowBag(transactions), NEW n \in Nat, NEW S, NEW rows \in [1..n -> S]
    PROVE  RowBag(Added(rows))
<1> DEFINE At(t) == {i \in 1..n : rows[i] = t}
<1>1. /\ DOMAIN rows = 1..n /\ ToSet(rows) = {rows[i] : i \in 1..n}
      /\ \A t \in ToSet(rows) : ToBag(rows)[t] = Cardinality(At(t))
    BY DEF ToSet, ToBag, Range
<1>2. DOMAIN Added(rows) = DOMAIN transactions \cup ToSet(rows)
    BY DEF Added, BagToSet
<1>3. IsFiniteSet(1..n)
    BY FS_Interval
<1>4. IsFiniteSet(ToSet(rows))
    <2>1. rows \in Surjection(1..n, ToSet(rows))
        BY <1>1 DEF Surjection
    <2> QED BY <1>3, <2>1, FS_Surjection
<1>5. IsFiniteSet(DOMAIN Added(rows))
    BY <1>2, <1>4, FS_Union DEF RowBag
<1>6. ASSUME NEW t \in ToSet(rows)
      PROVE  ToBag(rows)[t] \in Nat \ {0}
    <2>1. At(t) \in SUBSET (1..n) /\ At(t) # {}
        BY <1>1
    <2> HIDE DEF At
    <2>2. IsFiniteSet(At(t))
        BY <1>3, <2>1, FS_Subset
    <2>3. Cardinality(At(t)) \in Nat /\ Cardinality(At(t)) # 0
        BY <2>1, <2>2, FS_EmptySet, FS_CardinalityType
    <2> QED BY <1>1, <2>3
<1>7. ASSUME NEW t \in DOMAIN Added(rows)
      PROVE  Added(rows)[t] \in Nat \ {0}
    <2>1. CASE t \in ToSet(rows)
        <3>1. Added(rows)[t] = (IF t \in DOMAIN transactions THEN transactions[t] ELSE 0)
                                    + ToBag(rows)[t]
            BY <2>1 DEF Added, BagToSet, BagIn
        <3>2. (IF t \in DOMAIN transactions THEN transactions[t] ELSE 0) \in Nat
            BY DEF RowBag
        <3> QED BY <1>6, <2>1, <3>1, <3>2
    <2>2. CASE t \notin ToSet(rows)
        <3>1. t \in DOMAIN transactions /\ Added(rows)[t] = transactions[t]
            BY <1>2, <1>7, <2>2 DEF Added, BagToSet
        <3> QED BY <3>1 DEF RowBag
    <2> QED BY <2>1, <2>2
<1> QED BY <1>5, <1>7 DEF RowBag

LEMMA BagInduction ==
    TypeInv /\ RowBag(transactions) /\ [Next]_vars => RowBag(transactions)'
<1> SUFFICES ASSUME TypeInv, RowBag(transactions), [Next]_vars
             PROVE  RowBag(transactions')
    BY DEF RowBag
<1> USE DEF TypeInv
<1>1. ASSUME NEW k \in Calls, Fire(k)
      PROVE  RowBag(transactions')
    BY <1>1 DEF Fire, Request, RequestCustomer, Start, data
<1>2. ASSUME NEW k \in Calls, Insert(k)
      PROVE  RowBag(transactions')
    <2>1. PICK r : transactions' = Added(<<r>>)
        BY <1>2 DEF Insert
    <2>2. <<r>> \in [1..1 -> {r}]
        OBVIOUS
    <2>3. RowBag(Added(<<r>>))
        BY <2>2, AddedBag
    <2> QED BY <2>1, <2>3
<1>3. ASSUME NEW k \in Calls, Chunk(k)
      PROVE  RowBag(transactions')
    <2>1. PICK size \in Nat : \E rows \in [1..size -> BulkRows] : \E j :
            /\ job[k].left > 0 => size > 0
            /\ transactions' = Added(rows)
            /\ Fits("mark", j)
            /\ j.touched = {rows[i].customer : i \in 1..size}
            /\ job' = [job EXCEPT ![k] = j]
        BY <1>3, ChunkFits
    <2>2. PICK rows \in [1..size -> BulkRows] : transactions' = Added(rows)
        BY <2>1
    <2> QED BY <2>2, AddedBag
<1>4. ASSUME NEW k \in Calls, Shift(k)
      PROVE  RowBag(transactions')
    BY <1>4, ShiftedBag DEF Shift
<1>5. ASSUME NEW k \in Calls,
             Answer(k) \/ Read(k) \/ WriteProfile(k) \/ Mark(k)
      PROVE  RowBag(transactions')
    BY <1>5 DEF Answer, Read, WriteProfile, Mark, data
<1>6. CASE Day
    BY <1>6, ShiftedBag DEF Day
<1>7. CASE Remount \/ Take \/ UNCHANGED vars
    BY <1>7 DEF Remount, Take, data, vars
<1> QED BY <1>1, <1>2, <1>3, <1>4, <1>5, <1>6, <1>7 DEF Next, CallStep, EndpointStep

LEMMA SomeRows == RowBag(transactions) => \A c : \A S \in SUBSET RowsOf(c) :
    Total(transactions, S) \in Nat /\ (Total(transactions, S) >= 1 <=> S # {})
<1> SUFFICES ASSUME RowBag(transactions), NEW c, NEW S \in SUBSET RowsOf(c)
             PROVE  Total(transactions, S) \in Nat /\ (Total(transactions, S) >= 1 <=> S # {})
    OBVIOUS
<1>1. S \in SUBSET DOMAIN transactions
    BY DEF RowsOf, BagToSet
<1>2. IsFiniteSet(S) /\ \A t \in S : transactions[t] \in Nat \ {0}
    BY <1>1, FS_Subset DEF RowBag
<1> QED BY <1>2, TotalPositive

-----------------------------------------------------------------------------
(* Time.                                                                   *)

\* The customers of the two segments, in terms of their rows.
Active(c) == \E t \in RowsOf(c) : t.age <= Window30
AtRisk(c) == RowsOf(c) # {} /\ \A t \in RowsOf(c) : t.age > Age90

LEMMA MetricsCount ==
    ASSUME NEW c
    PROVE  /\ MetricsOf(c).tx_count_30d =
                    Total(transactions, {t \in RowsOf(c) : t.age <= Window30})
           /\ MetricsOf(c).tx_count_total = Total(transactions, RowsOf(c))
           /\ MetricsOf(c).last_tx_age_days =
                    Min({t.age : t \in RowsOf(c)} \cup {Infinity})
BY DEF MetricsOf, Metrics, Total, MapThenSumSet, MapThenFoldSet

LEMMA LastAge ==
    ASSUME BagToSet(transactions) \subseteq Rows, NEW c
    PROVE  MetricsOf(c).last_tx_age_days > Age90 <=>
                \A t \in RowsOf(c) : t.age > Age90
<1> DEFINE ages == {t.age : t \in RowsOf(c)} \cup {Infinity}
<1>1. ages \in SUBSET Nat /\ ages # {}
    BY InfinityAssumption, WindowAssumption DEF RowsOf, Rows
<1>2. PICK m \in ages : \A n \in ages : m <= n
    <2> HIDE DEF ages
    <2> QED BY <1>1, SmallestNumber
<1>3. Min(ages) \in ages /\ \A n \in ages : Min(ages) <= n
    <2> HIDE DEF ages
    <2> QED BY <1>2 DEF Min
<1>4. MetricsOf(c).last_tx_age_days = Min(ages)
    BY MetricsCount
<1> HIDE DEF ages
<1>5. Min(ages) > Age90 <=> \A n \in ages : n > Age90
    <2> DEFINE low == Min(ages)
    <2>1. low \in ages /\ \A n \in ages : low <= n
        BY <1>3
    <2> HIDE DEF low
    <2>2. ages \subseteq Nat /\ Age90 \in Nat
        BY <1>1, WindowAssumption
    <2>3. low > Age90 <=> \A n \in ages : n > Age90
        BY <2>1, <2>2
    <2> QED BY <2>3 DEF low
<1>6. (\A n \in ages : n > Age90) <=> \A t \in RowsOf(c) : t.age > Age90
    BY InfinityAssumption, WindowAssumption DEF ages
<1> QED BY <1>4, <1>5, <1>6

LEMMA LeafMeets ==
    ASSUME NEW leaf, leaf.kind = "compare", NEW metrics, NEW m, NEW c
    PROVE  Meets(leaf, metrics, m, c) <=>
                ApplyOp(metrics[leaf.metric], leaf.op, leaf.value)
<1>1. Leaves(leaf) = {leaf}
    BY LeafTree DEF Leaves
<1> QED BY <1>1 DEF Meets, Holds

LEMMA PairMeets ==
    ASSUME NEW a, NEW b, a.kind = "compare", b.kind = "compare",
           NEW metrics, NEW m, NEW c
    PROVE  Meets(And(<<a, b>>), metrics, m, c) <=>
                /\ ApplyOp(metrics[a.metric], a.op, a.value)
                /\ ApplyOp(metrics[b.metric], b.op, b.value)
<1>1. And(<<a, b>>).kind = "and"
    BY DEF And
<1>2. Leaves(And(<<a, b>>)) = {a, b}
    BY <1>1, PairTree DEF Leaves
<1> QED BY <1>2 DEF Meets, Holds

(* Active Buyers are those with a row of the last 30 days, the Risk Group  *)
(* those whose rows are all more than 90 days old.                         *)
LEMMA SeedTargets ==
    StoreTyped /\ RowBag(transactions) =>
        /\ Target("Active Buyers") = {c \in Customers : Active(c)}
        /\ Target("Risk Group") = {c \in Customers : AtRisk(c)}
<1> SUFFICES ASSUME StoreTyped, RowBag(transactions), NEW c \in Customers
             PROVE  /\ c \in Target("Active Buyers") <=> Active(c)
                    /\ c \in Target("Risk Group") <=> AtRisk(c)
    BY DEF Target
<1> DEFINE x == MetricsOf(c)
<1>1. x.tx_count_30d >= 1 <=> Active(c)
    BY SomeRows, MetricsCount DEF Active
<1>2. x.tx_count_total >= 1 <=> RowsOf(c) # {}
    BY SomeRows, MetricsCount
<1>3. x.last_tx_age_days > Age90 <=> \A t \in RowsOf(c) : t.age > Age90
    BY LastAge DEF StoreTyped
<1> HIDE DEF x
<1>4. Meets(Rule["Active Buyers"], x, member, c) <=> x.tx_count_30d >= 1
    <2> DEFINE a == Compare("tx_count_30d", ">=", 1)
    <2>1. a.kind = "compare" /\ a.metric = "tx_count_30d" /\ a.op = ">=" /\ a.value = 1
        BY DEF Compare
    <2> HIDE DEF a
    <2>2. Meets(a, x, member, c) <=> ApplyOp(x["tx_count_30d"], ">=", 1)
        BY <2>1, LeafMeets
    <2> QED BY <2>2, SeedRule DEF a, ApplyOp
<1>5. Meets(Rule["Risk Group"], x, member, c) <=>
            x.last_tx_age_days > Age90 /\ x.tx_count_total >= 1
    <2> DEFINE a == Compare("last_tx_age_days", ">", Age90)
               b == Compare("tx_count_total", ">=", 1)
    <2>1. /\ a.kind = "compare" /\ a.metric = "last_tx_age_days" /\ a.op = ">" /\ a.value = Age90
          /\ b.kind = "compare" /\ b.metric = "tx_count_total" /\ b.op = ">=" /\ b.value = 1
        BY DEF Compare
    <2> HIDE DEF a, b
    <2>2. Meets(And(<<a, b>>), x, member, c) <=>
                /\ ApplyOp(x["last_tx_age_days"], ">", Age90)
                /\ ApplyOp(x["tx_count_total"], ">=", 1)
        BY <2>1, PairMeets
    <2>3. ApplyOp(x["last_tx_age_days"], ">", Age90) <=> x.last_tx_age_days > Age90
        BY DEF ApplyOp
    <2>4. ApplyOp(x["tx_count_total"], ">=", 1) <=> x.tx_count_total >= 1
        BY DEF ApplyOp
    <2>5. Rule["Risk Group"] = And(<<a, b>>)
        BY SeedRule DEF a, b
    <2> QED BY <2>2, <2>3, <2>4, <2>5
<1> QED BY <1>1, <1>2, <1>3, <1>4, <1>5 DEF Target, AtRisk, x

\* Time drives customers out of the 30 days, and none out of the risk.
LEMMA DayPasses ==
    ASSUME BagToSet(transactions) \subseteq Rows, Day, NEW c
    PROVE  /\ Active(c)' => Active(c)
           /\ AtRisk(c) => AtRisk(c)'
<1> DEFINE Now(t) == [t EXCEPT !.age = Older(@, 1)]
<1>1. DOMAIN transactions' = {Now(t) : t \in DOMAIN transactions}
    BY DEF Day, Shifted, BagToSet
<1>2. ASSUME NEW t \in Rows
      PROVE  /\ Now(t).customer = t.customer
             /\ t.age \in Nat
             /\ Now(t).age = IF t.age + 1 > Age90 THEN Age90 + 1 ELSE t.age + 1
    BY DEF Rows, Older
<1>3. DOMAIN transactions \subseteq Rows
    BY DEF BagToSet
<1> HIDE DEF Now
<1>4. RowsOf(c)' = {Now(t) : t \in RowsOf(c)}
    BY <1>1, <1>2, <1>3 DEF RowsOf, BagToSet
<1>5. \A t \in RowsOf(c) :
        /\ Now(t).age <= Window30 => t.age <= Window30
        /\ t.age > Age90 => Now(t).age > Age90
    BY <1>2, <1>3, WindowAssumption, Window30Assumption DEF RowsOf, BagToSet
<1>6. ASSUME Active(c)'
      PROVE  Active(c)
    BY <1>4, <1>5, <1>6 DEF Active
<1>7. ASSUME AtRisk(c)
      PROVE  AtRisk(c)'
    BY <1>4, <1>5, <1>7 DEF AtRisk
<1> QED BY <1>6, <1>7

-----------------------------------------------------------------------------
(* Drift one way.                                                          *)

OneWay ==
    /\ Target("Active Buyers") \subseteq member["Active Buyers"]
    /\ member["Risk Group"] \subseteq Target("Risk Group")

\* DriftOneWay, and what it rests on: a customer with rows counts for more
\* than one without.
OneWayInv ==
    /\ DriftInv
    /\ RowBag(transactions)
    /\ Pending \/ OneWay

LEMMA SyncOneWay == InSync => OneWay
BY SeedRule, SyncMeaning DEF OneWay, Seeds

LEMMA InitOneWay == SimulatorInit => OneWayInv
<1> SUFFICES ASSUME SimulatorInit PROVE OneWayInv
    OBVIOUS
<1>1. DriftInv /\ InSync
    BY InitDrift
<1>2. RowBag(transactions)
    <2>1. DOMAIN transactions = {}
        BY DEF SimulatorInit, Init, EmptyBag, SetToBag
    <2> QED BY <2>1, FS_EmptySet DEF RowBag
<1> QED BY <1>1, <1>2, SyncOneWay DEF OneWayInv

LEMMA NextOneWay == OneWayInv /\ [SimulatorNext]_all => OneWayInv'
<1> SUFFICES ASSUME OneWayInv, [SimulatorNext]_all
             PROVE  OneWayInv'
    OBVIOUS
<1> USE DEF OneWayInv
<1>1. /\ DriftInv' /\ RowBag(transactions)'
      /\ TypeInv /\ TypeInv' /\ TouchedInv /\ member' \in Members
    BY NextDrift, SimulatorSteps, BagInduction DEF DriftInv, Members
<1>2. ASSUME UNCHANGED <<transactions, member>>, OneWay
      PROVE  OneWay'
    <2>1. \A s \in Segments : Target(s)' = Target(s)
        BY <1>2, TargetSame
    <2> QED BY <1>2, <2>1, SeedRule DEF OneWay, Seeds
<1>3. InSync' => OneWay'
    BY SyncOneWay, PTL
<1>4. CASE CallStep /\ UNCHANGED <<member, aged>>
    <2>1. Customers = {} \/ Noticed
        BY <1>1, <1>4, CallsNoticed
    <2>2. CASE Customers = {}
        BY <1>1, <1>3, <2>2 DEF Members, InSync, RightIn, TargetIn
    <2>3. CASE Noticed
        BY <1>1, <1>2, <1>4, <2>3 DEF Noticed
    <2> QED BY <2>1, <2>2, <2>3
<1>5. CASE Flush
    BY <1>1, <1>3, <1>5, FlushInSync DEF DriftInv
<1>6. CASE Tick
    <2>1. (Pending => Pending') /\ UNCHANGED member
        BY <1>6 DEF Tick, Day, Pending
    <2>2. /\ Target("Active Buyers") = {c \in Customers : Active(c)}
          /\ Target("Risk Group") = {c \in Customers : AtRisk(c)}
        BY <1>1, SeedTargets DEF TypeInv
    <2>3. (StoreTyped /\ RowBag(transactions) =>
            /\ Target("Active Buyers") = {c \in Customers : Active(c)}
            /\ Target("Risk Group") = {c \in Customers : AtRisk(c)})'
        BY SeedTargets, PTL
    <2>4. StoreTyped'
        BY <1>1 DEF TypeInv
    <2>5. /\ Target("Active Buyers")' = {c \in Customers : Active(c)'}
          /\ Target("Risk Group")' = {c \in Customers : AtRisk(c)'}
        BY <1>1, <2>3, <2>4
    <2>6. \A c : (Active(c)' => Active(c)) /\ (AtRisk(c) => AtRisk(c)')
        BY <1>1, <1>6, DayPasses DEF TypeInv, StoreTyped, Tick
    <2>7. OneWay => OneWay'
        BY <2>1, <2>2, <2>5, <2>6 DEF OneWay
    <2> QED BY <1>1, <2>1, <2>7
<1>7. CASE UNCHANGED all
    <2>1. (Pending => Pending') /\ UNCHANGED <<transactions, member>>
        BY <1>7 DEF all, vars, Pending
    <2> QED BY <1>1, <1>2, <2>1
<1> QED BY <1>4, <1>5, <1>6, <1>7 DEF SimulatorNext

(* computeAll and its windows: time, which marks nobody, moves customers   *)
(* out of the windows and never into them, so that until the next rebuild  *)
(* Active Buyers has at worst too many and Risk Group too few.             *)
THEOREM DriftIsOneWay == SimulatorSpec => []DriftOneWay
<1>1. OneWayInv => DriftOneWay
    BY DEF OneWayInv, OneWay, DriftOneWay
<1> QED BY <1>1, InitOneWay, NextOneWay, PTL DEF SimulatorSpec
=============================================================================
