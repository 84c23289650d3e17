---------------------------- MODULE MCSimulator -----------------------------
(* Bounded instance of Simulator: windows of one, two and three days. *)
EXTENDS Simulator

CONSTANTS c1, c2, k1, k2

\* A nested rule, a chain of three, and four that are to be rejected or
\* never hold.
Own ==
    "Nested" :> And(<<And(<<InSegment("VIP")>>),
                      Compare("tx_count_total", "<=", 2)>>) @@
    "Chain" :> And(<<Compare("tx_count_30d", "!=", 1), InSegment("Active VIPs")>>) @@
    "Empty" :> And(<<>>) @@
    "Deep" :> And(<<And(<<And(<<Compare("tx_count_30d", "<", 1)>>)>>)>>) @@
    "NaN" :> And(<<Compare("tx_count_30d", "==", NoNumber)>>)

\* A payment and a refund.
Payments == {-1, 2}

Symmetry == Permutations({c1, c2}) \cup Permutations({k1, k2})
=============================================================================
