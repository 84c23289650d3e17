-------------------------- MODULE MCSegmentSync ---------------------------
(* Instances of SegmentSync for TLC.  A customer's metrics are below or    *)
(* above the one threshold the rules compare with.                         *)
EXTENDS SegmentSyncProofs, TLC

CONSTANTS
    active,    \* "Active Buyers": one compare node
    both,      \* "Active VIPs": in_segment of active
    low, high  \* classes of metrics

MCMetrics == {low, high}

\* One parent, one child.
PairSegments == {active, both}
PairParents == (active :> {}) @@ (both :> {active})
PairSatisfying == (active :> {high}) @@ (both :> {low, high})
=============================================================================
