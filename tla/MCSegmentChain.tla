--------------------------- MODULE MCSegmentChain ---------------------------
(* A chain of three rules for SegmentSync: active, mid, both.              *)
EXTENDS MCSegmentSync

CONSTANT mid

ChainSegments == {active, mid, both}
ChainParents == (active :> {}) @@ (mid :> {active}) @@ (both :> {mid})
ChainSatisfying ==
    (active :> {high}) @@ (mid :> {low, high}) @@ (both :> {low, high})
=============================================================================
