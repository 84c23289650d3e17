-------------------------- MODULE MCSegmentCascade --------------------------
(* Bounded instance of SegmentCascade: a parent and two children, so that  *)
(* the loop over the dependents can fail after, or before, one of them.    *)
EXTENDS SegmentCascade

CONSTANTS a, b, c

\* What users write: b and c may refer to a, and a to c, which closes a cycle.
FanAndBack == {<<a, b>>, <<a, c>>, <<c, a>>}
=============================================================================
