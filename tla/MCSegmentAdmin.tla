--------------------------- MODULE MCSegmentAdmin ---------------------------
(* Bounded instances of SegmentAdmin: three segments. *)
EXTENDS SegmentAdmin, TLC

CONSTANTS a, b, c

\* What users write: c may refer to a and b, and b to a.
Layered == {<<a, b>>, <<a, c>>, <<b, c>>}
=============================================================================
