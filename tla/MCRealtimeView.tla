--------------------------- MODULE MCRealtimeView ---------------------------
(* Bounded instance of RealtimeView: two segments. *)
EXTENDS RealtimeView, TLC

CONSTANTS s1, s2

\* Two pages each, the second of which a commit may empty.
TwoPages == {[s \in {s1, s2} |-> 2]}

Symmetry == Permutations({s1, s2})
=============================================================================
