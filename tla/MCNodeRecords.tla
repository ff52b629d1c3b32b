--------------------------- MODULE MCNodeRecords ----------------------------
(* A small instance of NodeRecords for TLC.                                   *)
EXTENDS NodeRecords

CONSTANTS i1, i2, i3, n1, n2

\* Nothing is known of i1 and i2; the role of i3 is not allowed.
Names == i1 :> n1 @@ i2 :> n1 @@ i3 :> n2

Deltas == [node |-> 2, metrics |-> 1]

Symmetry == Permutations(Reader)
=============================================================================
