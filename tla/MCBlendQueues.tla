--------------------------- MODULE MCBlendQueues ---------------------------
(***************************************************************************)
(* A small instance of BlendQueues for TLC: timestamps before, in and      *)
(* after a segment that starts at 1.                                       *)
(***************************************************************************)
EXTENDS BlendQueues

SomeTimes == {0, 2, 3}
SomeDurations == {2}
SomeRates == {0, 1, 2}
ThreeAndTwo == [p \in Pads |-> IF p = Background THEN 3 ELSE 2]

=============================================================================
