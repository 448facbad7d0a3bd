---------------------------- MODULE MCBlendPads ----------------------------
(***************************************************************************)
(* Small instances of BlendPads for TLC.  interlaced is of another shape   *)
(* than the other caps, and yuv has no conversion.                         *)
(***************************************************************************)
EXTENDS BlendPads, TLC

CONSTANTS p1, p2, small, large, interlaced, yuv

TwoPads == {p1, p2}
AllCaps == {small, large, interlaced, yuv}
SmallOnly == {small}
Converted == Caps \ {yuv}
Shapes == [c \in Caps |-> IF c = interlaced THEN 2 ELSE 1]
Origin == {0}
OffOrigin == {0, 1}

(* Pads are alike until requested; so are small and large.                 *)
Alike == Permutations(TwoPads) \cup Permutations({small, large})

=============================================================================
