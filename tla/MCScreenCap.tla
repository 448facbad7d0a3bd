---------------------------- MODULE MCScreenCap ----------------------------
(***************************************************************************)
(* Small instances of ScreenCap for TLC.                                   *)
(***************************************************************************)
EXTENDS ScreenCap

CONSTANTS b1, b2, b3, b4

TwoBufs == {b1, b2}
ThreeBufs == {b1, b2, b3}
FourBufs == {b1, b2, b3, b4}
OneSize == {1}
TwoSizes == {1, 2}
NoFaults == {}
AllFaults == {"wl_buffer", "params", "thread"}

=============================================================================
