-------------------------- MODULE MCBlendBuffers ---------------------------
(***************************************************************************)
(* A small instance of BlendBuffers for TLC: an address for each mapping   *)
(* a turn can have, and one more.                                          *)
(***************************************************************************)
EXTENDS BlendBuffers, TLC

CONSTANTS small, large, a1, a2, a3, a4

TwoCaps == {small, large}
FourAddresses == {a1, a2, a3, a4}

Alike == Permutations(TwoCaps) \cup Permutations(FourAddresses)

=============================================================================
