---------------------------- MODULE MCVencEncode ----------------------------
(***************************************************************************)
(* Small instances of VencEncode for TLC.                                  *)
(***************************************************************************)
EXTENDS VencEncode, TLC

CONSTANTS i1, i2, o1, o2, o3, t1, t2

TwoIns == {i1, i2}
ThreeOuts == {o1, o2, o3}
TwoOuts == {o1, o2}
OneThread == {t1}
TwoThreads == {t1, t2}
AllCalls == Calls
NoCalls == {}

(* The output headers, and the component's threads, are interchangeable.   *)
Symmetry == Permutations(OutBufs) \cup Permutations(CbThreads)

=============================================================================
