--------------------------- MODULE EncodePipeline ---------------------------
(***************************************************************************)
(* What file encoding promises: frames go in one after the other and the   *)
(* output file grows by frames already fed, each one later than the last   *)
(* (rate control may skip some; item 0 is the codec configuration).        *)
(***************************************************************************)
EXTENDS Naturals, SequencesExt

VARIABLES fed, out

Init == fed = 0 /\ out = <<>>

Feed == fed' = fed + 1 /\ UNCHANGED out

Write == /\ \E f \in 0 .. fed : (out # <<>> => Last(out) < f) /\ out' = Append(out, f)
         /\ UNCHANGED fed

Spec == Init /\ [][Feed \/ Write]_<<fed, out>>

=============================================================================
