--------------------------- MODULE CaptureChannel ---------------------------
(***************************************************************************)
(* What screen capture promises: buffers handed to the compositor come out *)
(* of the element in the order in which they went in, until it is stopped. *)
(* While the element grows its pool, two threads read the compositor's     *)
(* events (the channel is crowded): a buffer may then fall behind later    *)
(* ones.                                                                   *)
(***************************************************************************)
EXTENDS Integers, Sequences

CONSTANT Buffer

VARIABLES chan, crowded

Init == chan = <<>>

Capture == \E b \in Buffer : chan' = Append(chan, b)

Deliver == chan # <<>> /\ chan' = Tail(chan)

(* s with its i-th element moved behind its j-th.                          *)
FallBehind(s, i, j) ==
    [n \in DOMAIN s |-> IF n < i \/ n > j THEN s[n]
                       ELSE IF n = j THEN s[i] ELSE s[n + 1]]

Overtake ==
    /\ crowded
    /\ \E i, j \in DOMAIN chan : i < j /\ chan' = FallBehind(chan, i, j)

Stop == chan' = <<>>

Spec == Init /\ [][Capture \/ Deliver \/ Overtake \/ Stop]_chan

=============================================================================
