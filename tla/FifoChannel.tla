---------------------------- MODULE FifoChannel ----------------------------
(***************************************************************************)
(* What SendMessage and PopMessage promise the threads that use them: an   *)
(* unbounded channel that neither loses, duplicates nor reorders messages. *)
(***************************************************************************)
EXTENDS Sequences

CONSTANT Message

VARIABLE chan

Init == chan = <<>>

Send == \E m \in Message : chan' = Append(chan, m)

Receive == chan # <<>> /\ chan' = Tail(chan)

Spec == Init /\ [][Send \/ Receive]_chan

=============================================================================
