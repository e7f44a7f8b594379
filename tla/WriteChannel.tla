----------------------------- MODULE WriteChannel -----------------------------
(* What WebSocketSession::send promises: the messages reach the client in the *)
(* order they were sent, each at most once, until the connection breaks.      *)
EXTENDS Sequences, Integers

VARIABLES sent, wire, broken

Init == sent = 0 /\ wire = <<>> /\ broken = FALSE

Send == sent' = sent + 1 /\ UNCHANGED <<wire, broken>>

Deliver ==
  /\ ~broken
  /\ Len(wire) < sent
  /\ wire' = Append(wire, Len(wire) + 1)
  /\ UNCHANGED <<sent, broken>>

Break == broken' = TRUE /\ UNCHANGED <<sent, wire>>

Next == Send \/ Deliver \/ Break

Spec == Init /\ [][Next]_<<sent, wire, broken>>

=============================================================================
