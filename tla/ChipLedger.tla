------------------------------ MODULE ChipLedger ------------------------------
(***************************************************************************)
(* What the table promises about chips, with no cards, turns or rounds: a  *)
(* seat's chips change only because its player buys in or leaves, bets     *)
(* them into the pot, or receives a pot.  A pot is settled whole and once; *)
(* it is burned when no stack receives it.                                 *)
(***************************************************************************)
EXTENDS Integers

VARIABLES held, pot, burned

Seats == {0, 1}

Init == held = [s \in Seats |-> 0] /\ pot = 0 /\ burned = 0

\* Buying in, topping up
Buy(s) ==
  /\ held' \in [Seats -> Nat]
  /\ held'[s] >= held[s]
  /\ held'[1 - s] = held[1 - s]
  /\ UNCHANGED <<pot, burned>>

Leave(s) ==
  /\ held' = [held EXCEPT ![s] = 0]
  /\ UNCHANGED <<pot, burned>>

Bet(s) ==
  \E n \in 0..held[s] :
    /\ held' = [held EXCEPT ![s] = @ - n]
    /\ pot' = pot + n
    /\ UNCHANGED burned

\* The pot goes to seat w; both seats may be topped up in the same step.
Settle(w) ==
  /\ \A s \in Seats : held'[s] >= held[s] + IF s = w THEN pot ELSE 0
  /\ held' \in [Seats -> Nat]
  /\ pot' = 0
  /\ UNCHANGED burned

Burn ==
  /\ \A s \in Seats : held'[s] >= held[s]
  /\ held' \in [Seats -> Nat]
  /\ burned' = burned + pot
  /\ pot' = 0

Next ==
  \/ \E s \in Seats : Buy(s) \/ Leave(s) \/ Bet(s) \/ Settle(s)
  \/ Burn

Spec == Init /\ [][Next]_<<held, pot, burned>>

=============================================================================
