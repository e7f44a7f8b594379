----------------------------- MODULE MCGameSession -----------------------------
(* GameSession with few ids and sessions: TLC's values and the symmetry of    *)
(* the ids and of the sessions.                                               *)
EXTENDS GameSession, TLC

AmountsSent == {0, 2}
\* last is history that no guard reads, and a crashed server does nothing more:
\* states that differ in these alone have the same successors, a crash leaves
\* the rest of the state as it was, and the properties of last are about steps.
ServerState ==
  IF crashed THEN <<"crashed">> ELSE <<table, timers, toPlayer, toSession, link>>

ServerSymmetry == Permutations(Players) \cup Permutations(Sessions)

=============================================================================
