---------------------------- MODULE MCTableManager ----------------------------
(* TableManager on a small table: TLC's values and the symmetry of the ids. *)
EXTENDS TableManager, TLC

AmountsSent == -1..3
PlayerSymmetry == Permutations(Players)

=============================================================================
