-------------------------------- MODULE MCDesk --------------------------------
(* The list pages with two rows each. *)
EXTENDS Desk, TLC

Symmetry == Permutations(Rows)
=============================================================================
