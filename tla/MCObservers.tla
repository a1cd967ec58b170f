---------------------------- MODULE MCObservers ----------------------------
(* Observers over two escrows, which are alike. *)
EXTENDS Observers, TLC

Symmetry == Permutations(Escrows)

=============================================================================
