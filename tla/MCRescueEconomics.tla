-------------------------- MODULE MCRescueEconomics --------------------------
(* Twentieths and a small floor, where every buffer up to MaxBuffer is tried *)
(* through the whole decay; the theorems of RescueEconomicsProofs are for    *)
(* every rate, the deployed ones included.                                   *)
EXTENDS RescueEconomics

MCBuffers == 0 .. 24

MCTopUps == {1, 3, 7}

=============================================================================
