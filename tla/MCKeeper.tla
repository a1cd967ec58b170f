------------------------------ MODULE MCKeeper ------------------------------
(* One bot, one escrow on a configured pool and one whose every swap fails. *)
EXTENDS Keeper

CONSTANTS e1, e2

Order(route, mint, buffer) == [route |-> route, inputMint |-> mint, buffer |-> buffer]

MCKeeperOrders ==
  [e \in Escrows |->
     IF e = e1
     THEN {Order("raydium", "B", 20)}
     ELSE {Order("mockDex", "A", MaxBuffer)}]

=============================================================================
