--------------------------- MODULE MCDemoDrivers ---------------------------
(* Two runs of each script, on pools whose A side, or either side, is sold. *)
EXTENDS DemoDrivers

Order(route, mint) == [route |-> route, inputMint |-> mint, buffer |-> 20]

MCOrders ==
  [e \in Escrows |->
     {Order("orca", "A"), Order("orca", "B"), Order("raydium", "A"), Order("meteora", "A"),
      Order("mockDex", "A")}]

=============================================================================
