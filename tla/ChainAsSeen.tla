---------------------------- MODULE ChainAsSeen ----------------------------
(***************************************************************************)
(* The program as its clients see it.  InertiaClient, and with it the bot  *)
(* and the demo scripts, runs over a chain of its own that has neither     *)
(* wallets nor tokens: whether an escrow is there, its buffer and age, how *)
(* it ended.  Here that chain is an abstraction of InertiaEscrow: without  *)
(* clients of its own, its steps are the program's steps, seen through the *)
(* map below.                                                              *)
(*                                                                         *)
(* The chain knows from the start what will be opened at each address; the *)
(* program does not.  A plan says it in advance.                           *)
(***************************************************************************)
EXTENDS InertiaEscrow

SeenAccount(e) ==
  [status |-> IF Pending(e) THEN "pending"
              ELSE IF receipt[e].outcome = "none" THEN "fresh" ELSE "closed",
   buffer |-> IF Pending(e) THEN Buffer(e) ELSE 0,
   creation |-> IF Pending(e) THEN escrow[e].creation_slot ELSE 0]

(* Whom the chain takes an ending to come from when no client sent it. *)
Closer == [none |-> "nobody", ordinary |-> "rival", rescue |-> "rival",
           self_rescue |-> "user", cleanup |-> "rival"]

SeenFate(e) == [how |-> receipt[e].outcome, by |-> Closer[receipt[e].outcome], earned |-> 0]

Seen(plan) == INSTANCE InertiaClient WITH
  Clients <- {}, Escrows <- PDA, Orders <- [e \in PDA |-> {plan[e]}],
  SlotLag <- MaxSlot, MaxUnawaited <- 0,
  EstimatedTxFeeLamports <- 0, MinProfitLamports <- 0,
  rpcSlot <- 0, calm <- FALSE, network <- {}, call <- [c \in {} |-> {}],
  order <- plan,
  account <- [e \in PDA |-> SeenAccount(e)],
  fate <- [e \in PDA |-> SeenFate(e)]

(* What may be opened where: a route, a mint and a buffer. *)
Plans ==
  [PDA -> [route : {"orca", "raydium", "meteora", "mockDex"},
           inputMint : {"A", "B"}, buffer : Buffers]]

(* Every address is opened once, with the buffer planned: the SDK's callers *)
(* take a new nonce for each escrow.                                        *)
OpensAsPlanned(plan) ==
  \A e \in PDA : ~Pending(e) /\ Pending(e)' =>
    /\ receipt[e].outcome = "none"
    /\ Buffer(e)' = plan[e].buffer

SeenStep(plan) == Seen(plan)!ChainStep \/ \E e \in PDA : Seen(plan)!initializeEscrow(e)

(* The chain that the client, the bot and the scripts run over leaves no    *)
(* step of the program out: whatever an instruction, a plain transfer or a  *)
(* token account's owner does to an escrow is a step of that chain, in the  *)
(* same windows, or nothing a client could see.  (client.ts 79-94 and       *)
(* 281-314 against execute_swap.rs, self_rescue.rs, top_up_buffer.rs and    *)
(* cleanup_expired_escrow.rs)                                               *)
ClientsSeeEveryStep ==
  [][\A plan \in Plans :
       OpensAsPlanned(plan) => (UNCHANGED Seen(plan)!clientVars \/ SeenStep(plan))]_vars

=============================================================================
