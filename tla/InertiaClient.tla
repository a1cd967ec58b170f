--------------------------- MODULE InertiaClient ---------------------------
(***************************************************************************)
(* The SDK client (client.ts) between a program that calls it and the      *)
(* chain.  An execute_swap call reads the escrow, then the slot, then the  *)
(* escrow again, and sends; each read may fail, the transaction may land   *)
(* late, be refused or expire, and the caller may stop waiting for one     *)
(* that lands all the same.  The chain is what a client can tell of it:    *)
(* whether an escrow is there, its buffer and age, and how it ended.  Its  *)
(* own module, InertiaEscrow, has the rest.                                *)
(*                                                                         *)
(* Escrow addresses are fresh: nonces are random or taken from the clock.  *)
(* All reads go to one RPC node, whose slot never goes back.               *)
(***************************************************************************)
EXTENDS SdkMirror, SwapRoutes, FiniteSets

CONSTANTS
  Clients,            \* processes that call the SDK
  Escrows,            \* the addresses escrows are created at
  Orders,             \* what each escrow may be created with
  TopUps,             \* amounts of a top-up
  SELF_RESCUE_SLOTS, CLEANUP_SLOTS,
  MaxSlot,            \* bound on the slot clock
  MaxBuffer,          \* bound on what top-ups add up to
  SlotLag,            \* how far the RPC node may be behind the leader
  MaxUnawaited        \* bound on transactions in flight nobody waits for

ASSUME ClientAssumption ==
  /\ Escrows # {}
  /\ Clients \cap {"nobody", "rival", "user"} = {}
  /\ Orders \in [Escrows -> SUBSET [route : Routes, inputMint : Mints, buffer : Nat]]
  /\ TopUps \subseteq Nat \ {0}
  /\ {SELF_RESCUE_SLOTS, CLEANUP_SLOTS, MaxSlot, MaxBuffer, SlotLag, MaxUnawaited} \subseteq Nat

(* No product of a payable buffer and the decay saturates. *)
ASSUME ClientSupplyAssumption ==
  /\ \A e \in Escrows : \A o \in Orders[e] : o.buffer <= MaxBuffer
  /\ MaxBuffer * TIP_DECAY_SLOTS <= MAX_U64

VARIABLES
  slot,      \* the leader's slot
  rpcSlot,   \* the slot the RPC node has confirmed
  order,     \* what each escrow is, or is going to be, created with
  account,   \* the escrow accounts: status, recorded buffer, creation slot
  fate,      \* history: how each escrow ended, by whom, at what gain of a client
  calm,      \* from here on the node and the network no longer fail
  network,   \* execute_swap transactions sent and neither landed nor dropped
  call       \* each client's current executeSwap call

chainVars == <<slot, rpcSlot, order, account, fate, calm>>

clientVars == <<chainVars, network, call>>

-----------------------------------------------------------------------------
Account == [status : {"fresh", "pending", "closed"}, buffer : Nat, creation : Nat]

Fate == [how : {"none", "ordinary", "rescue", "self_rescue", "cleanup"},
         by : Clients \cup {"nobody", "rival", "user"},
         earned : Int]

NoFate == [how |-> "none", by |-> "nobody", earned |-> 0]

Tx == [by : Clients, escrow : Escrows, tip : Nat, basis : Nat, awaited : BOOLEAN]

Step == {"idle", "readEscrow", "readSlot", "readAgain", "send", "confirm", "landed",
         "executed", "threw"}

Call == [step : Step, escrow : Escrows, tip : Nat, basis : Nat]

AnyEscrow == CHOOSE e \in Escrows : TRUE

NoCall == [step |-> "idle", escrow |-> AnyEscrow, tip |-> 0, basis |-> 0]

Pending(e) == account[e].status = "pending"

Elapsed(e) == saturating_sub(slot, account[e].creation)

ClientInit ==
  /\ slot = 0 /\ rpcSlot = 0
  /\ order \in {o \in [Escrows -> UNION {Orders[e] : e \in Escrows}] :
                 \A e \in Escrows : o[e] \in Orders[e]}
  /\ account = [e \in Escrows |-> [status |-> "fresh", buffer |-> 0, creation |-> 0]]
  /\ fate = [e \in Escrows |-> NoFate]
  /\ calm = FALSE
  /\ network = {}
  /\ call = [c \in Clients |-> NoCall]

-----------------------------------------------------------------------------
(* The chain.  Closing an escrow ends it for good. *)
Close(e, how, by, earned) ==
  /\ account' = [account EXCEPT ![e] = [status |-> "closed", buffer |-> 0, creation |-> 0]]
  /\ fate' = [fate EXCEPT ![e] = [how |-> how, by |-> by, earned |-> earned]]

Opened(e) ==
  account' = [account EXCEPT ![e] = [status |-> "pending", buffer |-> order[e].buffer,
                                     creation |-> slot]]

NextSlot ==
  /\ slot < MaxSlot
  /\ slot - rpcSlot < SlotLag
  /\ slot' = slot + 1
  /\ UNCHANGED <<rpcSlot, order, account, fate, calm, network, call>>

NodeCatchesUp ==
  /\ rpcSlot < slot
  /\ rpcSlot' = rpcSlot + 1
  /\ UNCHANGED <<slot, order, account, fate, calm, network, call>>

(* Failures end some time: liveness is about what happens after that. *)
CalmDown ==
  /\ ~calm
  /\ calm' = TRUE
  /\ UNCHANGED <<slot, rpcSlot, order, account, fate, network, call>>

initializeEscrow(e) ==
  /\ account[e].status = "fresh"
  /\ Opened(e)
  /\ UNCHANGED <<slot, rpcSlot, order, fate, calm, network, call>>

topUpBuffer(e) ==
  /\ Pending(e)
  /\ \E amount \in TopUps :
       /\ account[e].buffer + amount <= MaxBuffer
       /\ account' = [account EXCEPT ![e].buffer = @ + amount]
  /\ UNCHANGED <<slot, rpcSlot, order, fate, calm, network, call>>

selfRescue(e) ==
  /\ Pending(e) /\ Elapsed(e) > SELF_RESCUE_SLOTS
  /\ Close(e, "self_rescue", "user", 0)
  /\ UNCHANGED <<slot, rpcSlot, order, calm, network, call>>

cleanupExpiredEscrow(e) ==
  /\ Pending(e) /\ Elapsed(e) > CLEANUP_SLOTS
  /\ Close(e, "cleanup", "rival", 0)
  /\ UNCHANGED <<slot, rpcSlot, order, calm, network, call>>

(* Somebody else's execute_swap, with the tip it needs and an account list  *)
(* of its own, whatever the builders here make of the route.                *)
RivalSwap(e) ==
  /\ Pending(e)
  /\ Close(e, IF IsRescue(Elapsed(e)) THEN "rescue" ELSE "ordinary", "rival", 0)
  /\ UNCHANGED <<slot, rpcSlot, order, calm, network, call>>

-----------------------------------------------------------------------------
(* executeSwap.  With autoAttachTip the escrow and the slot are read for    *)
(* the tip and the escrow is read a second time for the accounts; without   *)
(* it the caller brings the tip and only the second read remains.           *)
StepTo(c, step) == call' = [call EXCEPT ![c].step = step]

Idle(c) == call[c].step = "idle"

Begin(c, e) ==
  /\ Idle(c)
  /\ call' = [call EXCEPT ![c] = [step |-> "readEscrow", escrow |-> e, tip |-> 0, basis |-> 0]]

BeginWithTip(c, e, tip) ==
  /\ Idle(c)
  /\ call' = [call EXCEPT ![c] = [step |-> "readAgain", escrow |-> e, tip |-> tip,
                                  basis |-> account[e].buffer]]

ReadEscrow(c) ==
  /\ call[c].step = "readEscrow"
  /\ Pending(call[c].escrow)
  /\ call' = [call EXCEPT ![c].step = "readSlot", ![c].basis = account[call[c].escrow].buffer]
  /\ UNCHANGED <<chainVars, network>>

LeaderSlot(c) ==                                     \* mistake: a slot not seen yet
  /\ call[c].step = "readSlot"
  /\ call' = [call EXCEPT ![c].step = "readAgain",
                ![c].tip = computeRescueTip(call[c].basis,
                             slot + 1 - account[call[c].escrow].creation).requiredTipLamports]
  /\ UNCHANGED <<chainVars, network>>

ReadSlot(c) ==
  /\ call[c].step = "readSlot"
  /\ call' = [call EXCEPT ![c].step = "readAgain",
                ![c].tip = computeRescueTip(call[c].basis,
                             rpcSlot - account[call[c].escrow].creation).requiredTipLamports]
  /\ UNCHANGED <<chainVars, network>>

ReadAgain(c) ==
  /\ call[c].step = "readAgain"
  /\ Pending(call[c].escrow)
  /\ StepTo(c, "send")
  /\ UNCHANGED <<chainVars, network>>

(* getEscrow answers null for a closed escrow and for any failed read, and  *)
(* getSlot throws; either way the call throws before anything is sent.      *)
ReadThrows(c) ==
  /\ call[c].step \in {"readEscrow", "readSlot", "readAgain"}
  /\ calm => call[c].step # "readSlot" /\ ~Pending(call[c].escrow)
  /\ StepTo(c, "threw")
  /\ UNCHANGED <<chainVars, network>>

TxOf(c, awaited) ==
  [by |-> c, escrow |-> call[c].escrow, tip |-> call[c].tip, basis |-> call[c].basis,
   awaited |-> awaited]

(* A transaction that names a signer nobody can sign for is never sent. *)
Send(c) ==
  /\ call[c].step = "send"
  /\ LET o == order[call[c].escrow]
     IN IF Signable(remainingAccounts(o.route, o.inputMint))
        THEN StepTo(c, "confirm") /\ network' = network \cup {TxOf(c, TRUE)}
        ELSE StepTo(c, "threw") /\ UNCHANGED network
  /\ UNCHANGED chainVars

TipEnough(tx) ==
  tx.tip >= RequiredTip(account[tx.escrow].buffer, Elapsed(tx.escrow))

(* What a client can tell of the checks of execute_swap: the escrow, the      *)
(* relay, the tip.                                                            *)
Lands(tx) ==
  /\ Pending(tx.escrow)
  /\ SwapAccepted(order[tx.escrow].route, order[tx.escrow].inputMint)
  /\ TipEnough(tx)

Leaves(tx, step) ==
  /\ network' = network \ {tx}
  /\ IF tx.awaited THEN StepTo(tx.by, step) ELSE UNCHANGED call

Land(tx) ==
  /\ Lands(tx)
  /\ Leaves(tx, "landed")
  /\ IF IsRescue(Elapsed(tx.escrow))
     THEN Close(tx.escrow, "rescue", tx.by, KeeperShare(account[tx.escrow].buffer) - tx.tip)
     ELSE Close(tx.escrow, "ordinary", tx.by, 0 - tx.tip)
  /\ UNCHANGED <<slot, rpcSlot, order, calm>>

(* In the preflight simulation or on chain, and as well for what is not seen  *)
(* here: an output below the minimum, a delegation, tokens or an account that *)
(* are gone, a caller short of lamports, a wallet below its rent.  A failed   *)
(* transaction has no effect.                                                 *)
Refuse(tx) ==
  /\ Leaves(tx, "threw")
  /\ UNCHANGED chainVars

(* The blockhash runs out before anybody included it. *)
Expire(tx) ==
  /\ ~calm
  /\ Leaves(tx, "threw")
  /\ UNCHANGED chainVars

Returned(c) == call' = [call EXCEPT ![c] = NoCall]

Confirm(c) ==
  /\ call[c].step = "landed"
  /\ StepTo(c, "executed")
  /\ UNCHANGED <<chainVars, network>>

(* Confirmation times out, or the node fails, while the transaction is still *)
(* out or has already landed.                                                *)
GiveUp(c) ==
  /\ ~calm
  /\ call[c].step \in {"confirm", "landed"}
  /\ Cardinality({tx \in network : ~tx.awaited}) < MaxUnawaited
  /\ StepTo(c, "threw")
  /\ network' = {tx \in network : ~(tx.by = c /\ tx.awaited)}
                  \cup (IF call[c].step = "confirm" THEN {TxOf(c, FALSE)} ELSE {})
  /\ UNCHANGED chainVars

ClientStep(c) ==
  ReadEscrow(c) \/ ReadSlot(c) \/ ReadAgain(c) \/ ReadThrows(c)
    \/ Send(c) \/ Confirm(c) \/ GiveUp(c)

NetworkStep == \E tx \in network : Land(tx) \/ Refuse(tx) \/ Expire(tx)

(* Everybody else on the chain. *)
ChainStep ==
  \/ NextSlot
  \/ NodeCatchesUp
  \/ CalmDown
  \/ \E e \in Escrows : topUpBuffer(e) \/ selfRescue(e) \/ cleanupExpiredEscrow(e) \/ RivalSwap(e)

=============================================================================
