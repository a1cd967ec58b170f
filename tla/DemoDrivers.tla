---------------------------- MODULE DemoDrivers ----------------------------
(***************************************************************************)
(* The scripts that drive the deployed program on devnet: four demos that  *)
(* set up tokens and a pool, open an escrow and swap through it, and the   *)
(* activity generator that opens escrows and leaves them.  A script is a   *)
(* sequence of steps; each step is a transaction that may land and still   *)
(* be reported as failed, and a demo ends at the first failure, with what  *)
(* it set up left behind.  Anybody may start a demo again.                 *)
(***************************************************************************)
EXTENDS InertiaClient

CONSTANTS
  Programs,        \* which scripts are run
  HEDGE_TIP,       \* 40_000_000: the tip the demos attach whatever the slot
  WsolAta,         \* the payer's associated WSOL account
  NoDelegate

ASSUME DemoAssumption ==
  /\ Programs \subseteq {"mockDemo", "orcaDemo", "raydiumDemo", "meteoraDemo", "orcaLive"}
  /\ HEDGE_TIP \in Nat
  /\ \E c \in Clients : Clients = {c}
  /\ WsolAta \notin Escrows /\ NoDelegate \notin Escrows

(* "above the worst case (keeper's full 90% share)", devnet-orca-demo.mjs 120 *)
ASSUME HedgeAssumption ==
  /\ MIN_JITO_TIP_LAMPORTS <= HEDGE_TIP
  /\ \A e \in Escrows : \A o \in Orders[e] : KeeperShare(o.buffer) <= HEDGE_TIP

VARIABLES
  script,    \* the program that runs, its next step, its escrow, how it stands,
             \* and the addresses later runs will derive
  balance,   \* the input tokens in each account, in units of one swap
  delegate,  \* which escrow may spend them
  pool       \* whether the pool is there

demoVars == <<script, balance, delegate, pool>>

vars == <<clientVars, demoVars>>

-----------------------------------------------------------------------------
(* The steps of the scripts.  A setup step may bring input tokens, take     *)
(* them into the pool as liquidity, and open the pool.                      *)
Setup(brings, takes, opens) ==
  [do |-> "setup", brings |-> brings, takes |-> takes, opens |-> opens]

Fund(n) == Setup(n, 0, FALSE)

Route == [do |-> "route"]

InitializeEscrow == [do |-> "initialize"]

HedgedExecuteSwap == [do |-> "execute"]

ReadBalance == [do |-> "read"]

SwapIt == <<InitializeEscrow, HedgedExecuteSwap, ReadBalance>>

MockDemo == <<Fund(10), Fund(0)>> \o SwapIt

OrcaDemo == <<Fund(1), Route>> \o SwapIt

NothingLeft ==                                       \* mistake: the supply is in the pool
  <<Fund(100), Setup(0, 100, TRUE), Route>> \o SwapIt

RaydiumDemo == <<Fund(100), Setup(0, 100, TRUE), Fund(1), Route>> \o SwapIt

RouteFirst ==                                        \* mistake: before the pool is there
  <<Fund(200), Route, Setup(0, 0, TRUE), Setup(0, 100, FALSE)>> \o SwapIt

MeteoraDemo == <<Fund(200), Setup(0, 0, TRUE), Setup(0, 100, FALSE), Route>> \o SwapIt

OrcaLive == <<Fund(0), Fund(1), InitializeEscrow>>

StepsOf(program) ==
  CASE program = "mockDemo" -> MockDemo
    [] program = "orcaDemo" -> OrcaDemo
    [] program = "raydiumDemo" -> RaydiumDemo
    [] program = "meteoraDemo" -> MeteoraDemo
    [] program = "orcaLive" -> OrcaLive

RouteOf(program) ==
  CASE program = "mockDemo" -> "mockDex"
    [] program = "raydiumDemo" -> "raydium"
    [] program = "meteoraDemo" -> "meteora"
    [] OTHER -> "orca"

(* Where an escrow takes its input from: the Orca demo uses the payer's one *)
(* WSOL account; the others make new mints, or a new account, for each.     *)
OneAccount(program, e) == WsolAta                    \* mistake: not a fresh account

InputAccount(program, e) == IF program = "orcaDemo" THEN WsolAta ELSE e

Accounts == Escrows \cup {WsolAta}

Me == CHOOSE c \in Clients : TRUE

InputOf(e) == InputAccount(script.program, e)

Steps == StepsOf(script.program)

At(what) ==
  /\ script.standing = "running"
  /\ script.pc <= Len(Steps)
  /\ Steps[script.pc].do = what

Init ==
  /\ ClientInit
  /\ script \in [program : Programs, pc : {1}, escrow : {AnyEscrow}, standing : {"running"},
                 unused : {Escrows \ {AnyEscrow}}]
  /\ \A e \in Escrows :
       order[e].route = RouteOf(script.program) /\ order[e] = order[AnyEscrow]
  /\ balance = [a \in Accounts |-> 0]
  /\ delegate = [a \in Accounts |-> NoDelegate]
  /\ pool = (RouteOf(script.program) = "orca")

-----------------------------------------------------------------------------
(* A step that worked and was seen to work, or the end of the script. *)
Advance == script' = [script EXCEPT !.pc = @ + 1]

Dies == script' = [script EXCEPT !.standing = "dead"]

RunSetup ==
  /\ At("setup")
  /\ LET step == Steps[script.pc]
         input == InputOf(script.escrow)
     IN IF balance[input] >= step.takes
        THEN /\ balance' = [balance EXCEPT ![input] = @ + step.brings - step.takes]
             /\ pool' = (pool \/ step.opens)
             /\ Advance \/ (~calm /\ Dies)
        ELSE Dies /\ UNCHANGED <<balance, pool>>
  /\ UNCHANGED <<clientVars, delegate>>

(* buildSwap reads the live pool and throws when it is not there. *)
BuildRoute ==
  /\ At("route")
  /\ IF pool THEN Advance ELSE Dies
  /\ UNCHANGED <<clientVars, balance, delegate, pool>>

(* approve hands the account's allowance to the new escrow. *)
Initialize ==
  /\ At("initialize")
  /\ account[script.escrow].status = "fresh"
  /\ Opened(script.escrow)
  /\ delegate' = [delegate EXCEPT ![InputOf(script.escrow)] = script.escrow]
  /\ Advance \/ (~calm /\ Dies)
  /\ UNCHANGED <<slot, rpcSlot, order, fate, calm, network, call, balance, pool>>

FloorTip == BeginWithTip(Me, script.escrow, MIN_JITO_TIP_LAMPORTS)   \* mistake: not the worst case

HedgedTip == BeginWithTip(Me, script.escrow, HEDGE_TIP)

Execute ==
  /\ At("execute")
  /\ HedgedTip
  /\ UNCHANGED <<chainVars, network, demoVars>>

Executed ==
  /\ call[Me].step = "executed"
  /\ Returned(Me)
  /\ Advance
  /\ UNCHANGED <<chainVars, network, balance, delegate, pool>>

SwallowsError ==                                     \* mistake: goes on all the same
  /\ call[Me].step = "threw"
  /\ Returned(Me)
  /\ Advance
  /\ UNCHANGED <<chainVars, network, balance, delegate, pool>>

ExecuteThrew ==
  /\ call[Me].step = "threw"
  /\ Returned(Me)
  /\ Dies
  /\ UNCHANGED <<chainVars, network, balance, delegate, pool>>

ReadResult ==
  /\ At("read")
  /\ Advance
  /\ UNCHANGED <<clientVars, balance, delegate, pool>>

Finish ==
  /\ script.standing = "running"
  /\ script.pc > Len(Steps)
  /\ script' = [script EXCEPT !.standing = "finished"]
  /\ UNCHANGED <<clientVars, balance, delegate, pool>>

(* Any step may fail before it changed anything: main().catch ends the demo, *)
(* and the generator's loop catches it.                                      *)
StepThrows ==
  /\ ~calm
  /\ script.standing = "running"
  /\ Idle(Me)
  /\ Dies
  /\ UNCHANGED <<clientVars, balance, delegate, pool>>

(* A demo started again, or the generator's next cycle: a new escrow. *)
StartAgain ==
  /\ script.standing \in {"dead", "finished"}
  /\ \E e \in script.unused :
       script' = [script EXCEPT !.pc = 1, !.standing = "running", !.escrow = e,
                                !.unused = @ \ {e}]
  /\ pool' = (RouteOf(script.program) = "orca")
  /\ UNCHANGED <<clientVars, balance, delegate>>

DriverStep ==
  RunSetup \/ BuildRoute \/ Initialize \/ Execute \/ Executed \/ ExecuteThrew
    \/ ReadResult \/ Finish

-----------------------------------------------------------------------------
(* The chain: a swap needs the escrow's allowance and one swap's tokens; it *)
(* may be refused for the price or for what else Refuse says.               *)
CanSpend(e) == delegate[InputOf(e)] = e /\ balance[InputOf(e)] >= 1

Spent(e) ==
  /\ balance' = [balance EXCEPT ![InputOf(e)] = @ - 1]
  /\ delegate' = [delegate EXCEPT ![InputOf(e)] = NoDelegate]
  /\ UNCHANGED <<script, pool>>

SwapLands(tx) == CanSpend(tx.escrow) /\ Land(tx) /\ Spent(tx.escrow)

SwapRefused(tx) == Refuse(tx) /\ UNCHANGED demoVars

KeeperSwaps(e) == CanSpend(e) /\ RivalSwap(e) /\ Spent(e)

Next ==
  \/ DriverStep \/ StepThrows \/ StartAgain
  \/ \E c \in Clients : ClientStep(c) /\ UNCHANGED demoVars
  \/ \E tx \in network : SwapLands(tx) \/ SwapRefused(tx) \/ (Expire(tx) /\ UNCHANGED demoVars)
  \/ \E e \in Escrows :
       KeeperSwaps(e) \/ ((topUpBuffer(e) \/ cleanupExpiredEscrow(e)) /\ UNCHANGED demoVars)
  \/ (NextSlot \/ CalmDown) /\ UNCHANGED demoVars

(* The script runs on, and some time the node and the network stop failing. *)
Fairness ==
  /\ WF_vars(CalmDown /\ UNCHANGED demoVars)
  /\ WF_vars(\E tx \in network : SwapLands(tx) \/ SwapRefused(tx))
  /\ WF_vars(DriverStep \/ \E c \in Clients : ClientStep(c) /\ UNCHANGED demoVars)

Spec == Init /\ [][Next]_vars

FairSpec == Spec /\ Fairness

-----------------------------------------------------------------------------
RealDex(e) == order[e].route # "mockDex"

(* Whenever a demo's swap lands, before the window or at any slot of it, the *)
(* fixed tip covers what the program asks for, unless somebody topped up the *)
(* buffer that the script opened the escrow with.  (devnet-orca-demo.mjs     *)
(* 110-121, devnet-demo.mjs 127-149; top_up_buffer.rs 8-15 takes any signer) *)
HedgeCovers ==
  \A tx \in network :
    Pending(tx.escrow) /\ account[tx.escrow].buffer = order[tx.escrow].buffer => TipEnough(tx)

(* The swap a demo waits for can work: the DEX takes its accounts, and the   *)
(* tokens and the allowance are there, although the liquidity used up the    *)
(* first supply and earlier runs may have left escrows behind.               *)
(* (devnet-raydium-demo.mjs 43-140, devnet-meteora-demo.mjs 50-138)          *)
SentSwapsCanWork ==
  \A tx \in network :
    tx.awaited /\ Pending(tx.escrow) /\ RealDex(tx.escrow) =>
      CanSpend(tx.escrow) /\ SwapAccepted(order[tx.escrow].route, order[tx.escrow].inputMint)

(* A demo that reports its output swapped through its own escrow, not a      *)
(* keeper's rescue of it.  (devnet-orca-demo.mjs 122-133)                    *)
FinishedMeansSwapped ==
  script.standing = "finished" /\ script.program # "orcaLive" =>
    fate[script.escrow].by = Me /\ fate[script.escrow].how \in {"ordinary", "rescue"}

(* The generator's escrows stay open to keepers: no later cycle takes the    *)
(* allowance or the tokens of an escrow that is still pending.               *)
(* (devnet-orca-live.mjs 37-57)                                              *)
LeftEscrowsStaySwappable ==
  script.program = "orcaLive" => \A e \in Escrows : Pending(e) => CanSpend(e)

(* A demo on a real DEX started while node and network work gets as far as   *)
(* sending its swap, unless its escrow is closed by others first: the pool   *)
(* and the liquidity are there when they are asked for, and every account of *)
(* the route can be signed for.  (devnet-raydium-demo.mjs 43-140,            *)
(* devnet-meteora-demo.mjs 50-138, devnet-orca-demo.mjs 50-125)              *)
Sent(e) == \E tx \in network : tx.escrow = e

CalmRunsSendTheirSwap ==
  \A e \in Escrows :
    calm /\ script.standing = "running" /\ script.pc = 1 /\ script.escrow = e
         /\ script.program # "orcaLive" /\ RealDex(e)
      ~> (Sent(e) \/ account[e].status = "closed")

=============================================================================
