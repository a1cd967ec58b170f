------------------------------- MODULE Keeper -------------------------------
(***************************************************************************)
(* The keeper bot (bot.ts, index.ts) over the SDK client: a poll loop that *)
(* takes a snapshot of the pending escrows and of the slot, and tries them *)
(* one by one.  Everything it decides is decided on the snapshot, while    *)
(* slots pass, buffers are topped up and others close the escrows.         *)
(***************************************************************************)
EXTENDS InertiaClient

CONSTANTS
  ConfiguredRoutes,  \* the pools loadConfigFromEnv found an address for
  LastCreation       \* bound: escrows are created up to this slot

ASSUME KeeperAssumption ==
  /\ ConfiguredRoutes \subseteq {"orca", "raydium"}
  /\ LastCreation \in Nat

VARIABLES
  bot,      \* each bot's loop: where it is, its snapshot, the escrow it is at
  claims    \* history: the rescues a bot reported, with the estimated profit

keeperVars == <<bot, claims>>

vars == <<clientVars, keeperVars>>

-----------------------------------------------------------------------------
Bots == Clients

Snapshot == [escrow : Escrows, buffer : Nat, creation : Nat]

Mode == {"asleep", "scanned", "passing", "building", "trying", "rechecking"}

Bot == [mode : Mode, at : Nat, todo : SUBSET Snapshot, escrow : Escrows, estimate : Int]

Claim == [by : Bots, escrow : Escrows, profit : Int]

Asleep == [mode |-> "asleep", at |-> 0, todo |-> {}, escrow |-> AnyEscrow, estimate |-> 0]

Init ==
  /\ ClientInit
  /\ bot = [b \in Bots |-> Asleep]
  /\ claims = {}

(* The mock DEX is always taken; the real ones when their pool is configured. *)
Handles(route) == route = "mockDex" \/ route \in ConfiguredRoutes

IgnoresWindow(b, s) ==                               \* mistake: profit is enough
  checkProfitability(s.buffer, TTL_SLOTS + 1 + TIP_DECAY_SLOTS).isProfitable

Judged(b, s) ==
  checkProfitability(s.buffer, bot[b].at - s.creation).isProfitable

Estimate(b, s) ==
  checkProfitability(s.buffer, bot[b].at - s.creation).estimatedProfitLamports

-----------------------------------------------------------------------------
(* runOnce: the pending escrows, then the slot.  A failed first read leaves *)
(* the bot asleep until the next poll.                                      *)
Scan(b) ==
  /\ bot[b].mode = "asleep"
  /\ bot' = [bot EXCEPT ![b].mode = "scanned",
               ![b].todo = {[escrow |-> e, buffer |-> account[e].buffer,
                             creation |-> account[e].creation] :
                              e \in {e \in Escrows : Pending(e)}}]
  /\ UNCHANGED <<clientVars, claims>>

ReadScanSlot(b) ==
  /\ bot[b].mode = "scanned"
  /\ bot' = [bot EXCEPT ![b].mode = "passing", ![b].at = rpcSlot]
  /\ UNCHANGED <<clientVars, claims>>

ScanThrows(b) ==
  /\ ~calm
  /\ bot[b].mode = "scanned"
  /\ bot' = [bot EXCEPT ![b] = Asleep]
  /\ UNCHANGED <<clientVars, claims>>

(* tryRescue: the skips, decided on the snapshot. *)
Skip(b, s) ==
  /\ bot[b].mode = "passing"
  /\ ~(Handles(order[s.escrow].route) /\ Judged(b, s))
  /\ bot' = [bot EXCEPT ![b].todo = @ \ {s}]
  /\ UNCHANGED <<clientVars, claims>>

Attempt(b, s) ==
  /\ bot[b].mode = "passing"
  /\ Handles(order[s.escrow].route) /\ Judged(b, s)
  /\ bot' = [bot EXCEPT ![b].mode = "building", ![b].todo = @ \ {s},
               ![b].escrow = s.escrow, ![b].estimate = Estimate(b, s)]
  /\ UNCHANGED <<clientVars, claims>>

(* The route is built from live token accounts and the pool; either may be  *)
(* gone.                                                                    *)
BuildRoute(b) ==
  /\ bot[b].mode = "building"
  /\ bot' = [bot EXCEPT ![b].mode = "trying"]
  /\ Begin(b, bot[b].escrow)
  /\ UNCHANGED <<chainVars, network, claims>>

BuildThrows(b) ==
  /\ bot[b].mode = "building"
  /\ bot' = [bot EXCEPT ![b].mode = "rechecking"]
  /\ UNCHANGED <<clientVars, claims>>

NextOne(b) == [bot[b] EXCEPT !.mode = "passing", !.escrow = AnyEscrow, !.estimate = 0]

ReportsSent(b) ==                                    \* mistake: sent is taken for landed
  /\ bot[b].mode = "trying"
  /\ call[b].step \in {"executed", "threw"}
  /\ Returned(b)
  /\ bot' = [bot EXCEPT ![b] = NextOne(b)]
  /\ claims' = claims \cup {[by |-> b, escrow |-> bot[b].escrow, profit |-> bot[b].estimate]}
  /\ UNCHANGED <<chainVars, network>>

ReportRescued(b) ==
  /\ bot[b].mode = "trying"
  /\ call[b].step = "executed"
  /\ Returned(b)
  /\ bot' = [bot EXCEPT ![b] = NextOne(b)]
  /\ claims' = claims \cup {[by |-> b, escrow |-> bot[b].escrow, profit |-> bot[b].estimate]}
  /\ UNCHANGED <<chainVars, network>>

CallThrew(b) ==
  /\ bot[b].mode = "trying"
  /\ call[b].step = "threw"
  /\ Returned(b)
  /\ bot' = [bot EXCEPT ![b].mode = "rechecking"]
  /\ UNCHANGED <<chainVars, network, claims>>

(* getEscrow again, to tell a lost race from an error; a failed read looks  *)
(* like a closed escrow.  Either is logged and the pass goes on.            *)
EndsPass(b) ==                                       \* mistake: the error ends the pass
  /\ bot[b].mode = "rechecking"
  /\ bot' = [bot EXCEPT ![b] = Asleep]
  /\ UNCHANGED <<clientVars, claims>>

Recheck(b) ==
  /\ bot[b].mode = "rechecking"
  /\ bot' = [bot EXCEPT ![b] = NextOne(b)]
  /\ UNCHANGED <<clientVars, claims>>

PassDone(b) ==
  /\ bot[b].mode = "passing"
  /\ bot[b].todo = {}
  /\ bot' = [bot EXCEPT ![b] = Asleep]
  /\ UNCHANGED <<clientVars, claims>>

BotStep(b) ==
  \/ Scan(b) \/ ReadScanSlot(b) \/ ScanThrows(b)
  \/ \E s \in bot[b].todo : Skip(b, s) \/ Attempt(b, s)
  \/ BuildRoute(b) \/ BuildThrows(b)
  \/ ReportRescued(b) \/ CallThrew(b) \/ Recheck(b) \/ PassDone(b)

Next ==
  \/ \E b \in Bots : BotStep(b) \/ (ClientStep(b) /\ UNCHANGED keeperVars)
  \/ NetworkStep /\ UNCHANGED keeperVars
  \/ ChainStep /\ UNCHANGED keeperVars
  \/ \E e \in Escrows : slot <= LastCreation /\ initializeEscrow(e) /\ UNCHANGED keeperVars

(* The bot's process keeps running (index.ts catches everything), slots and *)
(* the node's view of them go on, a transaction does not stay in flight for *)
(* ever, and some time the node and the network stop failing.               *)
Fairness ==
  /\ WF_vars((NextSlot \/ NodeCatchesUp) /\ UNCHANGED keeperVars)
  /\ WF_vars(CalmDown /\ UNCHANGED keeperVars)
  /\ WF_vars(NetworkStep /\ UNCHANGED keeperVars)
  /\ \A b \in Bots : WF_vars(BotStep(b) \/ (ClientStep(b) /\ UNCHANGED keeperVars))

Spec == Init /\ [][Next]_vars

FairSpec == Spec /\ Fairness

-----------------------------------------------------------------------------
(* A bot's transaction always carries a tip: the window it was found open   *)
(* in on the snapshot is still open on the client's later reading of the    *)
(* slot, so no attempt goes out as an ordinary swap that would earn         *)
(* nothing.  (bot.ts 74-91, client.ts 173-194)                              *)
BotAlwaysTips == \A tx \in network : tx.by \in Bots => tx.tip > 0

(* The tip computed from a lagging slot and an older read of the buffer is  *)
(* enough for as long as the transaction is in flight, unless a top-up came *)
(* in between.  (client.ts 173-194, execute_swap.rs 124-146)                *)
AttachedTipCovers ==
  \A tx \in network :
    Pending(tx.escrow) /\ account[tx.escrow].buffer = tx.basis => TipEnough(tx)

(* Whatever happened between the snapshot and the landing, an escrow a bot  *)
(* closed was a rescue that left it its minimum profit after tip and fee,   *)
(* even where the bot had given up on the transaction.  (bot.ts 74-91)      *)
KeeperEarnsItsMinimum ==
  \A e \in Escrows :
    fate[e].by \in Bots =>
      /\ fate[e].how = "rescue"
      /\ fate[e].earned >= MinProfitLamports + EstimatedTxFeeLamports

(* A rescue a bot reports is its own, and the profit it prints is at most   *)
(* what it earned.  (bot.ts 165-170, index.ts 36-39)                        *)
ReportedProfitIsEarned ==
  \A c \in claims :
    /\ fate[c.escrow].how = "rescue" /\ fate[c.escrow].by = c.by
    /\ fate[c.escrow].earned - EstimatedTxFeeLamports >= c.profit

(* An escrow on a configured pool that is worth rescuing once its tip has    *)
(* decayed is tried until it is closed: as long as it is pending, another    *)
(* attempt at it always follows, whatever became of the last one and         *)
(* whatever fails beside it in the pass.  That one of them lands is nothing  *)
(* the bot can promise: the tokens, the delegation or the price may be gone. *)
(* (bot.ts 45-55 and 92-182, index.ts 32-55)                                 *)
Tried(e) == \E b \in Bots : bot[b].mode = "building" /\ bot[b].escrow = e

WorthRescuing(e) ==
  /\ Pending(e)
  /\ order[e].route \in ConfiguredRoutes
  /\ checkProfitability(account[e].buffer, TTL_SLOTS + 1 + TIP_DECAY_SLOTS).isProfitable

TriedUntilClosed == \A e \in Escrows : WorthRescuing(e) ~> (~Pending(e) \/ Tried(e))

(* What the keeper's integration test expects of the mock route, and the    *)
(* mock builder's comment of its accounts: a swap the bot sends is one the  *)
(* relay and the DEX accept.  (keeper/test/integration.check.mjs 155)       *)
EverySwapAccepted ==
  \A tx \in network :
    SwapAccepted(order[tx.escrow].route, order[tx.escrow].inputMint)

=============================================================================
