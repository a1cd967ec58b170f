------------------------------ MODULE SdkMirror ------------------------------
(***************************************************************************)
(* What the off-chain code computes for itself: the SDK's mirror of the    *)
(* program's tip curve (antiSnipe.ts) and the keeper's profitability test  *)
(* on a snapshot (profitability.ts).  Pure operators, as in TipCurve.      *)
(***************************************************************************)
EXTENDS TipCurve

CONSTANTS
  EstimatedTxFeeLamports,  \* keeper configuration
  MinProfitLamports        \* keeper configuration

ASSUME KeeperConfigAssumption ==
  /\ EstimatedTxFeeLamports \in Nat
  /\ MinProfitLamports \in Nat

-----------------------------------------------------------------------------
(* The SDK's mirror, on unbounded BigInts: nothing saturates. *)
splitShare(total, shareBps) == (total * shareBps) \div BASIS_POINTS_DIVISOR

SlotsFromZero(keeperShare, slotsIntoRescue) ==       \* mistake: first slot discounted
  CountsFromZero(keeperShare, slotsIntoRescue)

antiSnipeRequiredTip(keeperShare, slotsIntoRescue) ==
  LET decayProgress == IF slotsIntoRescue > 0 THEN slotsIntoRescue - 1 ELSE 0
  IN IF keeperShare <= MIN_JITO_TIP_LAMPORTS \/ decayProgress >= TIP_DECAY_SLOTS
     THEN MIN_JITO_TIP_LAMPORTS
     ELSE MIN_JITO_TIP_LAMPORTS
            + ((keeperShare - MIN_JITO_TIP_LAMPORTS) * (TIP_DECAY_SLOTS - decayProgress))
                \div TIP_DECAY_SLOTS

computeRescueTip(gasBufferLamports, elapsedSlots) ==
  IF elapsedSlots > TTL_SLOTS
  THEN [isRescueEligible |-> TRUE,
        requiredTipLamports |->
          antiSnipeRequiredTip(splitShare(gasBufferLamports, KEEPER_SHARE_BPS),
                               elapsedSlots - TTL_SLOTS)]
  ELSE [isRescueEligible |-> FALSE, requiredTipLamports |-> 0]

(* The bot's decision on a snapshot. *)
AtFloorTip(gasBufferLamports, elapsedSlots) ==       \* mistake: the decay is ignored
  LET profit == splitShare(gasBufferLamports, KEEPER_SHARE_BPS)
                  - MIN_JITO_TIP_LAMPORTS - EstimatedTxFeeLamports
  IN [isRescueEligible |-> elapsedSlots > TTL_SLOTS,
      isProfitable |-> profit >= MinProfitLamports,
      estimatedProfitLamports |-> profit]

checkProfitability(gasBufferLamports, elapsedSlots) ==
  LET tip == computeRescueTip(gasBufferLamports, elapsedSlots)
      profit == splitShare(gasBufferLamports, KEEPER_SHARE_BPS)
                  - tip.requiredTipLamports - EstimatedTxFeeLamports
  IN IF tip.isRescueEligible
     THEN [isRescueEligible |-> TRUE,
           isProfitable |-> profit >= MinProfitLamports,
           estimatedProfitLamports |-> profit]
     ELSE [isRescueEligible |-> FALSE, isProfitable |-> FALSE,
           estimatedProfitLamports |-> 0]

=============================================================================
