------------------------------ MODULE TipCurve ------------------------------
(***************************************************************************)
(* The money arithmetic of the escrow program: how a gas buffer is split   *)
(* (util.rs), and what Jito tip a rescue must carry (execute_swap.rs).     *)
(* Everything is a pure operator over lamports and slots.  An operator     *)
(* marked "mistake" is a wrong variant of the definition after it: the     *)
(* runs are known to notice when it takes that definition's place.         *)
(***************************************************************************)
EXTENDS Integers

CONSTANTS
  BASIS_POINTS_DIVISOR,   \* 10000
  KEEPER_SHARE_BPS,       \* 9000
  PARTNER_SHARE_BPS,      \* 500; the treasury takes what is left
  CLEANUP_BOUNTY_BPS,     \* 1000
  MIN_JITO_TIP_LAMPORTS,  \* 10000
  TIP_DECAY_SLOTS,        \* 15
  TTL_SLOTS,              \* 2
  MAX_U64                 \* the largest u64, where saturating_mul stops

ASSUME RatesAssumption ==
  /\ BASIS_POINTS_DIVISOR \in Nat \ {0}
  /\ KEEPER_SHARE_BPS \in Nat
  /\ PARTNER_SHARE_BPS \in Nat
  /\ KEEPER_SHARE_BPS + PARTNER_SHARE_BPS <= BASIS_POINTS_DIVISOR
  /\ CLEANUP_BOUNTY_BPS \in 0 .. BASIS_POINTS_DIVISOR

ASSUME TipAssumption ==
  /\ MIN_JITO_TIP_LAMPORTS \in Nat
  /\ TIP_DECAY_SLOTS \in Nat \ {0}
  /\ TTL_SLOTS \in Nat
  /\ MAX_U64 \in Nat

-----------------------------------------------------------------------------
(* Rust's saturating operations on u64. *)
saturating_sub(x, y) == IF x >= y THEN x - y ELSE 0

saturating_mul(x, y) == IF x * y <= MAX_U64 THEN x * y ELSE MAX_U64

-----------------------------------------------------------------------------
(* The split of a buffer.  Shares round down; on the rescue path the       *)
(* treasury takes the remainder, so no dust is left behind.                *)
RoundedUp(total, share_bps) ==          \* mistake: shares may exceed the total
  (total * share_bps + BASIS_POINTS_DIVISOR - 1) \div BASIS_POINTS_DIVISOR

split_share(total, share_bps) == (total * share_bps) \div BASIS_POINTS_DIVISOR

KeeperShare(buffer) == split_share(buffer, KEEPER_SHARE_BPS)

PartnerShare(buffer) == split_share(buffer, PARTNER_SHARE_BPS)

TreasuryShare(buffer) == buffer - KeeperShare(buffer) - PartnerShare(buffer)

CleanupBounty(buffer) == split_share(buffer, CLEANUP_BOUNTY_BPS)

-----------------------------------------------------------------------------
(* The tip a rescue must carry: the keeper's own reward at the first slot  *)
(* of the rescue window, falling in a straight line to the floor.          *)
FlatTip(keeper_share, slots_into_rescue) ==          \* mistake: the old rule
  MIN_JITO_TIP_LAMPORTS

DecaysFrom(keeper_share, numerator, denominator) ==
  IF keeper_share <= MIN_JITO_TIP_LAMPORTS \/ numerator <= 0
  THEN MIN_JITO_TIP_LAMPORTS
  ELSE MIN_JITO_TIP_LAMPORTS
         + ((keeper_share - MIN_JITO_TIP_LAMPORTS) * numerator) \div denominator

CountsFromZero(keeper_share, slots_into_rescue) ==   \* mistake: first slot discounted
  DecaysFrom(keeper_share, TIP_DECAY_SLOTS - slots_into_rescue, TIP_DECAY_SLOTS)

Undivided(keeper_share, slots_into_rescue) ==        \* mistake: division forgotten
  DecaysFrom(keeper_share, TIP_DECAY_SLOTS - slots_into_rescue + 1, 1)

RampsUp(keeper_share, slots_into_rescue) ==          \* mistake: progress, not the rest
  DecaysFrom(keeper_share, slots_into_rescue, TIP_DECAY_SLOTS)

anti_snipe_required_tip(keeper_share, slots_into_rescue) ==
  LET decay_progress == saturating_sub(slots_into_rescue, 1)
      extra_above_floor == keeper_share - MIN_JITO_TIP_LAMPORTS
      remaining_slots == TIP_DECAY_SLOTS - decay_progress
  IN IF keeper_share <= MIN_JITO_TIP_LAMPORTS \/ decay_progress >= TIP_DECAY_SLOTS
     THEN MIN_JITO_TIP_LAMPORTS
     ELSE MIN_JITO_TIP_LAMPORTS
            + saturating_mul(extra_above_floor, remaining_slots) \div TIP_DECAY_SLOTS

(* A swap executed after the time to live is a rescue. *)
AtTtlAlready(elapsed) == elapsed >= TTL_SLOTS       \* mistake: one slot early

IsRescue(elapsed) == elapsed > TTL_SLOTS

(* What execute_swap asks for, from the buffer and the slots since creation; *)
(* an ordinary attempt needs no tip.                                         *)
RequiredTip(buffer, elapsed) ==
  IF IsRescue(elapsed)
  THEN anti_snipe_required_tip(KeeperShare(buffer), saturating_sub(elapsed, TTL_SLOTS))
  ELSE 0

=============================================================================
