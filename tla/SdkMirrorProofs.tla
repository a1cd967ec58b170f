--------------------------- MODULE SdkMirrorProofs ---------------------------
(* The tip curve and its copy in the SDK, for every rate, floor and decay and *)
(* every buffer somebody can pay: the two are the same function, the tip asked *)
(* of a waiting buffer never rises, and what a rescue earns never falls.      *)
EXTENDS SdkMirror, TipCurveProofs

(* No product of the buffer and the decay saturates. *)
Payable(b) == b * TIP_DECAY_SLOTS <= MAX_U64

(* Parameters and their types, in one place. *)
LEMMA CurveParameters ==
  /\ MIN_JITO_TIP_LAMPORTS \in Nat
  /\ TIP_DECAY_SLOTS \in Nat \ {0}
  /\ TTL_SLOTS \in Nat
  /\ MAX_U64 \in Nat
BY TipAssumption

(* The required tip in the rescue window, with the saturating subtractions    *)
(* resolved: progress counts from 0 at the first slot of the window.          *)
LEMMA TipInWindow ==
  ASSUME NEW b \in Nat, NEW el \in Nat, IsRescue(el)
  PROVE  RequiredTip(b, el) =
           IF KeeperShare(b) <= MIN_JITO_TIP_LAMPORTS \/ el - TTL_SLOTS - 1 >= TIP_DECAY_SLOTS
           THEN MIN_JITO_TIP_LAMPORTS
           ELSE MIN_JITO_TIP_LAMPORTS
                  + saturating_mul(KeeperShare(b) - MIN_JITO_TIP_LAMPORTS,
                                   TIP_DECAY_SLOTS - (el - TTL_SLOTS - 1)) \div TIP_DECAY_SLOTS
<1>1. el > TTL_SLOTS
  BY DEF IsRescue
<1>2. /\ saturating_sub(el, TTL_SLOTS) = el - TTL_SLOTS
      /\ saturating_sub(el - TTL_SLOTS, 1) = el - TTL_SLOTS - 1
  BY <1>1, CurveParameters DEF saturating_sub
<1> QED
  BY <1>2 DEF RequiredTip, anti_snipe_required_tip

(* No rescue gets away with less than the floor. *)
LEMMA TipAboveFloor ==
  ASSUME NEW b \in Nat, NEW el \in Nat, IsRescue(el)
  PROVE  RequiredTip(b, el) >= MIN_JITO_TIP_LAMPORTS
<1> DEFINE M == MIN_JITO_TIP_LAMPORTS
           T == TIP_DECAY_SLOTS
           share == KeeperShare(b)
           progress == el - TTL_SLOTS - 1
           product == saturating_mul(share - M, T - progress)
<1>1. /\ M \in Nat /\ T \in Nat \ {0} /\ MAX_U64 \in Nat /\ share \in Nat
      /\ progress \in Nat
  BY CurveParameters, KeeperShareBounds DEF IsRescue
<1>2. RequiredTip(b, el) = IF share <= M \/ progress >= T THEN M ELSE M + product \div T
  BY TipInWindow
<1> HIDE DEF share, progress
<1>3. ASSUME share > M, progress < T
      PROVE  product \in Nat
  <2>1. share - M \in Nat /\ T - progress \in Nat
    BY <1>1, <1>3
  <2>2. (share - M) * (T - progress) \in Nat
    BY <2>1
  <2> QED
    BY <1>1, <2>2 DEF saturating_mul
<1> HIDE DEF product
<1>4. ASSUME share > M, progress < T
      PROVE  product \div T \in Nat
  BY <1>1, <1>3, <1>4, DivideBounds
<1> QED
  BY <1>1, <1>2, <1>4

(* A payable buffer's share times what is left of the decay does not saturate. *)
LEMMA NoSaturation ==
  ASSUME NEW b \in Nat, Payable(b), NEW rest \in Nat, rest <= TIP_DECAY_SLOTS,
         KeeperShare(b) > MIN_JITO_TIP_LAMPORTS
  PROVE  saturating_mul(KeeperShare(b) - MIN_JITO_TIP_LAMPORTS, rest)
           = (KeeperShare(b) - MIN_JITO_TIP_LAMPORTS) * rest
<1> DEFINE x == KeeperShare(b) - MIN_JITO_TIP_LAMPORTS
           T == TIP_DECAY_SLOTS
<1>1. b \in Nat /\ T \in Nat /\ MAX_U64 \in Nat
  BY CurveParameters
<1>2. x \in Nat /\ x <= b
  BY <1>1, CurveParameters, KeeperShareBounds
<1> HIDE DEF x
<1>3. x * rest <= x * T
  BY <1>1, <1>2, MultiplyMonotone
<1>4. T * x <= T * b
  BY <1>1, <1>2, MultiplyMonotone
<1>5. /\ x * T = T * x /\ b * T = T * b
      /\ x * rest \in Nat /\ x * T \in Nat /\ T * b \in Nat
  BY <1>1, <1>2
<1>6. x * rest <= MAX_U64
  BY <1>1, <1>3, <1>4, <1>5 DEF Payable
<1> QED
  BY <1>6 DEF saturating_mul, x

(* Whatever is less than a payable buffer is payable. *)
LEMMA PayableUpTo ==
  ASSUME NEW most \in Nat, NEW b \in 0 .. most, most * TIP_DECAY_SLOTS <= MAX_U64
  PROVE  b \in Nat /\ Payable(b)
<1> DEFINE T == TIP_DECAY_SLOTS
<1>1. b \in Nat /\ T \in Nat /\ MAX_U64 \in Nat
  BY CurveParameters
<1>2. T * b <= T * most
  BY <1>1, MultiplyMonotone
<1>3. b * T = T * b /\ most * T = T * most /\ b * T \in Nat /\ most * T \in Nat
  BY <1>1
<1> HIDE DEF T
<1>4. b * T <= most * T
  BY <1>2, <1>3
<1>5. most * T <= MAX_U64
  BY DEF T
<1>6. b * T <= MAX_U64
  BY <1>1, <1>3, <1>4, <1>5
<1> QED
  BY <1>1, <1>6 DEF Payable, T

-----------------------------------------------------------------------------
(* antiSnipe.ts and execute_swap.rs ask for the same tip and draw the same    *)
(* line between an ordinary swap and a rescue, for every payable buffer at    *)
(* every age.                                                                 *)
THEOREM MirrorIsExact ==
  ASSUME NEW b \in Nat, Payable(b), NEW el \in Nat
  PROVE  computeRescueTip(b, el) =
           [isRescueEligible |-> IsRescue(el), requiredTipLamports |-> RequiredTip(b, el)]
<1> DEFINE M == MIN_JITO_TIP_LAMPORTS
           T == TIP_DECAY_SLOTS
           share == KeeperShare(b)
           progress == el - TTL_SLOTS - 1
<1>1. b \in Nat /\ M \in Nat /\ T \in Nat \ {0} /\ TTL_SLOTS \in Nat /\ share \in Nat
  BY CurveParameters, KeeperShareBounds
<1>2. CASE ~IsRescue(el)
  <2>1. IsRescue(el) = FALSE /\ RequiredTip(b, el) = 0
    BY <1>2 DEF RequiredTip, IsRescue
  <2>2. computeRescueTip(b, el) = [isRescueEligible |-> FALSE, requiredTipLamports |-> 0]
    BY <1>2 DEF computeRescueTip, IsRescue
  <2> QED
    BY <2>1, <2>2
<1>3. CASE IsRescue(el)
  <2>1. el > TTL_SLOTS /\ el - TTL_SLOTS > 0 /\ progress \in Nat
    BY <1>1, <1>3 DEF IsRescue
  <2>2. splitShare(b, KEEPER_SHARE_BPS) = share
    BY DEF splitShare, split_share, KeeperShare
  <2> HIDE DEF share
  <2>3. antiSnipeRequiredTip(share, el - TTL_SLOTS) =
          IF share <= M \/ progress >= T THEN M
          ELSE M + ((share - M) * (T - progress)) \div T
    BY <2>1 DEF antiSnipeRequiredTip
  <2>4. RequiredTip(b, el) =
          IF share <= M \/ progress >= T THEN M
          ELSE M + saturating_mul(share - M, T - progress) \div T
    BY <1>1, <1>3, TipInWindow DEF share
  <2>5. ASSUME share > M, progress < T
        PROVE  saturating_mul(share - M, T - progress) = (share - M) * (T - progress)
    <3>1. T - progress \in Nat /\ T - progress <= T
      BY <1>1, <2>1, <2>5
    <3> HIDE DEF progress
    <3> QED
      BY <2>5, <3>1, NoSaturation DEF share
  <2>6. antiSnipeRequiredTip(share, el - TTL_SLOTS) = RequiredTip(b, el)
    <3> HIDE DEF progress
    <3>1. CASE share <= M \/ progress >= T
      BY <2>3, <2>4, <3>1
    <3>2. CASE ~(share <= M \/ progress >= T)
      <4>1. share > M /\ progress < T
        BY <1>1, <2>1, <3>2
      <4> QED
        BY <2>3, <2>4, <2>5, <3>2, <4>1
    <3> QED
      BY <3>1, <3>2
  <2>7. IsRescue(el) = TRUE
    BY <1>3 DEF IsRescue
  <2>8. computeRescueTip(b, el) =
          [isRescueEligible |-> TRUE,
           requiredTipLamports |-> antiSnipeRequiredTip(share, el - TTL_SLOTS)]
    BY <2>1, <2>2 DEF computeRescueTip
  <2> QED
    BY <2>6, <2>7, <2>8
<1> QED
  BY <1>2, <1>3

(* A later slot asks for no more. *)
THEOREM TipFallsWithAge ==
  ASSUME NEW b \in Nat, Payable(b), NEW el \in Nat, IsRescue(el), NEW later \in Nat, el <= later
  PROVE  RequiredTip(b, later) <= RequiredTip(b, el)
<1> DEFINE M == MIN_JITO_TIP_LAMPORTS
           T == TIP_DECAY_SLOTS
           share == KeeperShare(b)
           p == el - TTL_SLOTS - 1
           q == later - TTL_SLOTS - 1
           now == (share - M) * (T - p)
           then == (share - M) * (T - q)
<1>1. b \in Nat /\ M \in Nat /\ T \in Nat \ {0} /\ TTL_SLOTS \in Nat /\ share \in Nat
  BY CurveParameters, KeeperShareBounds
<1>2. IsRescue(later) /\ p \in Nat /\ q \in Nat /\ p <= q
  BY <1>1 DEF IsRescue
<1>3. RequiredTip(b, el) \in Nat /\ RequiredTip(b, later) \in Nat
  BY <1>1, RequiredTipNat
<1>4. /\ RequiredTip(b, el) =
           IF share <= M \/ p >= T THEN M ELSE M + saturating_mul(share - M, T - p) \div T
      /\ RequiredTip(b, later) =
           IF share <= M \/ q >= T THEN M ELSE M + saturating_mul(share - M, T - q) \div T
  BY <1>1, <1>2, TipInWindow
<1> HIDE DEF p, q
<1>5. CASE share <= M \/ p >= T
  BY <1>1, <1>2, <1>4, <1>5
<1>6. CASE ~(share <= M \/ p >= T)
  <2>1. /\ T - p \in Nat /\ T - p <= T /\ share - M \in Nat /\ share > M
    BY <1>1, <1>2, <1>6
  <2>2. saturating_mul(share - M, T - p) = now
    BY <2>1, NoSaturation
  <2>3. now \in Nat /\ now \div T \in Nat
    <3>1. now \in Nat
      BY <2>1
    <3> HIDE DEF now
    <3> QED
      BY <1>1, <3>1, DivideBounds
  <2>4. RequiredTip(b, el) = M + now \div T
    <3> HIDE DEF now, share, M, T
    <3> QED
      BY <1>4, <1>6, <2>2
  <2>5. CASE q >= T
    <3> HIDE DEF now, share
    <3> QED
      BY <1>1, <1>4, <2>3, <2>4, <2>5
  <2>6. CASE q < T
    <3>1. /\ T - q \in Nat /\ T - q <= T /\ T - q <= T - p
      BY <1>1, <1>2, <2>6
    <3>2. saturating_mul(share - M, T - q) = then
      BY <2>1, <3>1, NoSaturation
    <3>3. then \in Nat /\ then <= now
      BY <2>1, <3>1, MultiplyMonotone
    <3>4. then \div T <= now \div T /\ then \div T \in Nat
      <4> HIDE DEF now, then
      <4> QED
        BY <1>1, <2>3, <3>3, DivideMonotone, DivideBounds
    <3>5. ~(share <= M \/ q >= T)
      BY <1>1, <1>2, <2>1, <2>6
    <3> HIDE DEF now, then, share
    <3>6. RequiredTip(b, later) = M + then \div T
      BY <1>4, <3>2, <3>5
    <3> QED
      BY <1>1, <2>3, <2>4, <3>4, <3>6
  <2> QED
    BY <1>1, <1>2, <2>5, <2>6
<1> QED
  BY <1>5, <1>6

(* With p slots of the decay gone, T * (share - tip) < p * (share - floor) + T: *)
(* the tip takes back all of the reward above the floor but the fraction p/T.   *)
THEOREM EarlyNetIsSmall ==
  ASSUME NEW b \in Nat, Payable(b), NEW el \in Nat, IsRescue(el),
         KeeperShare(b) > MIN_JITO_TIP_LAMPORTS, el - TTL_SLOTS - 1 < TIP_DECAY_SLOTS
  PROVE  TIP_DECAY_SLOTS * (KeeperShare(b) - RequiredTip(b, el))
           < (el - TTL_SLOTS - 1) * (KeeperShare(b) - MIN_JITO_TIP_LAMPORTS) + TIP_DECAY_SLOTS
<1> DEFINE M == MIN_JITO_TIP_LAMPORTS
           T == TIP_DECAY_SLOTS
           share == KeeperShare(b)
           progress == el - TTL_SLOTS - 1
           extra == share - M
           rest == T - progress
           taken == (extra * rest) \div T
<1>1. b \in Nat /\ M \in Nat /\ T \in Nat \ {0} /\ TTL_SLOTS \in Nat /\ share \in Nat
  BY CurveParameters, KeeperShareBounds
<1>2. progress \in Nat
  BY <1>1 DEF IsRescue
<1>3. extra \in Nat /\ rest \in Nat /\ rest <= T
  <2> HIDE DEF progress
  <2> QED
    BY <1>1, <1>2 DEF progress
<1>4. RequiredTip(b, el) = M + taken
  <2>1. RequiredTip(b, el) =
          IF share <= M \/ progress >= T THEN M
          ELSE M + saturating_mul(share - M, T - progress) \div T
    BY <1>1, TipInWindow
  <2>2. saturating_mul(extra, rest) = extra * rest
    BY <1>3, NoSaturation
  <2>3. ~(share <= M \/ progress >= T)
    BY <1>1, <1>2
  <2> HIDE DEF share, progress, T, M
  <2> QED
    BY <2>1, <2>2, <2>3
<1>5. taken \in Nat /\ extra * rest < T * taken + T
  <2> HIDE DEF extra, rest
  <2>1. extra * rest \in Nat
    BY <1>3
  <2> HIDE DEF T
  <2> QED
    BY <1>1, <2>1, DivideBounds
<1>6. share - RequiredTip(b, el) = extra - taken
  <2> HIDE DEF share, taken, M
  <2> QED
    BY <1>1, <1>4, <1>5
<1>7. extra * rest = T * extra - progress * extra
  <2> HIDE DEF extra, progress, T
  <2> QED
    BY <1>1, <1>2, <1>3
<1>8. T * (extra - taken) = T * extra - T * taken
  <2> HIDE DEF extra, taken, T
  <2> QED
    BY <1>1, <1>3, <1>5
<1>9. /\ T * extra \in Int /\ T * taken \in Int /\ progress * extra \in Int /\ T \in Int
      /\ T * (extra - taken) \in Int
  <2> HIDE DEF extra, taken, T, progress
  <2> QED
    BY <1>1, <1>2, <1>3, <1>5
<1>10. T * (extra - taken) < progress * extra + T
  <2> DEFINE te == T * extra
             tt == T * taken
             pe == progress * extra
  <2> HIDE DEF extra, taken, T, progress
  <2>1. te - pe < tt + T
    BY <1>5, <1>7
  <2>2. te \in Int /\ tt \in Int /\ pe \in Int /\ T \in Int
    BY <1>9
  <2>3. T * (extra - taken) = te - tt
    BY <1>8
  <2> HIDE DEF te, tt, pe
  <2>4. te - tt < pe + T
    BY <2>1, <2>2
  <2> QED
    BY <2>3, <2>4 DEF pe
<1> QED
  BY <1>6, <1>10

-----------------------------------------------------------------------------
(* Rounding down a part of a sum takes at most the summand more. *)
LEMMA PartOfSum ==
  ASSUME NEW x \in Nat, NEW k \in Nat, NEW d \in Nat \ {0}, NEW r \in 0 .. d
  PROVE  ((x + k) * r) \div d <= (x * r) \div d + k
<1> DEFINE u == (x * r) \div d
           v == ((x + k) * r) \div d
<1>1. r \in Nat /\ x * r \in Nat /\ (x + k) * r \in Nat /\ k * r \in Nat
      /\ (x + k) * r = x * r + k * r
  OBVIOUS
<1>2. /\ u \in Nat /\ d * u <= x * r /\ x * r < d * u + d
      /\ v \in Nat /\ d * v <= (x + k) * r
  BY <1>1, DivideBounds
<1>3. k * r <= k * d
  BY <1>1, MultiplyMonotone
<1>4. k * d = d * k /\ d * k \in Nat /\ d * u \in Nat /\ d * v \in Nat
  BY <1>2
<1> HIDE DEF u, v
<1>5. d * v < d * u + d * k + d
  <2> DEFINE xr == x * r  kr == k * r  dv == d * v  du == d * u  dk == d * k
  <2>1. /\ xr \in Nat /\ kr \in Nat /\ dv \in Nat /\ du \in Nat /\ dk \in Nat
        /\ dv <= xr + kr /\ xr < du + d /\ kr <= dk
    BY <1>1, <1>2, <1>3, <1>4
  <2> HIDE DEF xr, kr, dv, du, dk
  <2>2. dv < du + dk + d
    BY <2>1
  <2> QED
    BY <2>2 DEF dv, du, dk
<1>6. SUFFICES ASSUME v > u + k
               PROVE  FALSE
  BY <1>2 DEF u, v
<1>7. u + k + 1 \in Nat /\ u + k + 1 <= v
  BY <1>2, <1>6
<1>8. d * (u + k + 1) <= d * v
  BY <1>2, <1>7, MultiplyMonotone
<1>9. d * (u + k + 1) = d * u + d * k + d
  BY <1>2
<1> QED
  BY <1>4, <1>5, <1>8, <1>9

(* The share of a larger buffer is not smaller. *)
LEMMA ShareMonotone ==
  ASSUME NEW b \in Nat, NEW more \in Nat, b <= more
  PROVE  KeeperShare(b) <= KeeperShare(more)
<1> DEFINE K == KEEPER_SHARE_BPS
<1>1. K \in Nat /\ BASIS_POINTS_DIVISOR \in Nat \ {0}
  BY RatesAssumption
<1>2. K * b <= K * more
  BY <1>1, MultiplyMonotone
<1>3. K * b = b * K /\ K * more = more * K /\ b * K \in Nat /\ more * K \in Nat
  BY <1>1
<1>4. b * K <= more * K
  BY <1>2, <1>3
<1>5. (b * K) \div BASIS_POINTS_DIVISOR <= (more * K) \div BASIS_POINTS_DIVISOR
  BY <1>1, <1>3, <1>4, DivideMonotone
<1> QED
  BY <1>5 DEF KeeperShare, split_share

(* What a rescue leaves its keeper, if its transaction carries the tip due in *)
(* a slot: it does not fall when the buffer grows, although the tip rises.    *)
THEOREM NetRisesWithBuffer ==
  ASSUME NEW b \in Nat, NEW more \in Nat, b <= more, Payable(b), Payable(more),
         NEW el \in Nat, IsRescue(el)
  PROVE  KeeperShare(b) - RequiredTip(b, el) <= KeeperShare(more) - RequiredTip(more, el)
<1> DEFINE M == MIN_JITO_TIP_LAMPORTS
           T == TIP_DECAY_SLOTS
           s == KeeperShare(b)
           t == KeeperShare(more)
           p == el - TTL_SLOTS - 1
<1>1. M \in Nat /\ T \in Nat \ {0} /\ TTL_SLOTS \in Nat /\ s \in Nat /\ t \in Nat /\ s <= t
  BY CurveParameters, KeeperShareBounds, ShareMonotone
<1>2. p \in Nat
  BY <1>1 DEF IsRescue
<1>3. /\ RequiredTip(b, el) =
           IF s <= M \/ p >= T THEN M ELSE M + saturating_mul(s - M, T - p) \div T
      /\ RequiredTip(more, el) =
           IF t <= M \/ p >= T THEN M ELSE M + saturating_mul(t - M, T - p) \div T
  BY <1>1, TipInWindow
<1> HIDE DEF p
<1>4. CASE t <= M \/ p >= T
  BY <1>1, <1>2, <1>3, <1>4
<1>5. CASE t > M /\ p < T
  <2>1. T - p \in 0 .. T /\ T - p \in Nat /\ T - p <= T /\ t - M \in Nat
    BY <1>1, <1>2, <1>5
  <2>2. saturating_mul(t - M, T - p) = (t - M) * (T - p)
    BY <1>5, <2>1, NoSaturation
  <2> DEFINE after == ((t - M) * (T - p)) \div T
  <2>3. RequiredTip(more, el) = M + after
    <3>1. ~(t <= M \/ p >= T)
      BY <1>1, <1>2, <1>5
    <3> HIDE DEF t, M, T
    <3> QED
      BY <1>3, <2>2, <3>1
  <2>4. CASE s <= M
    <3>1. ((0 + (t - M)) * (T - p)) \div T <= (0 * (T - p)) \div T + (t - M)
      BY <1>1, <2>1, PartOfSum
    <3>2. 0 * (T - p) = 0 /\ 0 \div T = 0 /\ 0 + (t - M) = t - M
      BY <1>1, <2>1, DivideBounds
    <3>3. after <= t - M /\ after \in Nat
      <4>1. (t - M) * (T - p) \in Nat
        BY <2>1
      <4>2. after \in Nat
        BY <1>1, <4>1, DivideBounds
      <4> HIDE DEF t, M
      <4> QED
        BY <2>1, <3>1, <3>2, <4>2
    <3> HIDE DEF after, s, t
    <3> QED
      BY <1>1, <1>3, <2>3, <2>4, <3>3 DEF s, t
  <2>5. CASE s > M
    <3> DEFINE before == ((s - M) * (T - p)) \div T
    <3>1. s - M \in Nat /\ t - s \in Nat /\ (s - M) + (t - s) = t - M
      BY <1>1, <2>5
    <3>2. saturating_mul(s - M, T - p) = (s - M) * (T - p)
      BY <2>1, <2>5, NoSaturation
    <3>3. RequiredTip(b, el) = M + before
      <4>1. ~(s <= M \/ p >= T)
        BY <1>1, <1>2, <1>5, <2>5
      <4> HIDE DEF s, M, T
      <4> QED
        BY <1>3, <3>2, <4>1
    <3>4. (((s - M) + (t - s)) * (T - p)) \div T <= before + (t - s)
      BY <1>1, <2>1, <3>1, PartOfSum
    <3>5. before \in Nat /\ after \in Nat
      <4>1. (s - M) * (T - p) \in Nat /\ (t - M) * (T - p) \in Nat
        BY <2>1, <3>1
      <4> QED
        BY <1>1, <4>1, DivideBounds
    <3>6. after <= before + (t - s)
      BY <3>1, <3>4
    <3> HIDE DEF before, after, s, t
    <3> QED
      BY <1>1, <2>3, <3>3, <3>5, <3>6 DEF s, t
  <2> QED
    BY <1>1, <2>4, <2>5
<1> QED
  BY <1>1, <1>2, <1>4, <1>5

(* Both together: judged earlier and on a smaller buffer, a rescue lands for  *)
(* no less than it was judged.                                                *)
THEOREM NetNeverFalls ==
  ASSUME NEW b \in Nat, NEW more \in Nat, b <= more, Payable(b), Payable(more),
         NEW el \in Nat, IsRescue(el), NEW later \in Nat, el <= later
  PROVE  /\ IsRescue(later)
         /\ KeeperShare(b) - RequiredTip(b, el) <= KeeperShare(more) - RequiredTip(more, later)
<1>1. IsRescue(later)
  BY CurveParameters DEF IsRescue
<1>2. KeeperShare(b) - RequiredTip(b, el) <= KeeperShare(more) - RequiredTip(more, el)
  BY NetRisesWithBuffer
<1>3. RequiredTip(more, later) <= RequiredTip(more, el)
  BY TipFallsWithAge
<1>4. /\ KeeperShare(b) \in Nat /\ KeeperShare(more) \in Nat
      /\ RequiredTip(b, el) \in Nat /\ RequiredTip(more, el) \in Nat
      /\ RequiredTip(more, later) \in Nat
  BY KeeperShareBounds, RequiredTipNat
<1> QED
  BY <1>1, <1>2, <1>3, <1>4

-----------------------------------------------------------------------------
(* The keeper's estimate is what a rescue landing on its snapshot would leave, *)
(* and it never finds one profitable outside the window, be its slot older    *)
(* than the escrow even.                                                      *)
THEOREM EstimateIsNet ==
  ASSUME NEW b \in Nat, Payable(b), NEW el \in Int
  PROVE  LET p == checkProfitability(b, el)
         IN /\ p.isRescueEligible = IsRescue(el)
            /\ IsRescue(el) => p.estimatedProfitLamports =
                                  KeeperShare(b) - RequiredTip(b, el) - EstimatedTxFeeLamports
            /\ p.isProfitable => /\ IsRescue(el)
                                 /\ p.estimatedProfitLamports >= MinProfitLamports
<1>1. CASE ~IsRescue(el)
  <2>1. computeRescueTip(b, el) = [isRescueEligible |-> FALSE, requiredTipLamports |-> 0]
    BY <1>1 DEF computeRescueTip, IsRescue
  <2>2. checkProfitability(b, el) =
          [isRescueEligible |-> FALSE, isProfitable |-> FALSE, estimatedProfitLamports |-> 0]
    BY <2>1 DEF checkProfitability
  <2>3. IsRescue(el) = FALSE
    BY <1>1 DEF IsRescue
  <2>4. /\ checkProfitability(b, el).isRescueEligible = FALSE
        /\ checkProfitability(b, el).isProfitable = FALSE
    BY <2>2
  <2> QED
    BY <2>3, <2>4
<1>2. CASE IsRescue(el)
  <2>1. el \in Nat
    BY <1>2, CurveParameters DEF IsRescue
  <2>2. IsRescue(el) = TRUE
    BY <1>2 DEF IsRescue
  <2>3. computeRescueTip(b, el) =
          [isRescueEligible |-> TRUE, requiredTipLamports |-> RequiredTip(b, el)]
    BY <2>1, <2>2, MirrorIsExact
  <2>4. splitShare(b, KEEPER_SHARE_BPS) = KeeperShare(b)
    BY DEF splitShare, split_share, KeeperShare
  <2> DEFINE profit == KeeperShare(b) - RequiredTip(b, el) - EstimatedTxFeeLamports
  <2>5. checkProfitability(b, el) =
          [isRescueEligible |-> TRUE, isProfitable |-> profit >= MinProfitLamports,
           estimatedProfitLamports |-> profit]
    BY <2>3, <2>4 DEF checkProfitability
  <2> HIDE DEF profit
  <2>6. /\ checkProfitability(b, el).isRescueEligible = TRUE
        /\ checkProfitability(b, el).isProfitable = (profit >= MinProfitLamports)
        /\ checkProfitability(b, el).estimatedProfitLamports = profit
    BY <2>5
  <2> QED
    BY <1>2, <2>2, <2>6 DEF profit
<1> QED
  BY <1>1, <1>2

=============================================================================
