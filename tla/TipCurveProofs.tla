--------------------------- MODULE TipCurveProofs ---------------------------
(* Facts about the money arithmetic, for every rate and every floor that      *)
(* TipCurve's assumptions allow.                                              *)
EXTENDS TipCurve, Functions, FiniteSetTheorems, WellFoundedInduction, TLAPS

(* Multiplication by a natural number keeps the order. *)
LEMMA MultiplyMonotone ==
  ASSUME NEW x \in Nat, NEW y \in Nat, NEW z \in Nat, y <= z
  PROVE  x * y <= x * z
OBVIOUS

(* Rounding division of a natural number. *)
LEMMA DivideBounds ==
  ASSUME NEW n \in Nat, NEW d \in Nat \ {0}
  PROVE  /\ n \div d \in Nat
         /\ d * (n \div d) <= n
         /\ n < d * (n \div d) + d
<1>1. n \div d \in Int /\ n % d \in 0 .. d - 1 /\ n = d * (n \div d) + (n % d)
  OBVIOUS
<1>2. n \div d >= 0
  BY <1>1
<1> QED
  BY <1>1, <1>2

(* Integer division is monotone in what is divided. *)
LEMMA DivideMonotone ==
  ASSUME NEW m \in Nat, NEW n \in Nat, NEW d \in Nat \ {0}, m <= n
  PROVE  m \div d <= n \div d
<1> DEFINE a == m \div d
           b == n \div d
<1>1. a \in Nat /\ b \in Nat /\ d * a <= m /\ n < d * b + d
  BY DivideBounds
<1>2. SUFFICES ASSUME b + 1 <= a PROVE FALSE
  BY <1>1
<1>3. d * (b + 1) <= d * a
  BY <1>1, <1>2, MultiplyMonotone
<1>4. d * (b + 1) = d * b + d
  BY <1>1
<1> QED
  BY <1>1, <1>3, <1>4

(* Dividing a multiple is exact. *)
LEMMA DivideOfMultiple ==
  ASSUME NEW x \in Nat, NEW d \in Nat \ {0}
  PROVE  (x * d) \div d = x
<1> DEFINE q == (x * d) \div d
<1>1. x * d \in Nat /\ x * d = d * x
  OBVIOUS
<1>2. q \in Nat /\ d * q <= d * x /\ d * x < d * q + d
  BY <1>1, DivideBounds
<1> HIDE DEF q
<1>3. CASE q + 1 <= x
  <2>1. d * (q + 1) <= d * x
    BY <1>2, <1>3, MultiplyMonotone
  <2>2. d * (q + 1) = d * q + d
    BY <1>2
  <2> QED
    BY <1>2, <2>1, <2>2
<1>4. CASE x + 1 <= q
  <2>1. d * (x + 1) <= d * q
    BY <1>2, <1>4, MultiplyMonotone
  <2>2. d * (x + 1) = d * x + d
    OBVIOUS
  <2> QED
    BY <1>2, <2>1, <2>2
<1> QED
  BY <1>2, <1>3, <1>4 DEF q

-----------------------------------------------------------------------------
(* A share is a natural number no larger than what it is a share of, and    *)
(* never rounds up.  (split_share, util.rs 6-9)                             *)
LEMMA SplitShareBounds ==
  ASSUME NEW total \in Nat, NEW bps \in 0 .. BASIS_POINTS_DIVISOR
  PROVE  /\ split_share(total, bps) \in Nat
         /\ split_share(total, bps) <= total
         /\ BASIS_POINTS_DIVISOR * split_share(total, bps) <= bps * total
<1> DEFINE D == BASIS_POINTS_DIVISOR
           s == (total * bps) \div D
<1>1. D \in Nat \ {0} /\ bps \in Nat /\ bps <= D
  BY RatesAssumption
<1>2. total * bps \in Nat /\ total * bps = bps * total
  BY <1>1
<1>3. s \in Nat /\ D * s <= total * bps
  BY <1>1, <1>2, DivideBounds
<1>4. total * bps <= total * D
  BY <1>1, MultiplyMonotone
<1>5. s <= total
  <2> SUFFICES ASSUME total + 1 <= s PROVE FALSE
    BY <1>3
  <2>1. D * (total + 1) <= D * s
    BY <1>1, <1>3, MultiplyMonotone
  <2>2. D * (total + 1) = total * D + D
    BY <1>1
  <2> QED
    BY <2>1, <2>2, <1>1, <1>2, <1>3, <1>4
<1> QED
  BY <1>2, <1>3, <1>5 DEF split_share

(* The keeper's and the partner's shares together never exceed the buffer,  *)
(* so the treasury's remainder is a natural number and the three shares are *)
(* exactly the buffer.  (execute_swap.rs 231-240)                           *)
THEOREM SharesAreTheBuffer ==
  ASSUME NEW buffer \in Nat
  PROVE  /\ KeeperShare(buffer) \in Nat
         /\ PartnerShare(buffer) \in Nat
         /\ TreasuryShare(buffer) \in Nat
         /\ KeeperShare(buffer) + PartnerShare(buffer) + TreasuryShare(buffer) = buffer
<1> DEFINE D == BASIS_POINTS_DIVISOR
           k == KeeperShare(buffer)
           p == PartnerShare(buffer)
           kb == KEEPER_SHARE_BPS
           pb == PARTNER_SHARE_BPS
<1>1. /\ D \in Nat \ {0}
      /\ kb \in 0 .. D
      /\ pb \in 0 .. D
      /\ kb + pb <= D
  BY RatesAssumption
<1>2. /\ k \in Nat /\ D * k <= kb * buffer
      /\ p \in Nat /\ D * p <= pb * buffer
  BY <1>1, SplitShareBounds DEF KeeperShare, PartnerShare
<1>3. k + p <= buffer
  <2> SUFFICES ASSUME buffer + 1 <= k + p PROVE FALSE
    BY <1>2
  <2>1. D * (buffer + 1) <= D * (k + p)
    BY <1>1, <1>2, MultiplyMonotone
  <2>2. D * (k + p) = D * k + D * p /\ D * (buffer + 1) = D * buffer + D
    BY <1>1, <1>2
  <2>3. kb * buffer + pb * buffer = buffer * (kb + pb) /\ D * buffer = buffer * D
    BY <1>1
  <2>4. buffer * (kb + pb) <= buffer * D
    BY <1>1, MultiplyMonotone
  <2>5. /\ D * k \in Nat /\ D * p \in Nat /\ kb * buffer \in Nat
        /\ pb * buffer \in Nat /\ D * buffer \in Nat
    BY <1>1, <1>2
  <2> HIDE DEF D, k, p, kb, pb
  <2> QED
    BY <2>1, <2>2, <2>3, <2>4, <2>5, <1>1, <1>2
<1> HIDE DEF k, p
<1>4. TreasuryShare(buffer) = buffer - k - p
  BY DEF TreasuryShare, k, p
<1>5. buffer - k - p \in Nat /\ k + p + (buffer - k - p) = buffer
  BY <1>2, <1>3
<1> QED
  BY <1>2, <1>4, <1>5 DEF k, p

(* The cleanup bounty is within the buffer and never above its rate. *)
LEMMA BountyBounds ==
  ASSUME NEW buffer \in Nat
  PROVE  /\ CleanupBounty(buffer) \in Nat
         /\ CleanupBounty(buffer) <= buffer
         /\ BASIS_POINTS_DIVISOR * CleanupBounty(buffer) <= CLEANUP_BOUNTY_BPS * buffer
BY RatesAssumption, SplitShareBounds DEF CleanupBounty

(* The keeper's share never exceeds its rate. *)
LEMMA KeeperShareBounds ==
  ASSUME NEW buffer \in Nat
  PROVE  /\ KeeperShare(buffer) \in Nat
         /\ KeeperShare(buffer) <= buffer
         /\ BASIS_POINTS_DIVISOR * KeeperShare(buffer) <= KEEPER_SHARE_BPS * buffer
<1>1. KEEPER_SHARE_BPS \in 0 .. BASIS_POINTS_DIVISOR
  BY RatesAssumption
<1> QED
  BY <1>1, SplitShareBounds DEF KeeperShare

-----------------------------------------------------------------------------
(* A required tip is a natural number. *)
LEMMA RequiredTipNat ==
  ASSUME NEW buffer \in Nat, NEW elapsed \in Nat
  PROVE  RequiredTip(buffer, elapsed) \in Nat
<1> DEFINE M == MIN_JITO_TIP_LAMPORTS
           T == TIP_DECAY_SLOTS
           share == KeeperShare(buffer)
           into == saturating_sub(elapsed, TTL_SLOTS)
           progress == saturating_sub(into, 1)
           product == saturating_mul(share - M, T - progress)
<1>1. M \in Nat /\ T \in Nat \ {0} /\ MAX_U64 \in Nat /\ share \in Nat
  BY TipAssumption, KeeperShareBounds
<1>2. into \in Nat /\ progress \in Nat
  BY TipAssumption DEF saturating_sub
<1> HIDE DEF share, into, progress
<1>3. ASSUME share > M, progress < T
      PROVE  product \in Nat
  <2>1. share - M \in Nat /\ T - progress \in Nat
    BY <1>1, <1>2, <1>3
  <2>2. (share - M) * (T - progress) \in Nat
    BY <2>1
  <2> QED
    BY <1>1, <2>2 DEF saturating_mul
<1> HIDE DEF product
<1>4. ASSUME share > M, progress < T
      PROVE  M + product \div T \in Nat
  BY <1>1, <1>3, <1>4, DivideBounds
<1>5. RequiredTip(buffer, elapsed) =
        IF IsRescue(elapsed)
        THEN IF share <= M \/ progress >= T THEN M ELSE M + product \div T
        ELSE 0
  BY DEF RequiredTip, anti_snipe_required_tip, share, into, progress, product
<1>6. CASE share <= M \/ progress >= T
  BY <1>1, <1>5, <1>6
<1>7. CASE share > M /\ progress < T
  BY <1>1, <1>2, <1>4, <1>5, <1>7
<1> QED
  BY <1>1, <1>2, <1>6, <1>7

(* In the first slot of the rescue window the tip is at least the keeper's   *)
(* whole share, for every buffer whose product with the decay does not       *)
(* saturate.  ("break-even-or-negative", execute_swap.rs 311-317)            *)
THEOREM FirstSlotTipIsTheShare ==
  ASSUME NEW buffer \in Nat, buffer * TIP_DECAY_SLOTS <= MAX_U64
  PROVE  KeeperShare(buffer) <= RequiredTip(buffer, TTL_SLOTS + 1)
<1> DEFINE M == MIN_JITO_TIP_LAMPORTS
           T == TIP_DECAY_SLOTS
           share == KeeperShare(buffer)
           product == saturating_mul(share - M, T)
<1>1. /\ M \in Nat /\ T \in Nat \ {0} /\ MAX_U64 \in Nat /\ TTL_SLOTS \in Nat
      /\ share \in Nat /\ share <= buffer
  BY TipAssumption, KeeperShareBounds
<1>2. /\ IsRescue(TTL_SLOTS + 1)
      /\ saturating_sub(TTL_SLOTS + 1, TTL_SLOTS) = 1
      /\ saturating_sub(1, 1) = 0
  BY <1>1 DEF IsRescue, saturating_sub
<1>3. T - 0 = T /\ ~(0 >= T)
  BY <1>1
<1> HIDE DEF share, M, T
<1>4. RequiredTip(buffer, TTL_SLOTS + 1) =
        IF share <= M THEN M ELSE M + product \div T
  BY <1>2, <1>3 DEF RequiredTip, anti_snipe_required_tip, share, M, T
<1>5. ASSUME share > M
      PROVE  product \div T = share - M
  <2> DEFINE x == share - M
  <2>1. x \in Nat /\ x <= buffer
    BY <1>1, <1>5
  <2> HIDE DEF x
  <2>2. T * x <= T * buffer /\ T * x = x * T /\ T * buffer = buffer * T
    BY <1>1, <2>1, MultiplyMonotone
  <2>3. x * T <= MAX_U64
    BY <1>1, <2>1, <2>2 DEF T
  <2>4. product = x * T
    BY <2>3 DEF saturating_mul, x
  <2>5. (x * T) \div T = x
    BY <1>1, <2>1, DivideOfMultiple
  <2> QED
    BY <2>4, <2>5 DEF x
<1> HIDE DEF product
<1>6. CASE share <= M
  BY <1>4, <1>6 DEF share
<1>7. CASE share > M
  <2>1. M + product \div T = share
    BY <1>1, <1>5, <1>7
  <2> QED
    BY <1>1, <1>4, <1>7, <2>1 DEF share
<1> QED
  BY <1>1, <1>6, <1>7

-----------------------------------------------------------------------------
(* Sums over finite sets. *)
Pick(s) == CHOOSE x \in s : TRUE

(* The function that a sum over subsets of S is recursively defined to be. *)
Adds(f, g, S) ==
  g = [s \in SUBSET S |-> IF s = {} THEN 0 ELSE f[Pick(s)] + g[s \ {Pick(s)}]]

(* Induction over the subsets of a finite set: a set of subsets that is not   *)
(* empty has one that no other is part of.                                    *)
LEMMA SmallestOne ==
  ASSUME NEW S, IsFiniteSet(S), NEW B \in SUBSET SUBSET S, B # {}
  PROVE  \E s \in B : \A t \in B : t \subseteq s => t = s
<1> DEFINE R == StrictSubsetOrdering(S)
<1>1. IsWellFoundedOn(R, FiniteSubsetsOf(S))
  BY FS_StrictSubsetOrderingWellFounded
<1>2. FiniteSubsetsOf(S) = SUBSET S
  BY FS_FiniteSubsetsOfFinite
<1>3. IsWellFoundedOn(R, SUBSET S)
  BY <1>1, <1>2
<1> HIDE DEF R
<1>4. PICK s \in B : \A t \in B : ~(<<t, s>> \in R)
  BY <1>3, WFMin
<1> QED
  BY <1>4 DEF R, StrictSubsetOrdering

(* The element a sum takes next. *)
LEMMA Picked ==
  ASSUME NEW s, s # {}
  PROVE  Pick(s) \in s
BY DEF Pick

(* What it says of one subset. *)
LEMMA AddsRec ==
  ASSUME NEW S, NEW f, NEW g, Adds(f, g, S), NEW s \in SUBSET S
  PROVE  g[s] = IF s = {} THEN 0 ELSE f[Pick(s)] + g[s \ {Pick(s)}]
BY DEF Adds

(* Two such functions agree wherever both are defined. *)
LEMMA AddsAgree ==
  ASSUME NEW S, IsFiniteSet(S), NEW T, NEW f, NEW g, NEW h,
         Adds(f, g, S), Adds(f, h, T), NEW r \in SUBSET S, r \in SUBSET T
  PROVE  g[r] = h[r]
<1> DEFINE B == {s \in SUBSET S : s \in SUBSET T /\ g[s] # h[s]}
<1> SUFFICES ASSUME B # {} PROVE FALSE
  OBVIOUS
<1>1. PICK s \in B : \A t \in B : t \subseteq s => t = s
  <2>1. B \in SUBSET SUBSET S
    OBVIOUS
  <2> HIDE DEF B
  <2> QED
    BY <2>1, SmallestOne
<1>2. /\ g[s] = IF s = {} THEN 0 ELSE f[Pick(s)] + g[s \ {Pick(s)}]
      /\ h[s] = IF s = {} THEN 0 ELSE f[Pick(s)] + h[s \ {Pick(s)}]
  BY AddsRec
<1>3. s # {} => Pick(s) \in s
  BY Picked
<1>4. s # {} => g[s \ {Pick(s)}] = h[s \ {Pick(s)}]
  BY <1>1, <1>3
<1> QED
  BY <1>2, <1>4

(* There is such a function: put together from those of the smaller subsets.  *)
LEMMA AddingExists ==
  ASSUME NEW S, IsFiniteSet(S), NEW f
  PROVE  \E g : Adds(f, g, S)
<1> DEFINE B == {s \in SUBSET S : ~\E g : Adds(f, g, s)}
           G(s) == CHOOSE g : Adds(f, g, s)
<1> SUFFICES ASSUME B # {} PROVE FALSE
  OBVIOUS
<1>1. PICK s \in B : \A t \in B : t \subseteq s => t = s
  <2>1. B \in SUBSET SUBSET S
    OBVIOUS
  <2> HIDE DEF B
  <2> QED
    BY <2>1, SmallestOne
<1>2. ASSUME NEW t \in SUBSET s, t # s
      PROVE  Adds(f, G(t), t)
  <2>1. t \notin B /\ t \in SUBSET S
    BY <1>1, <1>2
  <2> QED
    BY <2>1
<1> DEFINE total == [t \in SUBSET s |->
                       IF t = {} THEN 0 ELSE f[Pick(t)] + G(t \ {Pick(t)})[t \ {Pick(t)}]]
<1>3. ASSUME NEW t \in SUBSET s, t # s
      PROVE  total[t] = G(t)[t]
  <2>1. CASE t = {}
    BY <1>2, <1>3, <2>1, AddsRec
  <2>2. CASE t # {}
    <3> DEFINE u == t \ {Pick(t)}
    <3>1. Pick(t) \in t
      BY <2>2, Picked
    <3>2. u \in SUBSET s /\ u # s /\ u \in SUBSET t
      BY <3>1
    <3>3. Adds(f, G(t), t) /\ Adds(f, G(u), u) /\ IsFiniteSet(t)
      BY <1>2, <1>3, <3>2, FS_Subset
    <3>4. G(t)[t] = f[Pick(t)] + G(t)[u]
      BY <2>2, <3>3, AddsRec
    <3>5. G(t)[u] = G(u)[u]
      BY <3>2, <3>3, AddsAgree
    <3> QED
      BY <2>2, <3>4, <3>5
  <2> QED
    BY <2>1, <2>2
<1>4. Adds(f, total, s)
  <2>1. ASSUME NEW t \in SUBSET s, t # {}
        PROVE  total[t \ {Pick(t)}] = G(t \ {Pick(t)})[t \ {Pick(t)}]
    <3>1. Pick(t) \in t
      BY <2>1, Picked
    <3>2. t \ {Pick(t)} \in SUBSET s /\ t \ {Pick(t)} # s
      BY <3>1
    <3> QED
      BY <1>3, <3>2
  <2> DEFINE again == [t \in SUBSET s |->
                         IF t = {} THEN 0 ELSE f[Pick(t)] + total[t \ {Pick(t)}]]
  <2>2. ASSUME NEW t \in SUBSET s
        PROVE  total[t] = again[t]
    <3> DEFINE u == t \ {Pick(t)}
    <3>1. /\ total[t] = IF t = {} THEN 0 ELSE f[Pick(t)] + G(u)[u]
          /\ again[t] = IF t = {} THEN 0 ELSE f[Pick(t)] + total[u]
      OBVIOUS
    <3>2. t # {} => total[u] = G(u)[u]
      BY <2>1
    <3> HIDE DEF u, total, again
    <3> QED
      BY <3>1, <3>2
  <2>3. total = again
    <3>1. /\ total = [t \in SUBSET s |-> total[t]]
          /\ again = [t \in SUBSET s |-> again[t]]
      OBVIOUS
    <3> HIDE DEF total, again
    <3> QED
      BY <2>2, <3>1
  <2> HIDE DEF total
  <2> QED
    BY <2>3 DEF Adds
<1> QED
  BY <1>4

(* The sum of the community modules is one.                                    *)
LEMMA SumAdds ==
  ASSUME NEW S, IsFiniteSet(S), NEW f
  PROVE  \E g : Adds(f, g, S) /\ SumFunctionOnSet(f, S) = g[S]
<1> DEFINE g == CHOOSE g :
                  g = [s \in SUBSET S |->
                         IF s = {} THEN 0
                         ELSE LET x == CHOOSE x \in s : TRUE IN f[x] + g[s \ {x}]]
<1>1. SumFunctionOnSet(f, S) = g[S]
  BY DEF SumFunctionOnSet, FoldFunctionOnSet, MapThenFoldSet
<1>2. \E h : Adds(f, h, S)
  BY AddingExists
<1>3. Adds(f, g, S)
  BY <1>2 DEF Adds, Pick
<1> QED
  BY <1>1, <1>3

(* One element is added, then the rest. *)
LEMMA SumRec ==
  ASSUME NEW S, IsFiniteSet(S), NEW f
  PROVE  SumFunctionOnSet(f, S) = IF S = {} THEN 0 ELSE f[Pick(S)] + SumFunctionOnSet(f, S \ {Pick(S)})
<1>1. PICK g : Adds(f, g, S) /\ SumFunctionOnSet(f, S) = g[S]
  BY SumAdds
<1>2. IsFiniteSet(S \ {Pick(S)})
  BY FS_Subset
<1>3. PICK h : Adds(f, h, S \ {Pick(S)}) /\ SumFunctionOnSet(f, S \ {Pick(S)}) = h[S \ {Pick(S)}]
  BY <1>2, SumAdds
<1>4. g[S] = IF S = {} THEN 0 ELSE f[Pick(S)] + g[S \ {Pick(S)}]
  BY <1>1, AddsRec
<1>5. g[S \ {Pick(S)}] = h[S \ {Pick(S)}]
  BY <1>1, <1>3, AddsAgree
<1> QED
  BY <1>1, <1>3, <1>4, <1>5

(* A sum of integers is one. *)
LEMMA SumInt ==
  ASSUME NEW S, IsFiniteSet(S), NEW f, \A x \in S : f[x] \in Int
  PROVE  SumFunctionOnSet(f, S) \in Int
<1> DEFINE B == {s \in SUBSET S : SumFunctionOnSet(f, s) \notin Int}
<1> SUFFICES ASSUME B # {} PROVE FALSE
  OBVIOUS
<1>1. PICK s \in B : \A t \in B : t \subseteq s => t = s
  <2>1. B \in SUBSET SUBSET S
    OBVIOUS
  <2> HIDE DEF B
  <2> QED
    BY <2>1, SmallestOne
<1>2. IsFiniteSet(s)
  BY FS_Subset
<1>3. s # {} => Pick(s) \in s
  BY Picked
<1>4. SumFunctionOnSet(f, s) = IF s = {} THEN 0 ELSE f[Pick(s)] + SumFunctionOnSet(f, s \ {Pick(s)})
  BY <1>2, SumRec
<1>5. s # {} => SumFunctionOnSet(f, s \ {Pick(s)}) \in Int
  BY <1>1, <1>3
<1> QED
  BY <1>3, <1>4, <1>5

(* Any element may be taken out of a sum. *)
LEMMA SumWithout ==
  ASSUME NEW S, IsFiniteSet(S), NEW f, \A x \in S : f[x] \in Int, NEW x \in S
  PROVE  SumFunctionOnSet(f, S) = f[x] + SumFunctionOnSet(f, S \ {x})
<1> DEFINE B == {s \in SUBSET S : \E y \in s : SumFunctionOnSet(f, s) # f[y] + SumFunctionOnSet(f, s \ {y})}
<1> SUFFICES ASSUME B # {} PROVE FALSE
  OBVIOUS
<1>1. PICK s \in B : \A t \in B : t \subseteq s => t = s
  <2>1. B \in SUBSET SUBSET S
    OBVIOUS
  <2> HIDE DEF B
  <2> QED
    BY <2>1, SmallestOne
<1>2. PICK y \in s : SumFunctionOnSet(f, s) # f[y] + SumFunctionOnSet(f, s \ {y})
  BY <1>1
<1> DEFINE c == Pick(s)
<1>3. c \in s
  BY <1>2, Picked
<1> HIDE DEF c
<1>4. /\ SumFunctionOnSet(f, s) = f[c] + SumFunctionOnSet(f, s \ {c})
  <2>1. IsFiniteSet(s) /\ s # {}
    BY <1>2, FS_Subset
  <2> QED
    BY <2>1, SumRec DEF c
<1>5. y # c
  BY <1>2, <1>4
<1>6. ASSUME NEW z \in s, NEW w \in s, w # z
      PROVE  SumFunctionOnSet(f, s \ {z}) = f[w] + SumFunctionOnSet(f, (s \ {z}) \ {w})
  <2> DEFINE t == s \ {z}
  <2>1. t \in SUBSET S /\ t \notin B /\ w \in t
    BY <1>1, <1>6
  <2> HIDE DEF t
  <2>2. SumFunctionOnSet(f, t) = f[w] + SumFunctionOnSet(f, t \ {w})
    BY <2>1
  <2> QED
    BY <2>2 DEF t
<1>7. /\ SumFunctionOnSet(f, s \ {c}) = f[y] + SumFunctionOnSet(f, (s \ {c}) \ {y})
      /\ SumFunctionOnSet(f, s \ {y}) = f[c] + SumFunctionOnSet(f, (s \ {y}) \ {c})
  BY <1>2, <1>3, <1>5, <1>6
<1>8. (s \ {y}) \ {c} = (s \ {c}) \ {y}
  OBVIOUS
<1>9. SumFunctionOnSet(f, (s \ {c}) \ {y}) \in Int
  <2>1. IsFiniteSet((s \ {c}) \ {y}) /\ \A z \in (s \ {c}) \ {y} : f[z] \in Int
    BY FS_Subset
  <2> QED
    BY <2>1, SumInt
<1>10. f[c] \in Int /\ f[y] \in Int
  BY <1>2, <1>3
<1>11. SumFunctionOnSet(f, s) # f[y] + SumFunctionOnSet(f, s \ {y})
  BY <1>2
<1> HIDE DEF B
<1> DEFINE rest == SumFunctionOnSet(f, (s \ {c}) \ {y})
<1>12. SumFunctionOnSet(f, s) = f[c] + (f[y] + rest) /\ SumFunctionOnSet(f, s \ {y}) = f[c] + rest /\ rest \in Int
  BY <1>4, <1>7, <1>8, <1>9
<1> HIDE DEF rest
<1> QED
  BY <1>10, <1>11, <1>12

(* Larger summands, larger sum. *)
LEMMA SumMonotone ==
  ASSUME NEW S, IsFiniteSet(S), NEW f, NEW g,
         \A x \in S : f[x] \in Int /\ g[x] \in Int /\ f[x] <= g[x]
  PROVE  SumFunctionOnSet(f, S) <= SumFunctionOnSet(g, S)
<1> DEFINE B == {s \in SUBSET S : ~(SumFunctionOnSet(f, s) <= SumFunctionOnSet(g, s))}
<1> SUFFICES ASSUME B # {} PROVE FALSE
  OBVIOUS
<1>1. PICK s \in B : \A t \in B : t \subseteq s => t = s
  <2>1. B \in SUBSET SUBSET S
    OBVIOUS
  <2> HIDE DEF B
  <2> QED
    BY <2>1, SmallestOne
<1> DEFINE c == Pick(s)
<1>2. IsFiniteSet(s) /\ IsFiniteSet(s \ {c})
  BY FS_Subset
<1>3. /\ SumFunctionOnSet(f, s) = IF s = {} THEN 0 ELSE f[c] + SumFunctionOnSet(f, s \ {c})
      /\ SumFunctionOnSet(g, s) = IF s = {} THEN 0 ELSE g[c] + SumFunctionOnSet(g, s \ {c})
  BY <1>2, SumRec
<1>4. s # {} => c \in s
  BY Picked
<1> HIDE DEF c
<1>5. s # {} => SumFunctionOnSet(f, s \ {c}) <= SumFunctionOnSet(g, s \ {c})
  BY <1>1, <1>4
<1>6. SumFunctionOnSet(f, s \ {c}) \in Int /\ SumFunctionOnSet(g, s \ {c}) \in Int
  BY <1>2, SumInt
<1> QED
  BY <1>3, <1>4, <1>5, <1>6

(* More summands, larger sum. *)
LEMMA SumOfMore ==
  ASSUME NEW S, IsFiniteSet(S), NEW f, \A x \in S : f[x] \in Nat, NEW T \in SUBSET S
  PROVE  SumFunctionOnSet(f, T) <= SumFunctionOnSet(f, S)
<1> DEFINE B == {s \in SUBSET S : T \subseteq s /\ ~(SumFunctionOnSet(f, T) <= SumFunctionOnSet(f, s))}
<1> SUFFICES ASSUME B # {} PROVE FALSE
  OBVIOUS
<1>1. PICK s \in B : \A t \in B : t \subseteq s => t = s
  <2>1. B \in SUBSET SUBSET S
    OBVIOUS
  <2> HIDE DEF B
  <2> QED
    BY <2>1, SmallestOne
<1>2. IsFiniteSet(s) /\ IsFiniteSet(T) /\ SumFunctionOnSet(f, T) \in Int
  BY FS_Subset, SumInt
<1>3. s # T
  BY <1>1, <1>2
<1>4. PICK x \in s : x \notin T
  BY <1>1, <1>3
<1>5. SumFunctionOnSet(f, s) = f[x] + SumFunctionOnSet(f, s \ {x})
  BY <1>2, SumWithout
<1>6. SumFunctionOnSet(f, T) <= SumFunctionOnSet(f, s \ {x})
  BY <1>1, <1>4
<1>7. f[x] \in Nat /\ \A y \in s \ {x} : f[y] \in Int
  BY <1>1
<1>8. SumFunctionOnSet(f, s \ {x}) \in Int
  BY <1>2, <1>7, FS_Subset, SumInt
<1> QED
  BY <1>1, <1>2, <1>5, <1>6, <1>7, <1>8

(* Zeros add nothing. *)
LEMMA SumOfZeros ==
  ASSUME NEW S, IsFiniteSet(S), NEW f, \A x \in S : f[x] \in Int, NEW T \in SUBSET S,
         \A x \in S \ T : f[x] = 0
  PROVE  SumFunctionOnSet(f, S) = SumFunctionOnSet(f, T)
<1> DEFINE B == {s \in SUBSET S : T \subseteq s /\ SumFunctionOnSet(f, s) # SumFunctionOnSet(f, T)}
<1> SUFFICES ASSUME B # {} PROVE FALSE
  OBVIOUS
<1>1. PICK s \in B : \A t \in B : t \subseteq s => t = s
  <2>1. B \in SUBSET SUBSET S
    OBVIOUS
  <2> HIDE DEF B
  <2> QED
    BY <2>1, SmallestOne
<1>2. IsFiniteSet(s) /\ s # T
  BY <1>1, FS_Subset
<1>3. PICK x \in s : x \notin T
  BY <1>1, <1>2
<1>4. SumFunctionOnSet(f, s) = f[x] + SumFunctionOnSet(f, s \ {x})
  BY <1>2, SumWithout
<1>5. SumFunctionOnSet(f, s \ {x}) = SumFunctionOnSet(f, T) /\ f[x] = 0
  BY <1>1, <1>3
<1>6. SumFunctionOnSet(f, s \ {x}) \in Int
  BY <1>2, FS_Subset, SumInt
<1> QED
  BY <1>1, <1>4, <1>5, <1>6

(* Only the summands matter. *)
LEMMA SumOfSame ==
  ASSUME NEW S, IsFiniteSet(S), NEW f, NEW g,
         \A x \in S : f[x] \in Int /\ g[x] = f[x]
  PROVE  SumFunctionOnSet(g, S) = SumFunctionOnSet(f, S)
<1>1. SumFunctionOnSet(f, S) <= SumFunctionOnSet(g, S) /\ SumFunctionOnSet(g, S) <= SumFunctionOnSet(f, S)
  BY SumMonotone
<1>2. SumFunctionOnSet(f, S) \in Int /\ SumFunctionOnSet(g, S) \in Int
  BY SumInt
<1> QED
  BY <1>1, <1>2

(* A payment from one account to another changes no sum. *)
LEMMA PaymentKeepsSum ==
  ASSUME NEW S, IsFiniteSet(S), NEW f, NEW g, NEW x \in S, NEW y \in S, x # y,
         \A z \in S : f[z] \in Int /\ g[z] \in Int,
         \A z \in S \ {x, y} : g[z] = f[z],
         g[x] + g[y] = f[x] + f[y]
  PROVE  SumFunctionOnSet(g, S) = SumFunctionOnSet(f, S)
<1> DEFINE rest == (S \ {x}) \ {y}
<1>1. IsFiniteSet(S \ {x}) /\ IsFiniteSet(rest)
  BY FS_Subset
<1>2. SumFunctionOnSet(g, rest) = SumFunctionOnSet(f, rest)
  BY <1>1, SumOfSame
<1>3. /\ SumFunctionOnSet(f, S) = f[x] + SumFunctionOnSet(f, S \ {x})
      /\ SumFunctionOnSet(g, S) = g[x] + SumFunctionOnSet(g, S \ {x})
  BY SumWithout
<1>4. /\ SumFunctionOnSet(f, S \ {x}) = f[y] + SumFunctionOnSet(f, rest)
      /\ SumFunctionOnSet(g, S \ {x}) = g[y] + SumFunctionOnSet(g, rest)
  BY <1>1, SumWithout
<1>5. SumFunctionOnSet(f, rest) \in Int
  BY <1>1, SumInt
<1> HIDE DEF rest
<1> QED
  BY <1>2, <1>3, <1>4, <1>5

=============================================================================
