----------------------- MODULE RescueEconomicsProofs -----------------------
(* The escrow that waits for a rescue, for every rate, floor, decay, buffer   *)
(* and number of slots that RescueEconomics' assumptions allow.               *)
EXTENDS RescueEconomics, SdkMirrorProofs

-----------------------------------------------------------------------------
(* Every escrow a bot watches holds a payable buffer, at a natural age. *)
PayableBuffer ==
  /\ buffer \in 0 .. MaxBuffer
  /\ elapsed \in Nat

(* A buffer within the bound saturates nothing. *)
LEMMA BufferIsPayable == PayableBuffer => buffer \in Nat /\ Payable(buffer)
BY EconomicsAssumption, PayableUpTo DEF PayableBuffer

(* The buffer stays within the bound. *)
LEMMA BufferStaysPayable == Spec => []PayableBuffer
<1>1. Init => PayableBuffer
  BY EconomicsAssumption DEF Init, PayableBuffer
<1>2. PayableBuffer /\ [Next]_vars => PayableBuffer'
  <2> SUFFICES ASSUME PayableBuffer, [Next]_vars
               PROVE  PayableBuffer'
    OBVIOUS
  <2> USE DEF PayableBuffer
  <2>1. CASE SlotPasses
    BY <2>1 DEF SlotPasses
  <2>2. ASSUME NEW amount \in TopUps, TopUpBuffer(amount)
        PROVE  PayableBuffer'
    BY <2>2, EconomicsAssumption DEF TopUpBuffer
  <2>3. CASE Scan
    BY <2>3 DEF Scan
  <2>4. CASE UNCHANGED vars
    BY <2>4 DEF vars
  <2> QED
    BY <2>1, <2>2, <2>3, <2>4 DEF Next
<1> QED
  BY <1>1, <1>2, PTL DEF Spec

(* In every state of the escrow's wait the tip the SDK computes is the tip    *)
(* the program requires, and both agree on whether it is a rescue.            *)
THEOREM SdkTipIsProgramTip == Spec => []SdkMirrorsProgram
<1>1. PayableBuffer => SdkMirrorsProgram
  <2> SUFFICES ASSUME PayableBuffer
               PROVE  SdkMirrorsProgram
    OBVIOUS
  <2>1. computeRescueTip(buffer, elapsed) =
          [isRescueEligible |-> IsRescue(elapsed),
           requiredTipLamports |-> RequiredTip(buffer, elapsed)]
    BY BufferIsPayable, MirrorIsExact DEF PayableBuffer
  <2> QED
    BY <2>1 DEF SdkMirrorsProgram, Tip
<1> QED
  BY <1>1, BufferStaysPayable, PTL

(* The anti-snipe bound in every state of the wait: k slots into the window a *)
(* rescue leaves its keeper at most the fraction k/D of what it could gain.   *)
THEOREM SnipingDoesNotPay == Spec => []EarlyRescueEarnsLittle
<1>1. PayableBuffer => EarlyRescueEarnsLittle
  <2> SUFFICES ASSUME PayableBuffer, IsRescue(elapsed),
                      KeeperShare(buffer) - MIN_JITO_TIP_LAMPORTS > 0,
                      elapsed - TTL_SLOTS - 1 < TIP_DECAY_SLOTS
               PROVE  TIP_DECAY_SLOTS * KeeperNet
                        < (elapsed - TTL_SLOTS - 1) * (KeeperShare(buffer) - MIN_JITO_TIP_LAMPORTS)
                            + TIP_DECAY_SLOTS
    BY DEF EarlyRescueEarnsLittle
  <2>1. buffer \in Nat /\ Payable(buffer) /\ elapsed \in Nat
    BY BufferIsPayable DEF PayableBuffer
  <2>2. KeeperShare(buffer) > MIN_JITO_TIP_LAMPORTS
    BY <2>1, CurveParameters, KeeperShareBounds
  <2> QED
    BY <2>1, <2>2, EarlyNetIsSmall DEF KeeperNet
<1> QED
  BY <1>1, BufferStaysPayable, PTL

(* A tip attached in one slot is enough in every later one, unless the buffer *)
(* grows: waiting for a bundle to land never invalidates it.                  *)
THEOREM AttachedTipStaysEnough == Spec => TipNeverRisesWhileWaiting
<1>1. PayableBuffer /\ [Next]_vars
        => [buffer' = buffer /\ IsRescue(elapsed) => Tip' <= Tip]_vars
  <2> SUFFICES ASSUME PayableBuffer, Next, buffer' = buffer, IsRescue(elapsed)
               PROVE  Tip' <= Tip
    BY DEF vars
  <2>1. elapsed' = elapsed \/ elapsed' = elapsed + 1
    BY DEF Next, SlotPasses, TopUpBuffer, Scan
  <2>2. Tip = RequiredTip(buffer, elapsed) /\ Tip' = RequiredTip(buffer, elapsed')
    BY DEF Tip
  <2>3. CASE elapsed' = elapsed
    BY <2>2, <2>3, BufferIsPayable, RequiredTipNat DEF PayableBuffer
  <2>4. CASE elapsed' = elapsed + 1
    BY <2>2, <2>4, BufferIsPayable, TipFallsWithAge DEF PayableBuffer
  <2> QED
    BY <2>1, <2>3, <2>4
<1> QED
  BY <1>1, BufferStaysPayable, PTL DEF Spec, TipNeverRisesWhileWaiting

-----------------------------------------------------------------------------
(* One step of the wait, as far as it matters to a rescue: a payable buffer   *)
(* that does not shrink and an age that does not fall.                        *)
LEMMA WaitMovesOn ==
  PayableBuffer /\ [Next]_vars =>
    /\ buffer \in Nat /\ buffer' \in Nat /\ Payable(buffer) /\ Payable(buffer')
    /\ buffer <= buffer' /\ elapsed \in Nat /\ elapsed' \in Nat /\ elapsed <= elapsed'
<1> SUFFICES ASSUME PayableBuffer, [Next]_vars
             PROVE  /\ buffer' \in 0 .. MaxBuffer /\ buffer <= buffer'
                    /\ elapsed' \in Nat /\ elapsed <= elapsed'
  BY EconomicsAssumption, PayableUpTo DEF PayableBuffer
<1> USE DEF PayableBuffer
<1>1. CASE SlotPasses
  BY <1>1, EconomicsAssumption DEF SlotPasses
<1>2. ASSUME NEW amount \in TopUps, TopUpBuffer(amount)
      PROVE  /\ buffer' \in 0 .. MaxBuffer /\ buffer <= buffer'
             /\ elapsed' \in Nat /\ elapsed <= elapsed'
  BY <1>2, EconomicsAssumption DEF TopUpBuffer
<1>3. CASE Scan
  BY <1>3, EconomicsAssumption DEF Scan
<1>4. CASE UNCHANGED vars
  BY <1>4, EconomicsAssumption DEF vars
<1> QED
  BY <1>1, <1>2, <1>3, <1>4 DEF Next

(* Once a rescue is due, waiting never makes it worth less.                   *)
LEMMA NetOnlyRises ==
  PayableBuffer /\ [Next]_vars /\ IsRescue(elapsed) =>
    IsRescue(elapsed') /\ KeeperNet <= KeeperNet'
<1> SUFFICES ASSUME PayableBuffer, [Next]_vars, IsRescue(elapsed)
             PROVE  IsRescue(elapsed') /\ KeeperNet <= KeeperNet'
  OBVIOUS
<1>1. /\ KeeperNet = KeeperShare(buffer) - RequiredTip(buffer, elapsed)
      /\ KeeperNet' = KeeperShare(buffer') - RequiredTip(buffer', elapsed')
  BY DEF KeeperNet
<1> QED
  BY <1>1, WaitMovesOn, NetNeverFalls

(* A top-up raises the tip by no more than the keeper's share.                *)
THEOREM TopUpsAttract == Spec => TopUpNeverDeters
<1>1. PayableBuffer /\ [Next]_vars
        => [IsRescue(elapsed) /\ buffer' > buffer /\ elapsed' = elapsed
              => KeeperNet' >= KeeperNet]_vars
  <2> SUFFICES ASSUME PayableBuffer, Next, IsRescue(elapsed)
               PROVE  KeeperNet' >= KeeperNet
    OBVIOUS
  <2>1. KeeperNet <= KeeperNet'
    BY NetOnlyRises
  <2>2. /\ KeeperShare(buffer) \in Nat /\ RequiredTip(buffer, elapsed) \in Nat
        /\ KeeperShare(buffer') \in Nat /\ RequiredTip(buffer', elapsed') \in Nat
    BY WaitMovesOn, KeeperShareBounds, RequiredTipNat
  <2>3. KeeperNet \in Int /\ KeeperNet' \in Int
    BY <2>2 DEF KeeperNet
  <2> QED
    BY <2>1, <2>3
<1> QED
  BY <1>1, BufferStaysPayable, PTL DEF Spec, TopUpNeverDeters

(* What a scan found eligible still is, and is worth what it was judged. *)
ScanHolds ==
  scan.isRescueEligible =>
    /\ IsRescue(elapsed)
    /\ scan.estimatedProfitLamports \in Int
    /\ KeeperNet >= scan.estimatedProfitLamports + EstimatedTxFeeLamports

(* What a keeper nets is an integer. *)
LEMMA NetIsAnInteger ==
  /\ PayableBuffer => KeeperNet \in Int
  /\ PayableBuffer' => KeeperNet' \in Int
<1>1. ASSUME NEW b \in 0 .. MaxBuffer, NEW el \in Nat
      PROVE  KeeperShare(b) - RequiredTip(b, el) \in Int
  BY EconomicsAssumption, KeeperShareBounds, RequiredTipNat
<1> QED
  BY <1>1 DEF PayableBuffer, KeeperNet

(* A scan is true when it is made. *)
LEMMA FreshScan ==
  ASSUME PayableBuffer, NEW s, s = checkProfitability(buffer, elapsed), s.isRescueEligible
  PROVE  /\ IsRescue(elapsed)
         /\ s.estimatedProfitLamports \in Int
         /\ KeeperNet >= s.estimatedProfitLamports + EstimatedTxFeeLamports
<1>1. buffer \in Nat /\ Payable(buffer) /\ elapsed \in Nat /\ elapsed \in Int
  BY BufferIsPayable DEF PayableBuffer
<1>2. /\ s.isRescueEligible = IsRescue(elapsed)
      /\ IsRescue(elapsed) => s.estimatedProfitLamports =
            KeeperShare(buffer) - RequiredTip(buffer, elapsed) - EstimatedTxFeeLamports
  BY <1>1, EstimateIsNet
<1>3. s.estimatedProfitLamports = KeeperNet - EstimatedTxFeeLamports /\ IsRescue(elapsed)
  BY <1>2 DEF KeeperNet
<1>4. KeeperNet \in Int /\ EstimatedTxFeeLamports \in Nat
  BY NetIsAnInteger, KeeperConfigAssumption
<1> QED
  BY <1>3, <1>4

(* A rescue the bot judged on a snapshot lands for at least its estimate,     *)
(* whatever slots and top-ups came in between.                                *)
THEOREM ScansStayTrue == Spec => []ScannedProfitIsLowerBound
<1>1. Init => ScanHolds
  <2>1. Init => PayableBuffer
    BY EconomicsAssumption DEF Init, PayableBuffer
  <2> QED
    BY <2>1, FreshScan DEF Init, ScanHolds
<1>2. PayableBuffer /\ PayableBuffer' /\ ScanHolds /\ [Next]_vars => ScanHolds'
  <2> SUFFICES ASSUME PayableBuffer, PayableBuffer', ScanHolds, [Next]_vars
               PROVE  ScanHolds'
    OBVIOUS
  <2>1. CASE Scan
    <3>1. scan' = checkProfitability(buffer, elapsed) /\ buffer' = buffer /\ elapsed' = elapsed
      BY <2>1 DEF Scan
    <3>2. KeeperNet' = KeeperNet
      BY <3>1 DEF KeeperNet
    <3> QED
      BY <3>1, <3>2, FreshScan DEF ScanHolds
  <2>2. CASE scan' = scan
    <3> SUFFICES ASSUME scan.isRescueEligible
                 PROVE  /\ IsRescue(elapsed')
                        /\ scan.estimatedProfitLamports \in Int
                        /\ KeeperNet' >= scan.estimatedProfitLamports + EstimatedTxFeeLamports
      BY <2>2 DEF ScanHolds
    <3>1. /\ IsRescue(elapsed)
          /\ scan.estimatedProfitLamports \in Int
          /\ KeeperNet >= scan.estimatedProfitLamports + EstimatedTxFeeLamports
      BY DEF ScanHolds
    <3>2. IsRescue(elapsed') /\ KeeperNet <= KeeperNet'
      BY <3>1, NetOnlyRises
    <3>3. KeeperNet \in Int
      BY NetIsAnInteger
    <3>4. KeeperNet' \in Int
      BY NetIsAnInteger
    <3> QED
      BY <3>1, <3>2, <3>3, <3>4, KeeperConfigAssumption
  <2> QED
    BY <2>1, <2>2 DEF Next, SlotPasses, TopUpBuffer, vars
<1>3. PayableBuffer /\ ScanHolds => ScannedProfitIsLowerBound
  <2> SUFFICES ASSUME PayableBuffer, ScanHolds, scan.isRescueEligible
               PROVE  KeeperNet - EstimatedTxFeeLamports >= scan.estimatedProfitLamports
    BY DEF ScannedProfitIsLowerBound
  <2> QED
    BY NetIsAnInteger, KeeperConfigAssumption DEF ScanHolds
<1> QED
  BY <1>1, <1>2, <1>3, BufferStaysPayable, PTL DEF Spec

=============================================================================
