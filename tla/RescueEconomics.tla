--------------------------- MODULE RescueEconomics ---------------------------
(***************************************************************************)
(* One escrow waiting for a rescue, as a keeper sees it: slots go by, the  *)
(* buffer may be topped up, and a bot scans now and then and remembers     *)
(* what it scanned.  The program's tip curve is TipCurve, the off-chain     *)
(* mirror of it SdkMirror: here the two are compared, and what the bot     *)
(* computed from an old snapshot with what the program demands later.      *)
(***************************************************************************)
EXTENDS SdkMirror

CONSTANTS
  Buffers,                 \* buffers an escrow may be created with
  TopUps,                  \* amounts top_up_buffer is called with
  MaxBuffer,               \* bound: no top-up takes the buffer above this
  MaxElapsed               \* bound: how many slots are watched

ASSUME EconomicsAssumption ==
  /\ Buffers \subseteq 0 .. MaxBuffer
  /\ TopUps \subseteq Nat
  /\ MaxBuffer \in Nat
  /\ MaxBuffer * TIP_DECAY_SLOTS <= MAX_U64   \* a buffer somebody can pay
  /\ MaxElapsed \in Nat

VARIABLES
  buffer,    \* escrow.gas_buffer_lamports
  elapsed,   \* clock.slot - escrow.creation_slot
  scan       \* what the bot's last pass concluded about this escrow

vars == <<buffer, elapsed, scan>>

-----------------------------------------------------------------------------
Init ==
  /\ buffer \in Buffers
  /\ elapsed = 0
  /\ scan = checkProfitability(buffer, elapsed)

SlotPasses ==
  /\ elapsed < MaxElapsed
  /\ elapsed' = elapsed + 1
  /\ UNCHANGED <<buffer, scan>>

(* top_up_buffer: anyone, while the escrow is pending. *)
TopUpBuffer(amount) ==
  /\ buffer + amount <= MaxBuffer
  /\ buffer' = buffer + amount
  /\ UNCHANGED <<elapsed, scan>>

(* One pass of the bot reads the account and the slot and decides. *)
Scan ==
  /\ scan' = checkProfitability(buffer, elapsed)
  /\ UNCHANGED <<buffer, elapsed>>

Next ==
  \/ SlotPasses
  \/ \E amount \in TopUps : TopUpBuffer(amount)
  \/ Scan

Spec == Init /\ [][Next]_vars

-----------------------------------------------------------------------------
(* What the keeper keeps of its share if its rescue lands now. *)
KeeperNet == KeeperShare(buffer) - RequiredTip(buffer, elapsed)

Tip == RequiredTip(buffer, elapsed)

(* Anti-snipe: k slots after the window opens, at most the fraction k/D of *)
(* the reward above the floor can be profit (rounded up), so nothing can be*)
(* at the first slot.  ("break-even-or-negative", execute_swap.rs 311-317) *)
EarlyRescueEarnsLittle ==
  LET extra == KeeperShare(buffer) - MIN_JITO_TIP_LAMPORTS
      progress == elapsed - TTL_SLOTS - 1
  IN IsRescue(elapsed) /\ extra > 0 /\ progress < TIP_DECAY_SLOTS =>
       TIP_DECAY_SLOTS * KeeperNet < progress * extra + TIP_DECAY_SLOTS

(* The SDK attaches exactly the tip the program asks for, in every slot    *)
(* and for every buffer: no rescue is refused for a tip computed too low,  *)
(* and none overpays.  (antiSnipe.ts mirrors execute_swap.rs 133-146)      *)
SdkMirrorsProgram ==
  /\ computeRescueTip(buffer, elapsed).requiredTipLamports = Tip
  /\ computeRescueTip(buffer, elapsed).isRescueEligible = IsRescue(elapsed)

(* The bot decides on a snapshot that is stale by the time its transaction *)
(* lands (bot.ts 45-91).  A rescue it found eligible never lands for less  *)
(* than it estimated, whatever slots and top-ups came in between.          *)
ScannedProfitIsLowerBound ==
  scan.isRescueEligible =>
    KeeperNet - EstimatedTxFeeLamports >= scan.estimatedProfitLamports

(* A tip attached for one slot is still enough at every later slot: the    *)
(* requirement never rises while a transaction is in flight, unless the    *)
(* buffer grows.                                                           *)
TipNeverRisesWhileWaiting ==
  [][buffer' = buffer /\ IsRescue(elapsed) => Tip' <= Tip]_vars

(* A top-up never makes a rescue less attractive: the keeper's net gain    *)
(* does not fall although the required tip grows with the buffer.          *)
TopUpNeverDeters ==
  [][IsRescue(elapsed) /\ buffer' > buffer /\ elapsed' = elapsed
       => KeeperNet' >= KeeperNet]_vars

=============================================================================
