---------------------------- MODULE KeeperProofs ----------------------------
(***************************************************************************)
(* What a bot sends, wins and reports, for any number of bots, escrows,    *)
(* top-ups and slots, any lag of the node, any buffer somebody can pay.    *)
(*                                                                         *)
(* The argument follows a rescue from the snapshot to the report.  What it *)
(* was judged worth is a lower bound (NetNeverFalls) at the snapshot, when *)
(* the client has read the escrow, when it has read the slot and fixed the *)
(* tip, and at the landing; in between an account only moves on: it keeps  *)
(* its creation slot, its buffer grows, or it is closed for good.          *)
(***************************************************************************)
EXTENDS Keeper, SdkMirrorProofs, TLAPS

-----------------------------------------------------------------------------
(* Types. *)
PayableBuffers == 0 .. MaxBuffer

Accounts == [status : {"fresh", "pending", "closed"}, buffer : PayableBuffers, creation : Nat]

TypeOK ==
  /\ slot \in Nat /\ rpcSlot \in Nat /\ rpcSlot <= slot
  /\ \A e \in Escrows : order[e].buffer \in PayableBuffers
  /\ account \in [Escrows -> Accounts]
  /\ fate \in [Escrows -> Fate]
  /\ network \subseteq [by : Clients, escrow : Escrows, tip : Nat, basis : PayableBuffers,
                        awaited : BOOLEAN]
  /\ call \in [Clients -> [step : Step, escrow : Escrows, tip : Nat, basis : PayableBuffers]]
  /\ bot \in [Bots -> [mode : Mode, at : Nat,
                       todo : SUBSET [escrow : Escrows, buffer : PayableBuffers, creation : Nat],
                       escrow : Escrows, estimate : Int]]
  /\ claims \subseteq [by : Bots, escrow : Escrows, profit : Int]

(* What the assumptions say of the constants. *)
LEMMA ClientParameters ==
  /\ MaxBuffer \in Nat /\ MaxSlot \in Nat /\ SlotLag \in Nat
  /\ TopUps \subseteq Nat
  /\ EstimatedTxFeeLamports \in Nat /\ MinProfitLamports \in Nat
  /\ "nobody" \notin Clients /\ "rival" \notin Clients /\ "user" \notin Clients
  /\ AnyEscrow \in Escrows
BY ClientAssumption, KeeperConfigAssumption DEF AnyEscrow

(* A buffer within the bound saturates nothing. *)
LEMMA PayableBuffersArePayable ==
  ASSUME NEW b \in PayableBuffers
  PROVE  b \in Nat /\ Payable(b)
<1>1. MaxBuffer * TIP_DECAY_SLOTS <= MAX_U64
  BY ClientSupplyAssumption
<1> QED
  BY <1>1, ClientParameters, PayableUpTo DEF PayableBuffers

(* Inside the rescue window the SDK computes the program's tip. *)
LEMMA SdkTip ==
  ASSUME NEW b \in PayableBuffers, NEW el \in Int
  PROVE  /\ IsRescue(el) => /\ computeRescueTip(b, el).requiredTipLamports = RequiredTip(b, el)
                            /\ RequiredTip(b, el) \in Nat
         /\ computeRescueTip(b, el).requiredTipLamports \in Nat
<1>1. b \in Nat /\ Payable(b)
  BY PayableBuffersArePayable
<1>2. CASE IsRescue(el)
  <2>1. el \in Nat
    BY <1>2, CurveParameters DEF IsRescue
  <2>2. computeRescueTip(b, el) =
          [isRescueEligible |-> IsRescue(el), requiredTipLamports |-> RequiredTip(b, el)]
    BY <1>1, <2>1, MirrorIsExact
  <2>3. RequiredTip(b, el) \in Nat
    BY <1>1, <2>1, RequiredTipNat
  <2>4. computeRescueTip(b, el).requiredTipLamports = RequiredTip(b, el)
    BY <2>2
  <2> QED
    BY <2>3, <2>4
<1>3. CASE ~IsRescue(el)
  <2>1. computeRescueTip(b, el) = [isRescueEligible |-> FALSE, requiredTipLamports |-> 0]
    BY <1>3 DEF computeRescueTip, IsRescue
  <2> QED
    BY <1>3, <2>1
<1> QED
  BY <1>2, <1>3

(* What a favourable judgement says of the share and the tip. *)
LEMMA JudgedEstimate ==
  ASSUME NEW b \in PayableBuffers, NEW el \in Int, checkProfitability(b, el).isProfitable
  PROVE  LET estimate == checkProfitability(b, el).estimatedProfitLamports
         IN /\ IsRescue(el) /\ estimate \in Int
            /\ estimate >= MinProfitLamports
            /\ KeeperShare(b) - RequiredTip(b, el) = estimate + EstimatedTxFeeLamports
<1>1. b \in Nat /\ Payable(b)
  BY PayableBuffersArePayable
<1>2. IsRescue(el) /\ checkProfitability(b, el).estimatedProfitLamports >= MinProfitLamports
  BY <1>1, EstimateIsNet
<1>3. checkProfitability(b, el).estimatedProfitLamports =
        KeeperShare(b) - RequiredTip(b, el) - EstimatedTxFeeLamports
  BY <1>1, <1>2, EstimateIsNet
<1>4. el \in Nat
  BY <1>2, CurveParameters DEF IsRescue
<1>5. KeeperShare(b) \in Nat /\ RequiredTip(b, el) \in Nat /\ EstimatedTxFeeLamports \in Nat
  BY <1>1, <1>4, KeeperShareBounds, RequiredTipNat, ClientParameters
<1> QED
  BY <1>2, <1>3, <1>5

(* The types hold at the start. *)
LEMMA TypesInitially == Init => TypeOK
<1> SUFFICES ASSUME Init
             PROVE  TypeOK
  OBVIOUS
<1> USE DEF Init, ClientInit
<1>1. \A e \in Escrows : order[e].buffer \in PayableBuffers
  BY ClientAssumption, ClientSupplyAssumption DEF PayableBuffers
<1>2. NoCall \in [step : Step, escrow : Escrows, tip : Nat, basis : PayableBuffers]
  BY ClientParameters DEF NoCall, Step, PayableBuffers
<1>3. Asleep \in [mode : Mode, at : Nat,
                  todo : SUBSET [escrow : Escrows, buffer : PayableBuffers, creation : Nat],
                  escrow : Escrows, estimate : Int]
  BY ClientParameters DEF Asleep, Mode
<1>4. NoFate \in Fate
  BY DEF NoFate, Fate
<1>5. [status |-> "fresh", buffer |-> 0, creation |-> 0] \in Accounts
  BY ClientParameters DEF Accounts, PayableBuffers
<1> QED
  BY <1>1, <1>2, <1>3, <1>4, <1>5 DEF TypeOK

(* Closing an escrow, by whatever instruction. *)
LEMMA CloseKeepsTypes ==
  ASSUME TypeOK, NEW e, NEW how, NEW by, NEW earned, Close(e, how, by, earned),
         [how |-> how, by |-> by, earned |-> earned] \in Fate
  PROVE  account' \in [Escrows -> Accounts] /\ fate' \in [Escrows -> Fate]
<1>1. [status |-> "closed", buffer |-> 0, creation |-> 0] \in Accounts
  BY ClientParameters DEF Accounts, PayableBuffers
<1> QED
  BY <1>1 DEF TypeOK, Close

(* Steps of others on the chain keep the types. *)
LEMMA ChainKeepsTypes ==
  ASSUME TypeOK, ChainStep, UNCHANGED keeperVars
  PROVE  TypeOK'
<1> USE DEF keeperVars
<1>1. CASE NextSlot
  BY <1>1, ClientParameters DEF NextSlot, TypeOK, Bots
<1>2. CASE NodeCatchesUp
  BY <1>2 DEF NodeCatchesUp, TypeOK, Bots
<1>3. CASE CalmDown
  BY <1>3 DEF CalmDown, TypeOK, Bots
<1>4. ASSUME NEW e \in Escrows, topUpBuffer(e)
      PROVE  TypeOK'
  <2>1. PICK amount \in TopUps :
          /\ account[e].buffer + amount <= MaxBuffer
          /\ account' = [account EXCEPT ![e].buffer = @ + amount]
    BY <1>4 DEF topUpBuffer
  <2>2. account[e] \in Accounts
    BY DEF TypeOK
  <2>3. [account[e] EXCEPT !.buffer = account[e].buffer + amount] \in Accounts
    BY <2>1, <2>2, ClientParameters DEF Accounts, PayableBuffers
  <2>4. account' \in [Escrows -> Accounts]
    BY <2>1, <2>3 DEF TypeOK
  <2> QED
    BY <1>4, <2>4 DEF topUpBuffer, TypeOK, Bots
<1>5. ASSUME NEW e \in Escrows, selfRescue(e)
      PROVE  TypeOK'
  <2>1. account' \in [Escrows -> Accounts] /\ fate' \in [Escrows -> Fate]
    BY <1>5, CloseKeepsTypes DEF selfRescue, Fate
  <2> QED
    BY <1>5, <2>1 DEF selfRescue, TypeOK, Bots
<1>6. ASSUME NEW e \in Escrows, cleanupExpiredEscrow(e)
      PROVE  TypeOK'
  <2>1. account' \in [Escrows -> Accounts] /\ fate' \in [Escrows -> Fate]
    BY <1>6, CloseKeepsTypes DEF cleanupExpiredEscrow, Fate
  <2> QED
    BY <1>6, <2>1 DEF cleanupExpiredEscrow, TypeOK, Bots
<1>7. ASSUME NEW e \in Escrows, RivalSwap(e)
      PROVE  TypeOK'
  <2>1. account' \in [Escrows -> Accounts] /\ fate' \in [Escrows -> Fate]
    BY <1>7, CloseKeepsTypes DEF RivalSwap, Fate
  <2> QED
    BY <1>7, <2>1 DEF RivalSwap, TypeOK, Bots
<1> QED
  BY <1>1, <1>2, <1>3, <1>4, <1>5, <1>6, <1>7 DEF ChainStep

(* Opening an escrow keeps the types. *)
LEMMA InitializeKeepsTypes ==
  ASSUME TypeOK, NEW e \in Escrows, initializeEscrow(e), UNCHANGED keeperVars
  PROVE  TypeOK'
<1>1. [status |-> "pending", buffer |-> order[e].buffer, creation |-> slot] \in Accounts
  BY DEF TypeOK, Accounts
<1>2. account' \in [Escrows -> Accounts]
  BY <1>1 DEF initializeEscrow, Opened, TypeOK
<1> QED
  BY <1>2 DEF initializeEscrow, TypeOK, keeperVars, Bots

(* Landing, refusing and dropping keep the types. *)
LEMMA NetworkKeepsTypes ==
  ASSUME TypeOK, NetworkStep, UNCHANGED keeperVars
  PROVE  TypeOK'
<1> PICK tx \in network : Land(tx) \/ Refuse(tx) \/ Expire(tx)
  BY DEF NetworkStep
<1>1. /\ tx.by \in Clients /\ tx.tip \in Nat
      /\ network' = network \ {tx}
      /\ call' \in [Clients -> [step : Step, escrow : Escrows, tip : Nat, basis : PayableBuffers]]
  BY DEF TypeOK, Land, Refuse, Expire, Leaves, StepTo, Step
<1>2. CASE Land(tx)
  <2>1. tx.escrow \in Escrows
    BY DEF TypeOK
  <2>2. KeeperShare(account[tx.escrow].buffer) - tx.tip \in Int
    <3>1. account[tx.escrow].buffer \in Nat
      BY <2>1, PayableBuffersArePayable DEF TypeOK, Accounts
    <3>2. KeeperShare(account[tx.escrow].buffer) \in Nat
      BY <3>1, KeeperShareBounds
    <3> QED
      BY <1>1, <3>2
  <2>3. /\ [how |-> "rescue", by |-> tx.by,
            earned |-> KeeperShare(account[tx.escrow].buffer) - tx.tip] \in Fate
        /\ [how |-> "ordinary", by |-> tx.by, earned |-> 0 - tx.tip] \in Fate
    BY <1>1, <2>2 DEF Fate
  <2>4. account' \in [Escrows -> Accounts] /\ fate' \in [Escrows -> Fate]
    BY <1>2, <2>3, CloseKeepsTypes DEF Land
  <2> QED
    BY <1>1, <1>2, <2>4 DEF Land, TypeOK, keeperVars, Bots
<1>3. CASE Refuse(tx) \/ Expire(tx)
  BY <1>1, <1>3 DEF Refuse, Expire, chainVars, TypeOK, keeperVars, Bots
<1> QED
  BY <1>2, <1>3

(* Steps of an SDK call keep the types. *)
LEMMA ClientKeepsTypes ==
  ASSUME TypeOK, NEW c \in Clients, ClientStep(c), UNCHANGED keeperVars
  PROVE  TypeOK'
<1> DEFINE CallType == [step : Step, escrow : Escrows, tip : Nat, basis : PayableBuffers]
           TxType == [by : Clients, escrow : Escrows, tip : Nat, basis : PayableBuffers,
                      awaited : BOOLEAN]
<1>1. /\ call[c] \in CallType
      /\ account[call[c].escrow] \in Accounts
      /\ rpcSlot - account[call[c].escrow].creation \in Int
  BY DEF TypeOK, Accounts
<1>2. TxOf(c, TRUE) \in TxType /\ TxOf(c, FALSE) \in TxType
  BY <1>1 DEF TxOf
<1>3. call' \in [Clients -> CallType]
  <2>1. CASE ReadEscrow(c)
    BY <1>1, <2>1 DEF ReadEscrow, TypeOK, Step, Accounts
  <2>2. CASE ReadSlot(c)
    <3>1. computeRescueTip(call[c].basis,
             rpcSlot - account[call[c].escrow].creation).requiredTipLamports \in Nat
      BY <1>1, SdkTip
    <3> QED
      BY <2>2, <3>1 DEF ReadSlot, TypeOK, Step
  <2>3. CASE ReadAgain(c) \/ ReadThrows(c) \/ Send(c) \/ Confirm(c) \/ GiveUp(c)
    <3>1. PICK step \in Step : StepTo(c, step)
      BY <2>3 DEF ReadAgain, ReadThrows, Send, Confirm, GiveUp, Step
    <3> QED
      BY <3>1 DEF StepTo, TypeOK
  <2> QED
    BY <2>1, <2>2, <2>3 DEF ClientStep
<1>4. network' \subseteq TxType
  <2>1. CASE Send(c) \/ GiveUp(c)
    BY <1>2, <2>1 DEF Send, GiveUp, TypeOK
  <2>2. CASE ReadEscrow(c) \/ ReadSlot(c) \/ ReadAgain(c) \/ ReadThrows(c) \/ Confirm(c)
    BY <2>2 DEF ReadEscrow, ReadSlot, ReadAgain, ReadThrows, Confirm, TypeOK
  <2> QED
    BY <2>1, <2>2 DEF ClientStep
<1>5. UNCHANGED chainVars
  BY DEF ClientStep, ReadEscrow, ReadSlot, ReadAgain, ReadThrows, Send, Confirm, GiveUp
<1> QED
  BY <1>3, <1>4, <1>5 DEF TypeOK, chainVars, keeperVars, Bots

(* Steps of a bot keep the types. *)
LEMMA BotKeepsTypes ==
  ASSUME TypeOK, NEW b \in Bots, BotStep(b)
  PROVE  TypeOK'
<1> DEFINE CallType == [step : Step, escrow : Escrows, tip : Nat, basis : PayableBuffers]
           SnapshotType == [escrow : Escrows, buffer : PayableBuffers, creation : Nat]
           BotType == [mode : Mode, at : Nat, todo : SUBSET SnapshotType,
                       escrow : Escrows, estimate : Int]
           ClaimType == [by : Bots, escrow : Escrows, profit : Int]
<1>1. bot[b] \in BotType /\ call \in [Clients -> CallType] /\ claims \subseteq ClaimType
  BY DEF TypeOK
<1>2. Asleep \in BotType /\ NextOne(b) \in BotType
  <2>1. Asleep \in BotType
    BY ClientParameters DEF Asleep, Mode
  <2>2. NextOne(b) \in BotType
    <3> DEFINE Todo == SUBSET SnapshotType
    <3>1. bot[b] \in [mode : Mode, at : Nat, todo : Todo, escrow : Escrows, estimate : Int]
      BY <1>1
    <3> HIDE DEF Todo
    <3> DEFINE Moved == [bot[b] EXCEPT !.mode = "passing"]
               Left == [Moved EXCEPT !.escrow = AnyEscrow]
    <3>2. NextOne(b) = [Left EXCEPT !.estimate = 0]
      BY DEF NextOne
    <3>3. Moved \in [mode : Mode, at : Nat, todo : Todo, escrow : Escrows, estimate : Int]
      BY <3>1 DEF Mode
    <3> HIDE DEF Moved
    <3>4. Left \in [mode : Mode, at : Nat, todo : Todo, escrow : Escrows, estimate : Int]
      BY <3>3, ClientParameters
    <3> HIDE DEF Left
    <3>5. NextOne(b) \in [mode : Mode, at : Nat, todo : Todo, escrow : Escrows, estimate : Int]
      BY <3>2, <3>4
    <3> QED
      BY <3>5 DEF Todo
  <2> QED
    BY <2>1, <2>2
<1>3. bot' \in [Bots -> BotType]
  <2>1. CASE Scan(b)
    <3>1. {[escrow |-> e, buffer |-> account[e].buffer, creation |-> account[e].creation] :
             e \in {e \in Escrows : Pending(e)}} \subseteq SnapshotType
      BY DEF TypeOK, Accounts
    <3> QED
      BY <2>1, <3>1 DEF Scan, TypeOK, Mode
  <2>2. CASE ReadScanSlot(b)
    BY <2>2 DEF ReadScanSlot, TypeOK, Mode
  <2>3. ASSUME NEW s \in bot[b].todo, Skip(b, s)
        PROVE  bot' \in [Bots -> BotType]
    <3>1. bot[b].todo \ {s} \in SUBSET SnapshotType
      BY <1>1
    <3> QED
      BY <2>3, <3>1 DEF Skip, TypeOK
  <2>4. ASSUME NEW s \in bot[b].todo, Attempt(b, s)
        PROVE  bot' \in [Bots -> BotType]
    <3>1. bot[b].todo \ {s} \in SUBSET SnapshotType /\ s \in SnapshotType
      BY <1>1
    <3>2. s.buffer \in PayableBuffers /\ bot[b].at - s.creation \in Int
      BY <1>1, <3>1
    <3>3. Estimate(b, s) \in Int
      BY <2>4, <3>2, JudgedEstimate DEF Attempt, Judged, Estimate
    <3> QED
      BY <2>4, <3>1, <3>3 DEF Attempt, TypeOK, Mode
  <2>5. CASE ScanThrows(b) \/ ReportRescued(b) \/ Recheck(b) \/ PassDone(b)
    <3>1. bot' = [bot EXCEPT ![b] = Asleep] \/ bot' = [bot EXCEPT ![b] = NextOne(b)]
      BY <2>5 DEF ScanThrows, ReportRescued, Recheck, PassDone
    <3> HIDE DEF BotType
    <3>2. bot \in [Bots -> BotType]
      BY DEF TypeOK, BotType
    <3> QED
      BY <1>2, <3>1, <3>2
  <2>6. CASE BuildRoute(b) \/ BuildThrows(b) \/ CallThrew(b)
    <3>1. PICK m \in Mode : bot' = [bot EXCEPT ![b].mode = m]
      BY <2>6 DEF BuildRoute, BuildThrows, CallThrew, Mode
    <3> HIDE DEF SnapshotType
    <3>2. bot \in [Bots -> BotType]
      BY DEF TypeOK, SnapshotType
    <3> QED
      BY <3>1, <3>2
  <2> QED
    BY <2>1, <2>2, <2>3, <2>4, <2>5, <2>6 DEF BotStep
<1>4. call' \in [Clients -> CallType]
  <2>1. CASE BuildRoute(b)
    BY <1>1, <2>1, ClientParameters DEF BuildRoute, Begin, Step, PayableBuffers, Bots
  <2>2. CASE ReportRescued(b) \/ CallThrew(b)
    <3>1. NoCall \in CallType
      BY ClientParameters DEF NoCall, Step, PayableBuffers
    <3> QED
      BY <1>1, <2>2, <3>1 DEF ReportRescued, CallThrew, Returned
  <2>3. CASE UNCHANGED clientVars
    BY <1>1, <2>3 DEF clientVars
  <2> QED
    BY <2>1, <2>2, <2>3 DEF BotStep, Scan, ReadScanSlot, ScanThrows, Skip, Attempt, BuildThrows,
                            Recheck, PassDone
<1>5. claims' \subseteq ClaimType
  <2>1. CASE ReportRescued(b)
    BY <1>1, <2>1 DEF ReportRescued
  <2>2. CASE UNCHANGED claims
    BY <1>1, <2>2
  <2> QED
    BY <2>1, <2>2 DEF BotStep, Scan, ReadScanSlot, ScanThrows, Skip, Attempt, BuildRoute,
                      BuildThrows, CallThrew, Recheck, PassDone
<1>6. UNCHANGED <<chainVars, network>>
  BY DEF BotStep, Scan, ReadScanSlot, ScanThrows, Skip, Attempt, BuildRoute, BuildThrows,
         ReportRescued, CallThrew, Recheck, PassDone, clientVars
<1> QED
  BY <1>3, <1>4, <1>5, <1>6 DEF TypeOK, chainVars

(* The types of the state, for any number of bots and escrows. *)
LEMMA KeeperTypes == Spec => []TypeOK
<1>1. TypeOK /\ [Next]_vars => TypeOK'
  <2> SUFFICES ASSUME TypeOK, [Next]_vars
               PROVE  TypeOK'
    OBVIOUS
  <2>1. CASE UNCHANGED vars
    BY <2>1 DEF vars, clientVars, chainVars, keeperVars, TypeOK, Bots
  <2> QED
    BY <2>1, ChainKeepsTypes, InitializeKeepsTypes, NetworkKeepsTypes, ClientKeepsTypes,
       BotKeepsTypes DEF Next, Bots
<1> QED
  BY <1>1, TypesInitially, PTL DEF Spec

-----------------------------------------------------------------------------
(* The inductive invariant.  Each part says what is known of an account, now  *)
(* and whatever becomes of it.                                                *)

(* What may become of an account in one step. *)
MovesOn(acc, next) ==
  acc.status # "fresh" =>
    /\ next.status # "fresh"
    /\ next.status = "pending" =>
         /\ acc.status = "pending"
         /\ next.creation = acc.creation
         /\ acc.buffer <= next.buffer

(* A snapshot of an account, of a slot long gone perhaps. *)
Snapped(s, acc) ==
  /\ acc.status # "fresh"
  /\ acc.status = "pending" => acc.creation = s.creation /\ s.buffer <= acc.buffer

(* A rescue with the tip of the slot seen leaves gain, on this buffer or an   *)
(* earlier reading of it.                                                     *)
Worth(acc, seen, basis, gain) ==
  /\ acc.status # "fresh"
  /\ acc.status = "pending" =>
       /\ IsRescue(seen - acc.creation)
       /\ basis <= acc.buffer
       /\ KeeperShare(basis) - RequiredTip(basis, seen - acc.creation) >= gain

(* So does one that carries this tip. *)
Covered(acc, now, tip, basis, gain) ==
  /\ acc.status # "fresh"
  /\ acc.status = "pending" =>
       /\ IsRescue(now - acc.creation)
       /\ basis <= acc.buffer
       /\ tip >= MIN_JITO_TIP_LAMPORTS
       /\ tip >= RequiredTip(basis, now - acc.creation)
       /\ KeeperShare(basis) - tip >= gain

(* It did. *)
RescuedBy(ft, b, gain) == ft.how = "rescue" /\ ft.by = b /\ ft.earned >= gain

(* A call of the bot, by how far it has come. *)
OnTheWay(cl, acc, ft, now, seen, b, gain) ==
  /\ cl.step = "readEscrow" => \E basis \in PayableBuffers : Worth(acc, seen, basis, gain)
  /\ cl.step = "readSlot" => Worth(acc, seen, cl.basis, gain)
  /\ cl.step \in {"readAgain", "send", "confirm"} => Covered(acc, now, cl.tip, cl.basis, gain)
  /\ cl.step \in {"send", "confirm"} => cl.tip >= MIN_JITO_TIP_LAMPORTS
  /\ cl.step \in {"landed", "executed"} => acc.status = "closed" /\ RescuedBy(ft, b, gain)

Least == MinProfitLamports + EstimatedTxFeeLamports

Gain(b) == bot[b].estimate + EstimatedTxFeeLamports

BotOK(b) ==
  /\ bot[b].at <= rpcSlot
  /\ \A s \in bot[b].todo : Snapped(s, account[s.escrow])
  /\ bot[b].mode \in {"building", "trying"} => bot[b].estimate >= MinProfitLamports
  /\ bot[b].mode = "building" =>
       \E basis \in PayableBuffers : Worth(account[bot[b].escrow], rpcSlot, basis, Gain(b))
  /\ bot[b].mode # "trying" => call[b].step = "idle"
  /\ bot[b].mode = "trying" =>
       /\ call[b].step # "idle"
       /\ call[b].escrow = bot[b].escrow
       /\ OnTheWay(call[b], account[bot[b].escrow], fate[bot[b].escrow], slot, rpcSlot, b, Gain(b))

SentOK(tx) ==
  /\ Covered(account[tx.escrow], slot, tx.tip, tx.basis, Least)
  /\ tx.tip >= MIN_JITO_TIP_LAMPORTS
  /\ tx.awaited => call[tx.by].step = "confirm" /\ tx = TxOf(tx.by, TRUE)

FateOK(e) == fate[e].by \in Bots => RescuedBy(fate[e], fate[e].by, Least)

ClaimOK(c) ==
  /\ account[c.escrow].status = "closed"
  /\ RescuedBy(fate[c.escrow], c.by, c.profit + EstimatedTxFeeLamports)

RescueInv ==
  /\ \A b \in Bots : BotOK(b)
  /\ \A tx \in network : SentOK(tx)
  /\ \A e \in Escrows : FateOK(e)
  /\ \A c \in claims : ClaimOK(c)

-----------------------------------------------------------------------------
(* Facts about one account that moves on, while slots pass. *)
LEMMA MovesOnFromClosed ==
  ASSUME NEW acc \in Accounts, NEW next \in Accounts, MovesOn(acc, next), acc.status = "closed"
  PROVE  next.status = "closed"
BY DEF MovesOn, Accounts

(* A snapshot stays true as its escrow moves on. *)
LEMMA SnappedStays ==
  ASSUME NEW acc \in Accounts, NEW next \in Accounts, MovesOn(acc, next),
         NEW s, s.buffer \in Nat, Snapped(s, acc)
  PROVE  Snapped(s, next)
BY DEF Snapped, MovesOn, Accounts, PayableBuffers

(* A rescue stays worth its while as its escrow moves on and time passes. *)
LEMMA WorthStays ==
  ASSUME NEW acc \in Accounts, NEW next \in Accounts, MovesOn(acc, next),
         NEW seen \in Nat, NEW later \in Nat, seen <= later,
         NEW basis \in PayableBuffers, NEW gain \in Int, Worth(acc, seen, basis, gain)
  PROVE  Worth(next, later, basis, gain)
<1>1. next.status # "fresh"
  BY DEF MovesOn, Worth
<1>2. CASE next.status = "pending"
  <2> DEFINE el == seen - acc.creation
             el2 == later - acc.creation
  <2>1. /\ acc.status = "pending" /\ next.creation = acc.creation /\ acc.buffer <= next.buffer
        /\ acc.creation \in Nat /\ acc.buffer \in Int /\ next.buffer \in Int
    BY <1>2 DEF MovesOn, Worth, Accounts, PayableBuffers
  <2>2. /\ IsRescue(el) /\ basis <= acc.buffer
        /\ KeeperShare(basis) - RequiredTip(basis, el) >= gain
    BY <2>1 DEF Worth
  <2>3. basis \in Nat /\ Payable(basis)
    BY PayableBuffersArePayable
  <2>4. el \in Nat /\ el2 \in Nat /\ el <= el2
    BY <2>1, <2>2, CurveParameters DEF IsRescue
  <2>5. RequiredTip(basis, el2) <= RequiredTip(basis, el)
    BY <2>2, <2>3, <2>4, TipFallsWithAge
  <2>6. /\ KeeperShare(basis) \in Nat /\ RequiredTip(basis, el) \in Nat
        /\ RequiredTip(basis, el2) \in Nat
    BY <2>3, <2>4, KeeperShareBounds, RequiredTipNat
  <2>7. IsRescue(el2)
    BY <2>2, <2>4, CurveParameters DEF IsRescue
  <2>8. KeeperShare(basis) - RequiredTip(basis, el2) >= gain
    BY <2>2, <2>5, <2>6
  <2>9. basis <= next.buffer
    BY <2>1, <2>2, <2>3
  <2> QED
    BY <1>1, <2>1, <2>7, <2>8, <2>9 DEF Worth
<1> QED
  BY <1>1, <1>2 DEF Worth

(* A tip that covers goes on covering as its escrow moves on and time       *)
(* passes.                                                                  *)
LEMMA CoveredStays ==
  ASSUME NEW acc \in Accounts, NEW next \in Accounts, MovesOn(acc, next),
         NEW now \in Nat, NEW later \in Nat, now <= later,
         NEW tip \in Nat, NEW basis \in PayableBuffers, NEW gain \in Int,
         Covered(acc, now, tip, basis, gain)
  PROVE  Covered(next, later, tip, basis, gain)
<1>1. next.status # "fresh"
  BY DEF MovesOn, Covered
<1>2. CASE next.status = "pending"
  <2> DEFINE el == now - acc.creation
             el2 == later - acc.creation
  <2>1. /\ acc.status = "pending" /\ next.creation = acc.creation /\ acc.buffer <= next.buffer
        /\ acc.creation \in Nat /\ acc.buffer \in Int /\ next.buffer \in Int
    BY <1>2 DEF MovesOn, Covered, Accounts, PayableBuffers
  <2>2. /\ IsRescue(el) /\ basis <= acc.buffer /\ tip >= MIN_JITO_TIP_LAMPORTS
        /\ tip >= RequiredTip(basis, el) /\ KeeperShare(basis) - tip >= gain
    BY <2>1 DEF Covered
  <2>3. basis \in Nat /\ Payable(basis)
    BY PayableBuffersArePayable
  <2>4. el \in Nat /\ el2 \in Nat /\ el <= el2
    BY <2>1, <2>2, CurveParameters DEF IsRescue
  <2>5. RequiredTip(basis, el2) <= RequiredTip(basis, el)
    BY <2>2, <2>3, <2>4, TipFallsWithAge
  <2>6. RequiredTip(basis, el) \in Nat /\ RequiredTip(basis, el2) \in Nat
    BY <2>3, <2>4, RequiredTipNat
  <2>7. IsRescue(el2)
    BY <2>2, <2>4, CurveParameters DEF IsRescue
  <2>8. tip >= RequiredTip(basis, el2)
    BY <2>2, <2>5, <2>6
  <2>9. basis <= next.buffer
    BY <2>1, <2>2, <2>3
  <2> QED
    BY <1>1, <2>1, <2>2, <2>7, <2>8, <2>9 DEF Covered
<1> QED
  BY <1>1, <1>2 DEF Covered

(* The same for a call on its way, whatever step it is at. *)
LEMMA OnTheWayStays ==
  ASSUME NEW acc \in Accounts, NEW next \in Accounts, MovesOn(acc, next),
         NEW now \in Nat, NEW now2 \in Nat, now <= now2,
         NEW seen \in Nat, NEW seen2 \in Nat, seen <= seen2,
         NEW ft, NEW ft2, acc.status = "closed" => ft2 = ft,
         NEW cl, cl.tip \in Nat, cl.basis \in PayableBuffers,
         NEW b, NEW gain \in Int, OnTheWay(cl, acc, ft, now, seen, b, gain)
  PROVE  OnTheWay(cl, next, ft2, now2, seen2, b, gain)
<1>1. cl.step = "readEscrow" => \E basis \in PayableBuffers : Worth(next, seen2, basis, gain)
  BY WorthStays DEF OnTheWay
<1>2. cl.step = "readSlot" => Worth(next, seen2, cl.basis, gain)
  BY WorthStays DEF OnTheWay
<1>3. cl.step \in {"readAgain", "send", "confirm"} => Covered(next, now2, cl.tip, cl.basis, gain)
  BY CoveredStays DEF OnTheWay
<1>4. cl.step \in {"landed", "executed"} => next.status = "closed" /\ RescuedBy(ft2, b, gain)
  BY MovesOnFromClosed DEF OnTheWay
<1> QED
  BY <1>1, <1>2, <1>3, <1>4 DEF OnTheWay

-----------------------------------------------------------------------------
(* What every step leaves true of the chain. *)
ChainMoves ==
  /\ slot <= slot' /\ rpcSlot <= rpcSlot'
  /\ \A e \in Escrows :
       /\ MovesOn(account[e], account'[e])
       /\ account[e].status = "closed" => fate'[e] = fate[e]

(* The types of one bot. *)
LEMMA BotTypes ==
  ASSUME TypeOK, NEW b \in Bots
  PROVE  /\ slot \in Nat /\ rpcSlot \in Nat /\ b \in Clients
         /\ bot[b].mode \in Mode /\ bot[b].at \in Nat /\ bot[b].escrow \in Escrows
         /\ bot[b].estimate \in Int /\ Gain(b) \in Int
         /\ \A s \in bot[b].todo : /\ s.escrow \in Escrows /\ s.buffer \in PayableBuffers
                                   /\ s.buffer \in Nat /\ s.creation \in Nat
         /\ call[b].step \in Step /\ call[b].escrow \in Escrows
         /\ call[b].tip \in Nat /\ call[b].basis \in PayableBuffers
<1>1. /\ bot[b].mode \in Mode /\ bot[b].at \in Nat /\ bot[b].escrow \in Escrows
      /\ bot[b].estimate \in Int
      /\ bot[b].todo \subseteq [escrow : Escrows, buffer : PayableBuffers, creation : Nat]
  BY DEF TypeOK
<1>2. /\ call[b].step \in Step /\ call[b].escrow \in Escrows
      /\ call[b].tip \in Nat /\ call[b].basis \in PayableBuffers
  BY DEF TypeOK, Bots
<1>3. Gain(b) \in Int
  BY <1>1, ClientParameters DEF Gain
<1>4. \A s \in bot[b].todo : /\ s.escrow \in Escrows /\ s.buffer \in PayableBuffers
                             /\ s.buffer \in Nat /\ s.creation \in Nat
  BY <1>1, PayableBuffersArePayable
<1> QED
  BY <1>1, <1>2, <1>3, <1>4 DEF TypeOK, Bots

(* The types of one transaction. *)
LEMMA TxTypes ==
  ASSUME TypeOK, NEW tx \in network
  PROVE  /\ tx.by \in Bots /\ tx.escrow \in Escrows /\ tx.tip \in Nat
         /\ tx.basis \in PayableBuffers /\ tx.awaited \in BOOLEAN
BY DEF TypeOK, Bots

(* A rescue that was judged worth its while gains the minimum and the fee. *)
LEMMA GainAtLeast ==
  /\ Least \in Int
  /\ \A b \in Bots : TypeOK /\ bot[b].estimate >= MinProfitLamports => Gain(b) >= Least
<1>1. Least \in Int
  BY ClientParameters DEF Least
<1>2. ASSUME NEW b \in Bots, TypeOK, bot[b].estimate >= MinProfitLamports
      PROVE  Gain(b) >= Least
  BY <1>2, BotTypes, ClientParameters DEF Gain, Least
<1> QED
  BY <1>1, <1>2

(* Where the chain stands still, every escrow moves on trivially. *)
LEMMA StillChainMoves ==
  ASSUME TypeOK, UNCHANGED chainVars
  PROVE  ChainMoves
<1>1. \A e \in Escrows : MovesOn(account[e], account[e])
  <2>1. \A e \in Escrows : account[e] \in Accounts
    BY DEF TypeOK
  <2>2. \A acc \in Accounts : MovesOn(acc, acc)
    BY DEF MovesOn, Accounts, PayableBuffers
  <2> QED
    BY <2>1, <2>2
<1> QED
  BY <1>1 DEF ChainMoves, chainVars, TypeOK

(* A bot that does nothing keeps what is known of it. *)
LEMMA QuietBot ==
  ASSUME TypeOK, TypeOK', ChainMoves, NEW b \in Bots, BotOK(b),
         bot'[b] = bot[b], call'[b] = call[b]
  PROVE  BotOK(b)'
<1> DEFINE e == bot[b].escrow
<1>1. /\ slot \in Nat /\ slot' \in Nat /\ slot <= slot'
      /\ rpcSlot \in Nat /\ rpcSlot' \in Nat /\ rpcSlot <= rpcSlot'
      /\ \A x \in Escrows : /\ account[x] \in Accounts /\ account'[x] \in Accounts
                            /\ MovesOn(account[x], account'[x])
                            /\ account[x].status = "closed" => fate'[x] = fate[x]
  BY DEF TypeOK, ChainMoves
<1>2. /\ bot[b].at \in Nat /\ e \in Escrows /\ Gain(b) \in Int
      /\ call[b].tip \in Nat /\ call[b].basis \in PayableBuffers
      /\ \A s \in bot[b].todo : s.escrow \in Escrows /\ s.buffer \in Nat
  BY BotTypes
<1>3. Gain(b)' = Gain(b)
  BY DEF Gain
<1>4. bot[b].at <= rpcSlot'
  BY <1>1, <1>2 DEF BotOK
<1>5. \A s \in bot[b].todo : Snapped(s, account'[s.escrow])
  BY <1>1, <1>2, SnappedStays DEF BotOK
<1>6. bot[b].mode = "building" =>
        \E basis \in PayableBuffers : Worth(account'[e], rpcSlot', basis, Gain(b))
  BY <1>1, <1>2, WorthStays DEF BotOK
<1>7. bot[b].mode = "trying" =>
        OnTheWay(call[b], account'[e], fate'[e], slot', rpcSlot', b, Gain(b))
  BY <1>1, <1>2, OnTheWayStays DEF BotOK
<1> QED
  BY <1>3, <1>4, <1>5, <1>6, <1>7 DEF BotOK

(* A transaction stays sound through a step that is not its sender's. *)
LEMMA QuietTx ==
  ASSUME TypeOK, TypeOK', ChainMoves, NEW tx \in network, SentOK(tx),
         tx.awaited => call'[tx.by] = call[tx.by]
  PROVE  SentOK(tx)'
<1> DEFINE e == tx.escrow
<1>1. e \in Escrows /\ tx.tip \in Nat /\ tx.basis \in PayableBuffers
  BY TxTypes
<1>2. /\ slot \in Nat /\ slot' \in Nat /\ slot <= slot'
      /\ account[e] \in Accounts /\ account'[e] \in Accounts
      /\ MovesOn(account[e], account'[e])
  BY <1>1 DEF TypeOK, ChainMoves
<1>3. Covered(account'[e], slot', tx.tip, tx.basis, Least)
  BY <1>1, <1>2, CoveredStays, GainAtLeast DEF SentOK
<1>4. tx.awaited => call'[tx.by].step = "confirm" /\ tx = TxOf(tx.by, TRUE)'
  BY DEF SentOK, TxOf
<1> QED
  BY <1>3, <1>4 DEF SentOK

(* A report stays true through every step of the chain. *)
LEMMA QuietClaims ==
  ASSUME TypeOK, TypeOK', ChainMoves, NEW c \in claims, ClaimOK(c)
  PROVE  ClaimOK(c)'
<1>1. c.escrow \in Escrows
  BY DEF TypeOK
<1>2. account[c.escrow] \in Accounts /\ account'[c.escrow] \in Accounts
  BY <1>1 DEF TypeOK
<1>3. account'[c.escrow].status = "closed" /\ fate'[c.escrow] = fate[c.escrow]
  BY <1>1, <1>2, MovesOnFromClosed DEF ClaimOK, ChainMoves
<1> QED
  BY <1>3 DEF ClaimOK

-----------------------------------------------------------------------------
(* The invariant, one group of steps at a time.  First everybody else's. *)
LEMMA CloseMoves ==
  ASSUME TypeOK, NEW e \in Escrows, Pending(e), NEW how, NEW by, NEW earned,
         Close(e, how, by, earned), UNCHANGED <<slot, rpcSlot>>
  PROVE  /\ ChainMoves
         /\ account'[e].status = "closed"
         /\ fate'[e] = [how |-> how, by |-> by, earned |-> earned]
         /\ \A x \in Escrows \ {e} : fate'[x] = fate[x]
<1>1. /\ account'[e].status = "closed"
      /\ fate'[e] = [how |-> how, by |-> by, earned |-> earned]
      /\ \A x \in Escrows \ {e} : fate'[x] = fate[x] /\ account'[x] = account[x]
  BY DEF Close, TypeOK
<1>2. \A x \in Escrows : account[x] \in Accounts
  BY DEF TypeOK
<1>3. \A x \in Escrows : MovesOn(account[x], account'[x])
  BY <1>1, <1>2 DEF MovesOn, Accounts, PayableBuffers
<1>4. \A x \in Escrows : account[x].status = "closed" => fate'[x] = fate[x]
  BY <1>1 DEF Pending
<1> QED
  BY <1>1, <1>3, <1>4 DEF ChainMoves, TypeOK

(* Steps of everybody else move escrows on and close none for a bot. *)
LEMMA ElseMoves ==
  ASSUME TypeOK, ChainStep \/ \E e \in Escrows : initializeEscrow(e)
  PROVE  /\ ChainMoves
         /\ \A e \in Escrows : fate'[e] = fate[e] \/ fate'[e].by \notin Bots
         /\ UNCHANGED <<network, call>>
<1>1. /\ slot \in Nat /\ rpcSlot \in Nat
      /\ \A x \in Escrows : account[x] \in Accounts
      /\ \A x \in Escrows : MovesOn(account[x], account[x])
  BY DEF TypeOK, MovesOn, Accounts, PayableBuffers
<1>2. CASE NextSlot \/ NodeCatchesUp \/ CalmDown
  BY <1>1, <1>2 DEF NextSlot, NodeCatchesUp, CalmDown, ChainMoves
<1>3. ASSUME NEW e \in Escrows, topUpBuffer(e)
      PROVE  ChainMoves /\ UNCHANGED <<fate, network, call>>
  <2>1. PICK amount \in TopUps : account' = [account EXCEPT ![e].buffer = @ + amount]
    BY <1>3 DEF topUpBuffer
  <2>2. amount \in Nat
    BY ClientParameters
  <2>3. account'[e] = [account[e] EXCEPT !.buffer = @ + amount]
    BY <2>1 DEF TypeOK
  <2>4. MovesOn(account[e], account'[e])
    BY <1>1, <2>2, <2>3 DEF MovesOn, Accounts, PayableBuffers
  <2>5. \A x \in Escrows \ {e} : account'[x] = account[x]
    BY <2>1 DEF TypeOK
  <2> QED
    BY <1>1, <1>3, <2>4, <2>5 DEF topUpBuffer, ChainMoves
<1>4. ASSUME NEW e \in Escrows, initializeEscrow(e)
      PROVE  ChainMoves /\ UNCHANGED <<fate, network, call>>
  <2>1. \A x \in Escrows \ {e} : account'[x] = account[x]
    BY <1>4 DEF initializeEscrow, Opened, TypeOK
  <2>2. MovesOn(account[e], account'[e])
    BY <1>4 DEF initializeEscrow, MovesOn
  <2> QED
    BY <1>1, <1>4, <2>1, <2>2 DEF initializeEscrow, ChainMoves
<1>5. ASSUME NEW e \in Escrows, selfRescue(e) \/ cleanupExpiredEscrow(e) \/ RivalSwap(e)
      PROVE  /\ ChainMoves /\ UNCHANGED <<network, call>>
             /\ \A x \in Escrows : fate'[x] = fate[x] \/ fate'[x].by \notin Bots
  <2>1. PICK how, by : /\ by \in {"user", "rival"}
                       /\ Pending(e) /\ Close(e, how, by, 0)
                       /\ UNCHANGED <<slot, rpcSlot, network, call>>
    BY <1>5 DEF selfRescue, cleanupExpiredEscrow, RivalSwap
  <2>2. /\ ChainMoves
        /\ fate'[e] = [how |-> how, by |-> by, earned |-> 0]
        /\ \A x \in Escrows \ {e} : fate'[x] = fate[x]
    BY <2>1, CloseMoves
  <2>3. by \notin Bots
    BY <2>1, ClientParameters DEF Bots
  <2> QED
    BY <2>1, <2>2, <2>3
<1> QED
  BY <1>2, <1>3, <1>4, <1>5 DEF ChainStep, NextSlot, NodeCatchesUp, CalmDown

(* Steps of everybody else keep the invariant. *)
LEMMA ElseKeepsRescueInv ==
  ASSUME TypeOK, TypeOK', RescueInv, UNCHANGED keeperVars,
         ChainStep \/ \E e \in Escrows : initializeEscrow(e)
  PROVE  RescueInv'
<1>1. /\ ChainMoves
      /\ \A e \in Escrows : fate'[e] = fate[e] \/ fate'[e].by \notin Bots
      /\ UNCHANGED <<network, call, bot, claims>>
  BY ElseMoves DEF keeperVars
<1>2. \A b \in Bots : BotOK(b)'
  BY <1>1, QuietBot DEF RescueInv
<1>3. \A tx \in network' : SentOK(tx)'
  BY <1>1, QuietTx DEF RescueInv
<1>4. \A e \in Escrows : FateOK(e)'
  BY <1>1 DEF RescueInv, FateOK
<1>5. \A c \in claims' : ClaimOK(c)'
  BY <1>1, QuietClaims DEF RescueInv
<1> QED
  BY <1>2, <1>3, <1>4, <1>5 DEF RescueInv

(* A landing pays at least what the bot was promised. *)
LEMMA LandingPays ==
  ASSUME TypeOK, NEW tx \in network, Land(tx), NEW gain \in Int,
         Covered(account[tx.escrow], slot, tx.tip, tx.basis, gain)
  PROVE  RescuedBy(fate'[tx.escrow], tx.by, gain)
<1> DEFINE e == tx.escrow
           acc == account[e]
<1>1. e \in Escrows /\ tx.tip \in Nat /\ tx.basis \in Nat
  BY TxTypes, PayableBuffersArePayable
<1>2. acc \in Accounts /\ slot \in Nat /\ acc.status = "pending"
  BY <1>1 DEF TypeOK, Land, Lands, Pending
<1>3. acc.buffer \in Nat /\ acc.creation \in Nat
  BY <1>2, PayableBuffersArePayable DEF Accounts
<1>4. /\ IsRescue(slot - acc.creation) /\ tx.basis <= acc.buffer
      /\ KeeperShare(tx.basis) - tx.tip >= gain
  BY <1>2 DEF Covered
<1>5. IsRescue(Elapsed(e))
  BY <1>2, <1>3, <1>4, CurveParameters DEF IsRescue, Elapsed, saturating_sub
<1>6. Close(e, "rescue", tx.by, KeeperShare(acc.buffer) - tx.tip)
  BY <1>5 DEF Land
<1>7. fate'[e] = [how |-> "rescue", by |-> tx.by, earned |-> KeeperShare(acc.buffer) - tx.tip]
  BY <1>1, <1>6 DEF Close, TypeOK
<1>8. KeeperShare(acc.buffer) - tx.tip >= gain
  <2>1. KeeperShare(tx.basis) <= KeeperShare(acc.buffer)
    BY <1>1, <1>3, <1>4, ShareMonotone
  <2>2. KeeperShare(tx.basis) \in Nat /\ KeeperShare(acc.buffer) \in Nat
    BY <1>1, <1>3, KeeperShareBounds
  <2> QED
    BY <1>1, <1>4, <2>1, <2>2
<1> QED
  BY <1>7, <1>8 DEF RescuedBy

(* A landing moves its escrow on, to closed, and touches no other. *)
LEMMA LandMoves ==
  ASSUME TypeOK, NEW tx \in network, Land(tx)
  PROVE  /\ ChainMoves
         /\ account'[tx.escrow].status = "closed"
         /\ \A x \in Escrows \ {tx.escrow} : fate'[x] = fate[x]
<1>1. tx.escrow \in Escrows /\ Pending(tx.escrow)
  BY TxTypes DEF Land, Lands
<1>2. PICK how, earned : Close(tx.escrow, how, tx.by, earned)
  BY DEF Land
<1>3. UNCHANGED <<slot, rpcSlot>>
  BY DEF Land
<1> QED
  BY <1>1, <1>2, <1>3, CloseMoves

(* The call a transaction answers, and nobody else's. *)
LEMMA AnswersOneCall ==
  ASSUME TypeOK, NEW tx \in network, NEW step, Leaves(tx, step)
  PROVE  /\ \A b \in Bots : (b = tx.by /\ tx.awaited) \/ call'[b] = call[b]
         /\ tx.awaited => call'[tx.by] = [call[tx.by] EXCEPT !.step = step]
BY TxTypes DEF TypeOK, Leaves, StepTo, Bots

(* Landing, refusing and dropping keep the invariant. *)
LEMMA NetworkKeepsRescueInv ==
  ASSUME TypeOK, TypeOK', RescueInv, NetworkStep, UNCHANGED keeperVars
  PROVE  RescueInv'
<1> PICK tx \in network : Land(tx) \/ Refuse(tx) \/ Expire(tx)
  BY DEF NetworkStep
<1> DEFINE c == tx.by
           e == tx.escrow
<1>1. PICK step : Leaves(tx, step) /\ step = IF Land(tx) THEN "landed" ELSE "threw"
  BY DEF Land, Refuse, Expire
<1>2. /\ network' = network \ {tx}
      /\ \A b \in Bots : (b = c /\ tx.awaited) \/ call'[b] = call[b]
      /\ tx.awaited => call'[c] = [call[c] EXCEPT !.step = step]
  BY <1>1, AnswersOneCall DEF Leaves
<1>3. bot' = bot /\ claims' = claims
  BY DEF keeperVars
<1>4. c \in Bots /\ e \in Escrows /\ SentOK(tx)
  BY TxTypes DEF RescueInv
<1>5. tx.awaited => call[c].step = "confirm" /\ tx = TxOf(c, TRUE) /\ BotOK(c)
                      /\ bot[c].mode = "trying"
  BY <1>4 DEF SentOK, BotOK, RescueInv
<1>6. /\ ChainMoves
      /\ Land(tx) => account'[e].status = "closed"
      /\ \A x \in Escrows : fate'[x] = fate[x] \/ (Land(tx) /\ x = e)
  <2>1. CASE Land(tx)
    BY <2>1, LandMoves
  <2>2. CASE Refuse(tx) \/ Expire(tx)
    <3>1. UNCHANGED chainVars
      BY <2>2 DEF Refuse, Expire
    <3>2. Land(tx) => account'[e].status = "closed"
      BY LandMoves
    <3>3. \A x \in Escrows : fate'[x] = fate[x]
      BY <3>1 DEF chainVars
    <3> QED
      BY <3>1, <3>2, <3>3, StillChainMoves
  <2> QED
    BY <2>1, <2>2
<1>7. \A b \in Bots : BotOK(b)'
  <2>1. ASSUME NEW b \in Bots, ~(b = c /\ tx.awaited)
        PROVE  BotOK(b)'
    <3>1. call'[b] = call[b] /\ bot'[b] = bot[b] /\ BotOK(b)
      BY <1>2, <1>3, <2>1 DEF RescueInv
    <3> QED
      BY <1>6, <3>1, QuietBot
  <2>2. ASSUME tx.awaited
        PROVE  BotOK(c)'
    <3>1. /\ call'[c] = [call[c] EXCEPT !.step = step] /\ step \in {"landed", "threw"}
          /\ BotOK(c) /\ bot[c].mode = "trying" /\ call[c].step = "confirm"
          /\ tx.tip = call[c].tip /\ tx.basis = call[c].basis /\ e = call[c].escrow
      BY <1>1, <1>2, <1>5, <2>2 DEF TxOf
    <3>2. call'[c].step = step /\ call'[c].escrow = e
      BY <1>4, <3>1 DEF TypeOK, Bots
    <3>3. e = bot[c].escrow /\ bot[c].estimate >= MinProfitLamports
      BY <3>1 DEF BotOK
    <3>4. OnTheWay(call'[c], account'[e], fate'[e], slot', rpcSlot', c, Gain(c))
      <4>1. CASE Land(tx)
        <5>1. Covered(account[e], slot, tx.tip, tx.basis, Gain(c))
          BY <3>1, <3>3 DEF BotOK, OnTheWay
        <5>2. RescuedBy(fate'[e], c, Gain(c))
          BY <1>4, <4>1, <5>1, LandingPays, BotTypes
        <5> QED
          BY <1>1, <1>6, <3>2, <4>1, <5>2 DEF OnTheWay
      <4>2. CASE ~Land(tx)
        BY <1>1, <3>2, <4>2 DEF OnTheWay
      <4> QED
        BY <4>1, <4>2
    <3>5. /\ bot[c].at <= rpcSlot'
          /\ \A s \in bot[c].todo : Snapped(s, account'[s.escrow])
      <4>1. /\ bot[c].at \in Nat /\ rpcSlot \in Nat /\ rpcSlot' \in Nat
            /\ bot[c].at <= rpcSlot /\ rpcSlot <= rpcSlot'
        BY <1>4, <1>6, <3>1, BotTypes DEF BotOK, TypeOK, ChainMoves
      <4>2. \A s \in bot[c].todo : /\ s.escrow \in Escrows /\ s.buffer \in Nat
                                   /\ Snapped(s, account[s.escrow])
        BY <1>4, <3>1, BotTypes DEF BotOK
      <4>3. \A x \in Escrows : /\ account[x] \in Accounts /\ account'[x] \in Accounts
                               /\ MovesOn(account[x], account'[x])
        BY <1>6 DEF TypeOK, ChainMoves
      <4> QED
        BY <4>1, <4>2, <4>3, SnappedStays
    <3>6. Gain(c)' = Gain(c)
      BY <1>3 DEF Gain
    <3> QED
      BY <1>3, <3>1, <3>2, <3>3, <3>4, <3>5, <3>6 DEF BotOK
  <2> QED
    BY <2>1, <2>2
<1>8. \A t \in network' : SentOK(t)'
  <2> SUFFICES ASSUME NEW t \in network'
               PROVE  SentOK(t)'
    OBVIOUS
  <2>1. t \in network /\ t # tx /\ SentOK(t)
    BY <1>2 DEF RescueInv
  <2>2. t.by \in Bots
    BY <2>1, TxTypes
  <2>3. t.awaited => call'[t.by] = call[t.by]
    BY <1>2, <1>5, <2>1, <2>2 DEF SentOK
  <2> QED
    BY <1>6, <2>1, <2>3, QuietTx
<1>9. \A x \in Escrows : FateOK(x)'
  <2>1. Land(tx) => RescuedBy(fate'[e], c, Least)
    BY <1>4, LandingPays, GainAtLeast DEF SentOK
  <2> QED
    BY <1>6, <2>1 DEF RescueInv, FateOK, RescuedBy
<1>10. \A cl \in claims' : ClaimOK(cl)'
  BY <1>3, <1>6, QuietClaims DEF RescueInv
<1> QED
  BY <1>7, <1>8, <1>9, <1>10 DEF RescueInv

(* The client's readings, each of which may find an account moved on. *)
LEMMA CoveredForLess ==
  ASSUME NEW acc, NEW now, NEW tip \in Nat, NEW basis \in PayableBuffers,
         NEW gain \in Int, NEW less \in Int, less <= gain, Covered(acc, now, tip, basis, gain)
  PROVE  Covered(acc, now, tip, basis, less)
<1>1. KeeperShare(basis) \in Nat
  BY PayableBuffersArePayable, KeeperShareBounds
<1> QED
  BY <1>1 DEF Covered

(* A rescue is worth as much at the buffer just read. *)
LEMMA WorthOnRereading ==
  ASSUME NEW acc \in Accounts, NEW seen \in Nat, NEW basis \in PayableBuffers,
         NEW gain \in Int, Worth(acc, seen, basis, gain)
  PROVE  Worth(acc, seen, acc.buffer, gain)
<1> DEFINE el == seen - acc.creation
<1>1. CASE acc.status = "pending"
  <2>1. IsRescue(el) /\ basis <= acc.buffer /\ KeeperShare(basis) - RequiredTip(basis, el) >= gain
    BY <1>1 DEF Worth
  <2>2. /\ basis \in Nat /\ Payable(basis)
        /\ acc.buffer \in Nat /\ Payable(acc.buffer) /\ acc.creation \in Nat
    BY PayableBuffersArePayable DEF Accounts
  <2>3. el \in Nat
    BY <2>1, <2>2, CurveParameters DEF IsRescue
  <2>4. KeeperShare(basis) - RequiredTip(basis, el)
          <= KeeperShare(acc.buffer) - RequiredTip(acc.buffer, el)
    BY <2>1, <2>2, <2>3, NetRisesWithBuffer
  <2>5. /\ KeeperShare(basis) \in Nat /\ RequiredTip(basis, el) \in Nat
        /\ KeeperShare(acc.buffer) \in Nat /\ RequiredTip(acc.buffer, el) \in Nat
    BY <2>2, <2>3, KeeperShareBounds, RequiredTipNat
  <2>6. KeeperShare(acc.buffer) - RequiredTip(acc.buffer, el) >= gain
    BY <2>1, <2>4, <2>5
  <2> QED
    BY <1>1, <2>1, <2>2, <2>6 DEF Worth
<1> QED
  BY <1>1 DEF Worth

(* The tip computed for a rescue worth its while covers it. *)
LEMMA CoveredOnceTipped ==
  ASSUME NEW acc \in Accounts, NEW seen \in Nat, NEW now \in Nat, seen <= now,
         NEW basis \in PayableBuffers, NEW gain \in Int, Worth(acc, seen, basis, gain)
  PROVE  LET tip == computeRescueTip(basis, seen - acc.creation).requiredTipLamports
         IN Covered(acc, now, tip, basis, gain)
<1> DEFINE el == seen - acc.creation
           age == now - acc.creation
           tip == computeRescueTip(basis, el).requiredTipLamports
<1>1. CASE acc.status = "pending"
  <2>1. IsRescue(el) /\ basis <= acc.buffer /\ KeeperShare(basis) - RequiredTip(basis, el) >= gain
    BY <1>1 DEF Worth
  <2>2. basis \in Nat /\ Payable(basis) /\ acc.creation \in Nat
    BY PayableBuffersArePayable DEF Accounts
  <2>3. el \in Nat /\ age \in Nat /\ el <= age /\ IsRescue(age)
    BY <2>1, <2>2, CurveParameters DEF IsRescue
  <2>4. tip = RequiredTip(basis, el)
    BY <2>1, <2>3, SdkTip
  <2>5. RequiredTip(basis, el) >= MIN_JITO_TIP_LAMPORTS
    BY <2>1, <2>2, <2>3, TipAboveFloor
  <2>6. RequiredTip(basis, age) <= RequiredTip(basis, el)
    BY <2>1, <2>2, <2>3, TipFallsWithAge
  <2>7. RequiredTip(basis, el) \in Nat /\ RequiredTip(basis, age) \in Nat
    BY <2>2, <2>3, RequiredTipNat
  <2>8. tip >= RequiredTip(basis, age)
    BY <2>4, <2>6, <2>7
  <2> HIDE DEF tip
  <2>9. Covered(acc, now, tip, basis, gain)
    BY <1>1, <2>1, <2>3, <2>4, <2>5, <2>8 DEF Covered
  <2> QED
    BY <2>9 DEF tip
<1>2. CASE acc.status # "pending"
  BY <1>2 DEF Covered, Worth
<1> QED
  BY <1>1, <1>2

(* Steps of an SDK call keep the invariant. *)
LEMMA ClientKeepsRescueInv ==
  ASSUME TypeOK, TypeOK', RescueInv, NEW c \in Clients, ClientStep(c), UNCHANGED keeperVars
  PROVE  RescueInv'
<1> DEFINE cl == call[c]
           e == cl.escrow
           acc == account[e]
<1>1. bot' = bot /\ claims' = claims /\ UNCHANGED chainVars
  BY DEF keeperVars, ClientStep, ReadEscrow, ReadSlot, ReadAgain, ReadThrows, Send, Confirm, GiveUp
<1>2. c \in Bots /\ BotOK(c) /\ ChainMoves
  BY <1>1, StillChainMoves DEF RescueInv, Bots
<1>3. cl.step # "idle" /\ bot[c].mode = "trying"
  BY <1>2 DEF BotOK, ClientStep, ReadEscrow, ReadSlot, ReadAgain, ReadThrows, Send, Confirm, GiveUp
<1>4. /\ e = bot[c].escrow /\ bot[c].estimate >= MinProfitLamports
      /\ OnTheWay(cl, acc, fate[e], slot, rpcSlot, c, Gain(c))
  BY <1>2, <1>3 DEF BotOK
<1>5. /\ e \in Escrows /\ cl.tip \in Nat /\ cl.basis \in PayableBuffers
      /\ acc \in Accounts /\ slot \in Nat /\ rpcSlot \in Nat /\ rpcSlot <= slot
      /\ Gain(c) \in Int /\ Gain(c) >= Least /\ Least \in Int
  BY <1>2, <1>4, BotTypes, GainAtLeast DEF TypeOK
<1>6. \A b \in Bots \ {c} : call'[b] = call[b]
  BY DEF ClientStep, ReadEscrow, ReadSlot, ReadAgain, ReadThrows, Send, Confirm, GiveUp,
         StepTo, TypeOK, Bots
<1>7. /\ call'[c].step # "idle" /\ call'[c].escrow = e
      /\ OnTheWay(call'[c], acc, fate[e], slot, rpcSlot, c, Gain(c))
  <2>1. CASE ReadEscrow(c)
    <3>1. /\ call'[c].step = "readSlot" /\ call'[c].escrow = e /\ call'[c].basis = acc.buffer
      BY <2>1 DEF ReadEscrow, TypeOK
    <3>2. Worth(acc, rpcSlot, acc.buffer, Gain(c))
      BY <1>4, <1>5, <2>1, WorthOnRereading DEF ReadEscrow, OnTheWay
    <3> QED
      BY <3>1, <3>2 DEF OnTheWay
  <2>2. CASE ReadSlot(c)
    <3> DEFINE tip == computeRescueTip(cl.basis, rpcSlot - acc.creation).requiredTipLamports
    <3>1. /\ call'[c].step = "readAgain" /\ call'[c].escrow = e
          /\ call'[c].basis = cl.basis /\ call'[c].tip = tip
      BY <2>2 DEF ReadSlot, TypeOK
    <3>2. Covered(acc, slot, tip, cl.basis, Gain(c))
      BY <1>4, <1>5, <2>2, CoveredOnceTipped DEF ReadSlot, OnTheWay
    <3> HIDE DEF tip
    <3> QED
      BY <3>1, <3>2 DEF OnTheWay
  <2>3. CASE ReadAgain(c)
    <3>1. call'[c] = [cl EXCEPT !.step = "send"]
      BY <2>3 DEF ReadAgain, StepTo, TypeOK
    <3>2. /\ call'[c].step = "send" /\ call'[c].escrow = e
          /\ call'[c].basis = cl.basis /\ call'[c].tip = cl.tip
      BY <3>1 DEF TypeOK
    <3>3. Covered(acc, slot, cl.tip, cl.basis, Gain(c)) /\ acc.status = "pending"
      BY <1>4, <2>3 DEF ReadAgain, Pending, OnTheWay
    <3>4. cl.tip >= MIN_JITO_TIP_LAMPORTS
      BY <3>3 DEF Covered
    <3> QED
      BY <3>2, <3>3, <3>4 DEF OnTheWay
  <2>4. CASE ReadThrows(c) \/ GiveUp(c) \/ (Send(c) /\ StepTo(c, "threw"))
    <3>1. call'[c] = [cl EXCEPT !.step = "threw"]
      BY <2>4 DEF ReadThrows, GiveUp, StepTo, TypeOK
    <3>2. call'[c].step = "threw" /\ call'[c].escrow = e
      BY <3>1 DEF TypeOK
    <3> QED
      BY <3>2 DEF OnTheWay
  <2>5. CASE Send(c) /\ StepTo(c, "confirm")
    <3>1. call'[c] = [cl EXCEPT !.step = "confirm"] /\ cl.step = "send"
      BY <2>5 DEF Send, StepTo, TypeOK
    <3>2. /\ call'[c].step = "confirm" /\ call'[c].escrow = e
          /\ call'[c].basis = cl.basis /\ call'[c].tip = cl.tip
      BY <3>1 DEF TypeOK
    <3> QED
      BY <1>4, <3>1, <3>2 DEF OnTheWay
  <2>6. CASE Confirm(c)
    <3>1. call'[c] = [cl EXCEPT !.step = "executed"] /\ cl.step = "landed"
      BY <2>6 DEF Confirm, StepTo, TypeOK
    <3>2. call'[c].step = "executed" /\ call'[c].escrow = e
      BY <3>1 DEF TypeOK
    <3> QED
      BY <1>4, <3>1, <3>2 DEF OnTheWay
  <2> QED
    BY <2>1, <2>2, <2>3, <2>4, <2>5, <2>6 DEF ClientStep, Send
<1>8. \A b \in Bots : BotOK(b)'
  <2>1. \A b \in Bots \ {c} : BotOK(b)'
    BY <1>1, <1>2, <1>6, QuietBot DEF RescueInv
  <2>2. Gain(c)' = Gain(c)
    BY <1>1 DEF Gain
  <2>3. BotOK(c)'
    BY <1>1, <1>2, <1>3, <1>4, <1>7, <2>2 DEF BotOK, chainVars
  <2> QED
    BY <2>1, <2>3
<1>9. \A tx \in network' : SentOK(tx)'
  <2>1. ASSUME NEW tx \in network, tx \in network'
        PROVE  SentOK(tx)'
    <3>1. SentOK(tx) /\ tx.by \in Bots
      BY TxTypes DEF RescueInv
    <3>2. CASE tx.awaited => tx.by # c
      <4>1. tx.awaited => call'[tx.by] = call[tx.by]
        BY <1>6, <3>1, <3>2
      <4> QED
        BY <1>2, <3>1, <4>1, QuietTx
    <3>3. CASE tx.awaited /\ tx.by = c
      <4>1. cl.step = "confirm"
        BY <3>1, <3>3 DEF SentOK
      <4>2. GiveUp(c)
        BY <4>1 DEF ClientStep, ReadEscrow, ReadSlot, ReadAgain, ReadThrows, Send, Confirm
      <4> QED
        BY <2>1, <3>3, <4>2 DEF GiveUp, TxOf
    <3> QED
      BY <3>2, <3>3
  <2>2. ASSUME NEW awaited \in BOOLEAN, cl.step \in {"send", "confirm"},
               awaited => call'[c].step = "confirm",
               call'[c].tip = cl.tip, call'[c].basis = cl.basis
        PROVE  SentOK(TxOf(c, awaited))'
    <3>1. /\ Covered(acc, slot, cl.tip, cl.basis, Gain(c)) /\ cl.tip >= MIN_JITO_TIP_LAMPORTS
      BY <1>4, <2>2 DEF OnTheWay
    <3>2. Covered(acc, slot, cl.tip, cl.basis, Least)
      BY <1>5, <3>1, CoveredForLess
    <3>3. TxOf(c, awaited)' = [by |-> c, escrow |-> e, tip |-> cl.tip, basis |-> cl.basis,
                               awaited |-> awaited]
      BY <1>7, <2>2 DEF TxOf
    <3> QED
      BY <1>1, <2>2, <3>1, <3>2, <3>3 DEF SentOK, TxOf, chainVars
  <2>3. \A tx \in network' :
          \/ tx \in network
          \/ /\ tx = TxOf(c, TRUE) /\ cl.step = "send"
             /\ StepTo(c, "confirm")
          \/ /\ tx = TxOf(c, FALSE) /\ cl.step = "confirm"
             /\ StepTo(c, "threw")
    BY DEF ClientStep, ReadEscrow, ReadSlot, ReadAgain, ReadThrows, Send, Confirm, GiveUp
  <2>4. ASSUME NEW tx \in network', tx \notin network
        PROVE  SentOK(tx)'
    <3>1. PICK awaited \in BOOLEAN, step \in {"confirm", "threw"} :
            /\ tx = TxOf(c, awaited) /\ cl.step \in {"send", "confirm"}
            /\ StepTo(c, step) /\ (awaited => step = "confirm")
      BY <2>3, <2>4
    <3>2. call'[c] = [cl EXCEPT !.step = step]
      BY <3>1 DEF StepTo, TypeOK
    <3>3. /\ call'[c].step = step /\ call'[c].escrow = cl.escrow
          /\ call'[c].tip = cl.tip /\ call'[c].basis = cl.basis
      BY <3>2 DEF TypeOK
    <3>4. SentOK(TxOf(c, awaited))'
      BY <2>2, <3>1, <3>3
    <3>5. tx = TxOf(c, awaited)'
      BY <3>1, <3>3 DEF TxOf
    <3> QED
      BY <3>4, <3>5 DEF SentOK
  <2> QED
    BY <2>1, <2>4
<1>10. \A x \in Escrows : FateOK(x)'
  BY <1>1 DEF RescueInv, FateOK, chainVars
<1>11. \A k \in claims' : ClaimOK(k)'
  BY <1>1, <1>2, QuietClaims DEF RescueInv
<1> QED
  BY <1>8, <1>9, <1>10, <1>11 DEF RescueInv

(* The bot's own steps: what it judges on the snapshot is a lower bound later. *)
LEMMA AttemptIsWorth ==
  ASSUME TypeOK, NEW b \in Bots, NEW s \in bot[b].todo, BotOK(b), Judged(b, s)
  PROVE  /\ Estimate(b, s) \in Int /\ Estimate(b, s) >= MinProfitLamports
         /\ Worth(account[s.escrow], rpcSlot, s.buffer, Estimate(b, s) + EstimatedTxFeeLamports)
<1> DEFINE acc == account[s.escrow]
           el == bot[b].at - s.creation
           gain == Estimate(b, s) + EstimatedTxFeeLamports
<1>1. /\ s.escrow \in Escrows /\ s.buffer \in PayableBuffers /\ s.creation \in Nat
      /\ bot[b].at \in Nat /\ rpcSlot \in Nat /\ bot[b].at <= rpcSlot
      /\ Snapped(s, acc)
  BY BotTypes DEF BotOK
<1>2. acc \in Accounts /\ MovesOn(acc, acc)
  BY <1>1 DEF TypeOK, MovesOn, Accounts, PayableBuffers
<1>3. /\ IsRescue(el) /\ Estimate(b, s) \in Int /\ Estimate(b, s) >= MinProfitLamports
      /\ KeeperShare(s.buffer) - RequiredTip(s.buffer, el) = gain
  BY <1>1, JudgedEstimate DEF Judged, Estimate
<1>4. gain \in Int
  BY <1>3, ClientParameters
<1>5. Worth(acc, bot[b].at, s.buffer, gain)
  <2>1. acc.status = "pending" => acc.creation = s.creation /\ s.buffer <= acc.buffer
    BY <1>1 DEF Snapped
  <2> HIDE DEF gain
  <2>2. KeeperShare(s.buffer) - RequiredTip(s.buffer, el) >= gain
    BY <1>3, <1>4
  <2> QED
    BY <1>1, <1>3, <2>1, <2>2 DEF Worth, Snapped
<1>6. Worth(acc, rpcSlot, s.buffer, gain)
  BY <1>1, <1>2, <1>4, <1>5, WorthStays
<1> QED
  BY <1>3, <1>6

(* A step of a bot keeps that bot sound. *)
LEMMA BotStepKeepsBotOK ==
  ASSUME TypeOK, NEW b \in Bots, BotOK(b), BotStep(b)
  PROVE  BotOK(b)'
<1>1. UNCHANGED chainVars
  BY DEF BotStep, Scan, ReadScanSlot, ScanThrows, Skip, Attempt, BuildRoute, BuildThrows,
         ReportRescued, CallThrew, Recheck, PassDone, clientVars
<1>2. /\ rpcSlot' = rpcSlot /\ account' = account /\ fate' = fate /\ slot' = slot
      /\ rpcSlot \in Nat /\ bot[b].at \in Nat /\ bot[b].at <= rpcSlot
      /\ \A s \in bot[b].todo : Snapped(s, account[s.escrow])
      /\ bot[b].mode # "trying" => call[b].step = "idle"
  BY <1>1, BotTypes DEF chainVars, BotOK
<1> DEFINE Same == bot'[b].at = bot[b].at /\ bot'[b].todo = bot[b].todo
<1>3. ASSUME bot'[b].at <= rpcSlot, \A s \in bot'[b].todo : Snapped(s, account[s.escrow]),
             bot'[b].mode \notin {"building", "trying"}, call'[b].step = "idle"
      PROVE  BotOK(b)'
  BY <1>2, <1>3 DEF BotOK
<1>4. CASE Scan(b)
  <2> DEFINE found == {[escrow |-> e, buffer |-> account[e].buffer,
                        creation |-> account[e].creation] : e \in {e \in Escrows : Pending(e)}}
  <2>1. bot'[b].todo = found /\ bot'[b].mode = "scanned" /\ bot'[b].at = bot[b].at
    BY <1>4 DEF Scan, TypeOK
  <2>2. call'[b].step = "idle"
    BY <1>2, <1>4 DEF Scan, clientVars
  <2>3. \A s \in found : Snapped(s, account[s.escrow])
    <3>1. \A e \in Escrows : account[e] \in Accounts
      BY DEF TypeOK
    <3> QED
      BY <3>1 DEF Pending, Snapped, Accounts, PayableBuffers
  <2> HIDE DEF found
  <2> QED
    BY <1>2, <1>3, <2>1, <2>2, <2>3
<1>5. CASE ReadScanSlot(b)
  <2>1. bot'[b].todo = bot[b].todo /\ bot'[b].mode = "passing" /\ bot'[b].at = rpcSlot
    BY <1>5 DEF ReadScanSlot, TypeOK
  <2>2. call'[b].step = "idle"
    BY <1>2, <1>5 DEF ReadScanSlot, clientVars
  <2> QED
    BY <1>2, <1>3, <2>1, <2>2
<1>6. CASE ScanThrows(b) \/ PassDone(b)
  <2>1. bot'[b] = Asleep
    BY <1>6 DEF ScanThrows, PassDone, TypeOK
  <2>2. call'[b].step = "idle"
    BY <1>2, <1>6 DEF ScanThrows, PassDone, clientVars
  <2> QED
    BY <1>2, <1>3, <2>1, <2>2 DEF Asleep
<1>7. ASSUME NEW s \in bot[b].todo, Skip(b, s)
      PROVE  BotOK(b)'
  <2>1. /\ bot'[b].todo = bot[b].todo \ {s} /\ bot'[b].mode = "passing"
        /\ bot'[b].at = bot[b].at
    BY <1>7 DEF Skip, TypeOK
  <2>2. call'[b].step = "idle"
    BY <1>2, <1>7 DEF Skip, clientVars
  <2> QED
    BY <1>2, <1>3, <2>1, <2>2
<1>8. ASSUME NEW s \in bot[b].todo, Attempt(b, s)
      PROVE  BotOK(b)'
  <2>1. /\ bot'[b].todo = bot[b].todo \ {s} /\ bot'[b].mode = "building"
        /\ bot'[b].at = bot[b].at
        /\ bot'[b].escrow = s.escrow /\ bot'[b].estimate = Estimate(b, s)
    <3> DEFINE b1 == [bot[b] EXCEPT !.mode = "building"]
               b2 == [b1 EXCEPT !.todo = bot[b].todo \ {s}]
               b3 == [b2 EXCEPT !.escrow = s.escrow]
    <3>1. bot'[b] = [b3 EXCEPT !.estimate = Estimate(b, s)]
      BY <1>8 DEF Attempt, TypeOK
    <3> QED
      BY <3>1 DEF TypeOK
  <2>2. call'[b].step = "idle"
    BY <1>2, <1>8 DEF Attempt, clientVars
  <2>3. /\ Estimate(b, s) >= MinProfitLamports
        /\ Worth(account[s.escrow], rpcSlot, s.buffer, Estimate(b, s) + EstimatedTxFeeLamports)
    BY <1>8, AttemptIsWorth DEF Attempt
  <2>4. s.buffer \in PayableBuffers
    BY BotTypes
  <2>5. Gain(b)' = Estimate(b, s) + EstimatedTxFeeLamports
    BY <2>1 DEF Gain
  <2> QED
    BY <1>2, <2>1, <2>2, <2>3, <2>4, <2>5 DEF BotOK
<1>9. CASE BuildRoute(b)
  <2>1. /\ bot[b].mode = "building"
        /\ bot' = [bot EXCEPT ![b].mode = "trying"]
        /\ call' = [call EXCEPT ![b] = [step |-> "readEscrow", escrow |-> bot[b].escrow,
                                        tip |-> 0, basis |-> 0]]
    BY <1>9 DEF BuildRoute, Begin
  <2>2. /\ bot'[b].todo = bot[b].todo /\ bot'[b].mode = "trying" /\ bot'[b].at = bot[b].at
        /\ bot'[b].escrow = bot[b].escrow /\ bot'[b].estimate = bot[b].estimate
    BY <2>1 DEF TypeOK
  <2>3. call'[b].step = "readEscrow" /\ call'[b].escrow = bot[b].escrow
    BY <2>1 DEF TypeOK, Bots
  <2>4. Gain(b)' = Gain(b)
    BY <2>2 DEF Gain
  <2>5. OnTheWay(call'[b], account[bot[b].escrow], fate[bot[b].escrow], slot, rpcSlot, b, Gain(b))
    BY <2>1, <2>3 DEF BotOK, OnTheWay
  <2>6. bot[b].estimate >= MinProfitLamports
    BY <2>1 DEF BotOK
  <2> QED
    BY <1>2, <2>2, <2>3, <2>4, <2>5, <2>6 DEF BotOK
<1>10. CASE BuildThrows(b) \/ CallThrew(b)
  <2>1. bot'[b] = [bot[b] EXCEPT !.mode = "rechecking"]
    BY <1>10 DEF BuildThrows, CallThrew, TypeOK
  <2>2. Same /\ bot'[b].mode = "rechecking"
    BY <2>1 DEF TypeOK
  <2>3. call'[b].step = "idle"
    BY <1>2, <1>10 DEF BuildThrows, CallThrew, clientVars, Returned, NoCall, TypeOK, Bots
  <2> QED
    BY <1>2, <1>3, <2>2, <2>3
<1>11. CASE ReportRescued(b) \/ Recheck(b)
  <2>1. bot'[b] = NextOne(b)
    BY <1>11 DEF ReportRescued, Recheck, TypeOK
  <2>2. Same /\ bot'[b].mode = "passing"
    <3> DEFINE b1 == [bot[b] EXCEPT !.mode = "passing"]
               b2 == [b1 EXCEPT !.escrow = AnyEscrow]
    <3>1. NextOne(b) = [b2 EXCEPT !.estimate = 0]
      BY DEF NextOne
    <3> QED
      BY <2>1, <3>1 DEF TypeOK
  <2>3. call'[b].step = "idle"
    BY <1>2, <1>11 DEF ReportRescued, Recheck, clientVars, Returned, NoCall, TypeOK, Bots
  <2> QED
    BY <1>2, <1>3, <2>2, <2>3
<1> QED
  BY <1>4, <1>5, <1>6, <1>7, <1>8, <1>9, <1>10, <1>11 DEF BotStep

(* Steps of a bot keep the invariant. *)
LEMMA BotKeepsRescueInv ==
  ASSUME TypeOK, TypeOK', RescueInv, NEW b \in Bots, BotStep(b)
  PROVE  RescueInv'
<1>1. UNCHANGED <<chainVars, network>>
  BY DEF BotStep, Scan, ReadScanSlot, ScanThrows, Skip, Attempt, BuildRoute, BuildThrows,
         ReportRescued, CallThrew, Recheck, PassDone, clientVars
<1>2. ChainMoves /\ BotOK(b)
  BY <1>1, StillChainMoves DEF RescueInv
<1>3. \A x \in Bots \ {b} : bot'[x] = bot[x] /\ call'[x] = call[x]
  BY DEF BotStep, Scan, ReadScanSlot, ScanThrows, Skip, Attempt, BuildRoute, BuildThrows,
         ReportRescued, CallThrew, Recheck, PassDone, clientVars, Begin, Returned, TypeOK, Bots
<1>4. call[b].step # "confirm" \/ call'[b] = call[b]
  <2>1. CASE BuildRoute(b)
    BY <1>2, <2>1 DEF BuildRoute, BotOK
  <2>2. CASE ReportRescued(b) \/ CallThrew(b)
    BY <2>2 DEF ReportRescued, CallThrew
  <2>3. CASE UNCHANGED clientVars
    BY <2>3 DEF clientVars
  <2> QED
    BY <2>1, <2>2, <2>3 DEF BotStep, Scan, ReadScanSlot, ScanThrows, Skip, Attempt, BuildThrows,
                            Recheck, PassDone
<1>5. \A x \in Bots : BotOK(x)'
  <2>1. BotOK(b)'
    BY <1>2, BotStepKeepsBotOK
  <2>2. \A x \in Bots \ {b} : BotOK(x)'
    BY <1>2, <1>3, QuietBot DEF RescueInv
  <2> QED
    BY <2>1, <2>2
<1>6. \A tx \in network' : SentOK(tx)'
  <2> SUFFICES ASSUME NEW tx \in network
               PROVE  SentOK(tx)'
    BY <1>1
  <2>1. SentOK(tx) /\ tx.by \in Bots
    BY TxTypes DEF RescueInv
  <2>2. tx.awaited => call'[tx.by] = call[tx.by]
    BY <1>3, <1>4, <2>1 DEF SentOK
  <2> QED
    BY <1>2, <2>1, <2>2, QuietTx
<1>7. \A e \in Escrows : FateOK(e)'
  BY <1>1 DEF RescueInv, FateOK, chainVars
<1>8. \A c \in claims' : ClaimOK(c)'
  <2>1. \A c \in claims : ClaimOK(c)'
    BY <1>2, QuietClaims DEF RescueInv
  <2>2. CASE ReportRescued(b)
    <3> PICK claim : claim = [by |-> b, escrow |-> bot[b].escrow, profit |-> bot[b].estimate]
      OBVIOUS
    <3>1. bot[b].mode = "trying" /\ call[b].step = "executed" /\ claims' = claims \cup {claim}
      BY <2>2 DEF ReportRescued
    <3>2. /\ account[bot[b].escrow].status = "closed"
          /\ RescuedBy(fate[bot[b].escrow], b, Gain(b))
      BY <1>2, <3>1 DEF BotOK, OnTheWay
    <3>3. ClaimOK(claim)
      BY <3>2 DEF ClaimOK, Gain
    <3>4. ClaimOK(claim)'
      BY <1>1, <3>3 DEF ClaimOK, chainVars
    <3> QED
      BY <2>1, <3>1, <3>4
  <2>3. CASE UNCHANGED claims
    BY <2>1, <2>3
  <2> QED
    BY <2>2, <2>3 DEF BotStep, Scan, ReadScanSlot, ScanThrows, Skip, Attempt, BuildRoute,
                      BuildThrows, CallThrew, Recheck, PassDone
<1> QED
  BY <1>5, <1>6, <1>7, <1>8 DEF RescueInv

-----------------------------------------------------------------------------
(* The invariant holds at the start. *)
LEMMA RescueInvInitially == Init => RescueInv
<1> SUFFICES ASSUME Init
             PROVE  RescueInv
  OBVIOUS
<1> USE DEF Init, ClientInit
<1>1. \A b \in Bots : BotOK(b)
  BY DEF BotOK, Asleep, NoCall, Bots
<1>2. \A e \in Escrows : FateOK(e)
  BY ClientParameters DEF FateOK, NoFate, Bots
<1> QED
  BY <1>1, <1>2 DEF RescueInv

(* Every rescue on its way is covered, from the snapshot to the report. *)
THEOREM RescuesStayCovered == Spec => []RescueInv
<1>1. TypeOK /\ TypeOK' /\ RescueInv /\ [Next]_vars => RescueInv'
  <2> SUFFICES ASSUME TypeOK, TypeOK', RescueInv, [Next]_vars
               PROVE  RescueInv'
    OBVIOUS
  <2>1. CASE UNCHANGED vars
    <3>1. /\ UNCHANGED keeperVars /\ UNCHANGED chainVars
          /\ network' = network /\ call' = call /\ bot' = bot /\ claims' = claims
      BY <2>1 DEF vars, clientVars, keeperVars
    <3>2. ChainMoves
      BY <3>1, StillChainMoves
    <3>3. \A b \in Bots : BotOK(b)'
      BY <3>1, <3>2, QuietBot DEF RescueInv
    <3>4. \A tx \in network' : SentOK(tx)'
      BY <3>1, <3>2, QuietTx DEF RescueInv
    <3>5. \A e \in Escrows : FateOK(e)'
      BY <3>1 DEF RescueInv, FateOK, chainVars
    <3>6. \A c \in claims' : ClaimOK(c)'
      BY <3>1, <3>2, QuietClaims DEF RescueInv
    <3> QED
      BY <3>3, <3>4, <3>5, <3>6 DEF RescueInv
  <2>2. ASSUME NEW b \in Bots, BotStep(b)
        PROVE  RescueInv'
    BY <2>2, BotKeepsRescueInv
  <2>3. ASSUME NEW c \in Clients, ClientStep(c), UNCHANGED keeperVars
        PROVE  RescueInv'
    BY <2>3, ClientKeepsRescueInv
  <2>4. CASE NetworkStep /\ UNCHANGED keeperVars
    BY <2>4, NetworkKeepsRescueInv
  <2>5. CASE (ChainStep \/ \E e \in Escrows : initializeEscrow(e)) /\ UNCHANGED keeperVars
    BY <2>5, ElseKeepsRescueInv
  <2> QED
    BY <2>1, <2>2, <2>3, <2>4, <2>5 DEF Next, Bots
<1> QED
  BY <1>1, RescueInvInitially, KeeperTypes, PTL DEF Spec

(* With a floor above zero every transaction of a bot carries a tip, and so   *)
(* is a rescue wherever it lands: bot.ts decides on the snapshot, executeSwap *)
(* reads the slot for itself, and the window has not closed in between.       *)
THEOREM BotsAlwaysTip ==
  ASSUME MIN_JITO_TIP_LAMPORTS > 0
  PROVE  Spec => []BotAlwaysTips
<1>1. ASSUME TypeOK, RescueInv, NEW tx \in network
      PROVE  tx.tip > 0
  <2>1. tx.tip \in Nat
    BY <1>1, TxTypes
  <2>2. tx.tip >= MIN_JITO_TIP_LAMPORTS
    BY <1>1 DEF RescueInv, SentOK
  <2> QED
    BY <2>1, <2>2, CurveParameters
<1>2. TypeOK /\ RescueInv => BotAlwaysTips
  BY <1>1 DEF BotAlwaysTips
<1> QED
  BY <1>2, RescuesStayCovered, KeeperTypes, PTL

(* The tip executeSwap attaches, computed on a node that lags by any number   *)
(* of slots, is what execute_swap asks for whenever the transaction lands,    *)
(* unless the buffer was topped up after the client read it.                  *)
THEOREM TipCoversUntilLanding == Spec => []AttachedTipCovers
<1>1. ASSUME TypeOK, RescueInv, NEW tx \in network,
             Pending(tx.escrow), account[tx.escrow].buffer = tx.basis
      PROVE  TipEnough(tx)
  <2> DEFINE e == tx.escrow
             age == slot - account[e].creation
  <2>1. e \in Escrows /\ tx.tip \in Nat /\ tx.basis \in Nat
    BY <1>1, TxTypes, PayableBuffersArePayable
  <2>2. slot \in Nat /\ account[e].creation \in Nat
    BY <1>1, <2>1 DEF TypeOK, Accounts
  <2>3. IsRescue(age) /\ tx.tip >= RequiredTip(tx.basis, age)
    BY <1>1 DEF RescueInv, SentOK, Covered, Pending
  <2>4. Elapsed(e) = age
    BY <2>2, <2>3, CurveParameters DEF IsRescue, Elapsed, saturating_sub
  <2> QED
    BY <1>1, <2>3, <2>4 DEF TipEnough
<1>2. TypeOK /\ RescueInv => AttachedTipCovers
  BY <1>1 DEF AttachedTipCovers
<1> QED
  BY <1>2, RescuesStayCovered, KeeperTypes, PTL

(* Whatever happened between a bot's snapshot and the landing, an escrow it   *)
(* closed was a rescue that left it its configured minimum after tip and fee. *)
THEOREM KeepersEarnTheirMinimum == Spec => []KeeperEarnsItsMinimum
<1>1. RescueInv => KeeperEarnsItsMinimum
  BY DEF RescueInv, FateOK, RescuedBy, Least, KeeperEarnsItsMinimum
<1> QED
  BY <1>1, RescuesStayCovered, PTL

(* A rescue a bot reports happened, was its own, and earned it at least the   *)
(* profit it prints.                                                          *)
THEOREM ReportsAreEarned == Spec => []ReportedProfitIsEarned
<1>1. ASSUME TypeOK, RescueInv, NEW c \in claims
      PROVE  /\ fate[c.escrow].how = "rescue" /\ fate[c.escrow].by = c.by
             /\ fate[c.escrow].earned - EstimatedTxFeeLamports >= c.profit
  <2>1. c.escrow \in Escrows /\ c.profit \in Int
    BY <1>1 DEF TypeOK
  <2>2. fate[c.escrow].earned \in Int
    BY <1>1, <2>1 DEF TypeOK, Fate
  <2>3. RescuedBy(fate[c.escrow], c.by, c.profit + EstimatedTxFeeLamports)
    BY <1>1 DEF RescueInv, ClaimOK
  <2> QED
    BY <2>1, <2>2, <2>3, ClientParameters DEF RescuedBy
<1>2. TypeOK /\ RescueInv => ReportedProfitIsEarned
  BY <1>1 DEF ReportedProfitIsEarned
<1> QED
  BY <1>2, RescuesStayCovered, KeeperTypes, PTL

-----------------------------------------------------------------------------
(* What the mock DEX's account list comes to: no account of the three that    *)
(* the program insists on is in it.                                           *)
LEMMA MockIsRefused ==
  ASSUME NEW mint \in Mints
  PROVE  ~SwapAccepted("mockDex", mint)
<1> DEFINE metas == MockAccounts(mint)
<1>1. remainingAccounts("mockDex", mint) = metas
  BY DEF remainingAccounts
<1>2. \A i \in DOMAIN metas : metas[i].pubkey \in Mints \cup {"mintAuthority"}
  <2>1. OtherMint(mint) \in Mints
    <3>1. \E m \in Mints : m # mint
      BY DEF Mints
    <3> QED
      BY <3>1 DEF OtherMint
  <2>2. metas = <<Meta(mint), Meta(OtherMint(mint)), Meta("mintAuthority")>>
    BY DEF MockAccounts
  <2>3. \A pubkey : Meta(pubkey).pubkey = pubkey
    BY Zenon DEF Meta
  <2>4. DOMAIN metas = {1, 2, 3} /\ metas[1] = Meta(mint) /\ metas[2] = Meta(OtherMint(mint))
        /\ metas[3] = Meta("mintAuthority")
    BY <2>2
  <2> HIDE DEF metas
  <2> QED
    BY <2>1, <2>3, <2>4
<1>3. "input" \notin Keys(metas)
  BY <1>2 DEF Keys, Mints
<1>4. ~(RequiredSwapAccounts \subseteq Keys(metas))
  BY <1>3 DEF RequiredSwapAccounts
<1> HIDE DEF metas
<1> QED
  BY <1>1, <1>4 DEF SwapAccepted

(* No swap of an escrow on the mock DEX that goes out with the keeper's       *)
(* account list ever lands: whoever closes that escrow, it is not a bot,      *)
(* though the bot tries it again and again.  The mock_route run shows one     *)
(* such transaction; this says it of all of them.  (mockDexSwap.ts 68-72,     *)
(* execute_swap.rs 180-191)                                                   *)
NoBotSwapsMockEscrows ==
  \A e \in Escrows : order[e].route = "mockDex" => fate[e].by \notin Bots

THEOREM MockRouteNeverSwaps == Spec => []NoBotSwapsMockEscrows
<1> DEFINE Ordered == \A e \in Escrows : order[e] \in Orders[e]
<1>1. Init => Ordered /\ NoBotSwapsMockEscrows
  <2> SUFFICES ASSUME Init, NEW e \in Escrows
               PROVE  order[e] \in Orders[e] /\ fate[e].by = "nobody"
    BY ClientParameters DEF NoBotSwapsMockEscrows, Bots
  <2> QED
    BY DEF Init, ClientInit, NoFate
<1>2. Ordered /\ TypeOK /\ NoBotSwapsMockEscrows /\ [Next]_vars
        => Ordered' /\ NoBotSwapsMockEscrows'
  <2> SUFFICES ASSUME Ordered, TypeOK, NoBotSwapsMockEscrows, [Next]_vars
               PROVE  Ordered' /\ NoBotSwapsMockEscrows'
    OBVIOUS
  <2> HIDE DEF Ordered
  <2>1. ASSUME NEW e \in Escrows, order[e].route = "mockDex"
        PROVE  ~SwapAccepted(order[e].route, order[e].inputMint)
    <3>1. order[e].inputMint \in Mints
      BY ClientAssumption DEF Ordered
    <3> QED
      BY <2>1, <3>1, MockIsRefused
  <2>2. ASSUME order' = order,
               \A e \in Escrows :
                 \/ fate'[e] = fate[e]
                 \/ fate'[e].by \notin Bots
                 \/ SwapAccepted(order[e].route, order[e].inputMint)
        PROVE  Ordered' /\ NoBotSwapsMockEscrows'
    BY <2>1, <2>2 DEF Ordered, NoBotSwapsMockEscrows, Bots
  <2>3. CASE UNCHANGED <<order, fate>>
    BY <2>2, <2>3
  <2>4. ASSUME NEW e \in Escrows, NEW how, NEW by, NEW earned, Close(e, how, by, earned)
        PROVE  fate'[e].by = by /\ \A x \in Escrows : x = e \/ fate'[x] = fate[x]
    BY <2>4 DEF Close, TypeOK
  <2>5. CASE \E tx \in network : Land(tx)
    <3>1. PICK tx \in network : Land(tx)
      BY <2>5
    <3>2. PICK how, earned : Close(tx.escrow, how, tx.by, earned)
      BY <3>1 DEF Land
    <3>3. tx.escrow \in Escrows /\ SwapAccepted(order[tx.escrow].route, order[tx.escrow].inputMint)
      BY <3>1, TxTypes DEF Land, Lands
    <3>4. \A x \in Escrows : x = tx.escrow \/ fate'[x] = fate[x]
      BY <2>4, <3>2, <3>3
    <3>5. order' = order
      BY <3>1 DEF Land
    <3> QED
      BY <2>2, <3>3, <3>4, <3>5
  <2>6. CASE \E e \in Escrows : selfRescue(e) \/ cleanupExpiredEscrow(e) \/ RivalSwap(e)
    <3>1. PICK e \in Escrows : selfRescue(e) \/ cleanupExpiredEscrow(e) \/ RivalSwap(e)
      BY <2>6
    <3>2. PICK how, by : Close(e, how, by, 0) /\ by \in {"user", "rival"}
      BY <3>1 DEF selfRescue, cleanupExpiredEscrow, RivalSwap
    <3>3. fate'[e].by \notin Bots /\ \A x \in Escrows : x = e \/ fate'[x] = fate[x]
      BY <2>4, <3>2, ClientParameters DEF Bots
    <3>4. order' = order
      BY <3>1 DEF selfRescue, cleanupExpiredEscrow, RivalSwap
    <3> QED
      BY <2>2, <3>3, <3>4
  <2>7. CASE \E b \in Bots : BotStep(b)
    <3>1. UNCHANGED chainVars
      BY <2>7 DEF BotStep, Scan, ReadScanSlot, ScanThrows, Skip, Attempt, BuildRoute, BuildThrows,
                  ReportRescued, CallThrew, Recheck, PassDone, clientVars
    <3> QED
      BY <2>3, <3>1 DEF chainVars
  <2>8. CASE \E c \in Clients : ClientStep(c)
    <3>1. UNCHANGED chainVars
      BY <2>8 DEF ClientStep, ReadEscrow, ReadSlot, ReadAgain, ReadThrows, Send, Confirm, GiveUp
    <3> QED
      BY <2>3, <3>1 DEF chainVars
  <2>9. CASE \E tx \in network : Refuse(tx) \/ Expire(tx)
    BY <2>3, <2>9 DEF Refuse, Expire, chainVars
  <2>10. CASE \/ NextSlot \/ NodeCatchesUp \/ CalmDown
              \/ \E e \in Escrows : topUpBuffer(e) \/ initializeEscrow(e)
              \/ UNCHANGED vars
    BY <2>3, <2>10 DEF NextSlot, NodeCatchesUp, CalmDown, topUpBuffer, initializeEscrow, vars,
                       clientVars, chainVars
  <2> QED
    BY <2>5, <2>6, <2>7, <2>8, <2>9, <2>10 DEF Next, NetworkStep, ChainStep, Bots
<1> HIDE DEF Ordered
<1> QED
  BY <1>1, <1>2, KeeperTypes, PTL DEF Spec

=============================================================================
