------------------------- MODULE InertiaEscrowProofs -------------------------
(* Proofs about the on-chain program for every number of users, wallets,      *)
(* nonces and token accounts, and for every rate, window and amount that the  *)
(* assumptions of TipCurve and InertiaEscrow allow.                           *)
EXTENDS ChainAsSeen, TipCurveProofs

Accounts == Wallets \cup PDA

Balances == [Accounts -> Nat]

(* What every reachable state satisfies and every instruction preserves. *)
IInv == TypeOK /\ Solvent

-----------------------------------------------------------------------------
(* Every PDA's user is a wallet, and no PDA is one. *)
LEMMA UserIsWallet ==
  ASSUME NEW e \in PDA
  PROVE  /\ UserWallet(e) \in Wallets
         /\ e \in Accounts
         /\ \A w \in Wallets : w # e /\ w \in Accounts
BY AccountsAssumption DEF PDA, UserWallet, Accounts

(* A covered move between two accounts keeps balances natural, changes no   *)
(* third account, and moves exactly the amount.  (util.rs 14-28)            *)
LEMMA MoveLamports ==
  ASSUME NEW b \in Balances, NEW from \in Accounts, NEW to \in Accounts,
         NEW amount \in Nat, amount <= b[from], from # to
  PROVE  /\ move_lamports(b, from, to, amount) \in Balances
         /\ move_lamports(b, from, to, amount)[from] = b[from] - amount
         /\ move_lamports(b, from, to, amount)[to] = b[to] + amount
         /\ \A x \in Accounts \ {from, to} : move_lamports(b, from, to, amount)[x] = b[x]
BY DEF Balances, move_lamports

(* A covered move from a wallet, possibly to itself, leaves the PDAs alone. *)
LEMMA MoveBetweenWallets ==
  ASSUME NEW b \in Balances, NEW from \in Wallets, NEW to \in Wallets,
         NEW amount \in Nat, amount <= b[from]
  PROVE  /\ move_lamports(b, from, to, amount) \in Balances
         /\ \A e \in PDA : move_lamports(b, from, to, amount)[e] = b[e]
BY AccountsAssumption DEF Balances, move_lamports, Accounts

(* Paying a wallet out of a PDA, within what the PDA holds. *)
LEMMA PayFromEscrow ==
  ASSUME NEW b \in Balances, NEW e \in PDA, NEW w \in Wallets,
         NEW amount \in Nat, amount <= b[e]
  PROVE  /\ move_lamports(b, e, w, amount) \in Balances
         /\ move_lamports(b, e, w, amount)[e] = b[e] - amount
         /\ \A f \in PDA \ {e} : move_lamports(b, e, w, amount)[f] = b[f]
<1>1. e \in Accounts /\ w \in Accounts /\ e # w
  BY UserIsWallet
<1>2. \A f \in PDA \ {e} : f \in Accounts \ {e, w}
  BY AccountsAssumption DEF Accounts
<1> QED
  BY <1>1, <1>2, MoveLamports

(* Closing an escrow account empties it and touches no other escrow. *)
LEMMA CloseEscrow ==
  ASSUME NEW b \in Balances, NEW e \in PDA
  PROVE  /\ close(b, e) \in Balances
         /\ close(b, e)[e] = 0
         /\ \A f \in PDA \ {e} : close(b, e)[f] = b[f]
<1>1. b[e] \in Nat /\ UserWallet(e) \in Wallets
  BY UserIsWallet DEF Balances
<1> QED
  BY <1>1, PayFromEscrow DEF close

(* The three shares of a rescue leave the escrow exactly its buffer poorer. *)
LEMMA RescueSplitPays ==
  ASSUME NEW b \in Balances, NEW e \in PDA, NEW caller \in Wallets,
         escrow[e] \in EscrowState, Buffer(e) <= b[e]
  PROVE  /\ RescueSplit(b, caller, e) \in Balances
         /\ RescueSplit(b, caller, e)[e] = b[e] - Buffer(e)
         /\ \A f \in PDA \ {e} : RescueSplit(b, caller, e)[f] = b[f]
<1> DEFINE k == KeeperShare(Buffer(e))
           p == PartnerShare(Buffer(e))
           t == TreasuryShare(Buffer(e))
           b1 == move_lamports(b, e, caller, k)
           b2 == move_lamports(b1, e, escrow[e].partner_wallet, p)
           b3 == move_lamports(b2, e, TREASURY, t)
<1>1. /\ Buffer(e) \in Nat
      /\ escrow[e].partner_wallet \in Wallets
      /\ TREASURY \in Wallets
      /\ b[e] \in Nat
  BY AccountsAssumption, UserIsWallet DEF EscrowState, Buffer, Balances
<1>2. k \in Nat /\ p \in Nat /\ t \in Nat /\ k + p + t = Buffer(e)
  BY <1>1, SharesAreTheBuffer
<1> HIDE DEF k, p, t
<1>3. b1 \in Balances /\ b1[e] = b[e] - k /\ \A f \in PDA \ {e} : b1[f] = b[f]
  BY <1>1, <1>2, PayFromEscrow
<1> HIDE DEF b1
<1>4. b2 \in Balances /\ b2[e] = b[e] - k - p /\ \A f \in PDA \ {e} : b2[f] = b[f]
  BY <1>1, <1>2, <1>3, PayFromEscrow
<1> HIDE DEF b2
<1>5. b3 \in Balances /\ b3[e] = b[e] - Buffer(e) /\ \A f \in PDA \ {e} : b3[f] = b[f]
  BY <1>1, <1>2, <1>4, PayFromEscrow
<1> QED
  BY <1>5 DEF RescueSplit, b1, b2, b3, k, p, t

-----------------------------------------------------------------------------
(* The parts of TypeOK, under the names the lemmas use. *)
LEMMA TypesOfState ==
  ASSUME TypeOK
  PROVE  /\ slot \in Nat
         /\ lamports \in Balances
         /\ \A e \in PDA : lamports[e] \in Nat
         /\ \A e \in PDA : Pending(e) =>
              /\ escrow[e] \in EscrowState
              /\ Buffer(e) \in Nat
              /\ Input(e) \in TokenAccounts
              /\ Destination(e) \in TokenAccounts
              /\ Elapsed(e) \in Nat
BY NoEscrowAssumption, UserIsWallet
   DEF TypeOK, Balances, Accounts, Pending, EscrowState, Buffer, Input, Destination,
       Elapsed, saturating_sub

(* What the call the escrow signs for does to the token accounts: it draws   *)
(* only on accounts delegated to this escrow, within their allowance, and    *)
(* leaves every other delegation as it was.                                  *)
LEMMA CpiTouchesOwnDelegations ==
  ASSUME TypeOK, NEW e \in PDA, Pending(e), NEW swap \in SwapOutcomes, CpiSucceeds(e, swap),
         NEW after, after = AfterCpi(e, swap)
  PROVE  /\ after \in [TokenAccounts -> TokenAccount]
         /\ \A a \in TokenAccounts :
              /\ swap.spent[a] \in Nat
              /\ swap.spent[a] > 0 =>
                   token[a].delegate = e /\ swap.spent[a] <= token[a].allowance
              /\ after[a].delegate \in {token[a].delegate, NoDelegate}
              /\ after[a].open = token[a].open
              /\ token[a].delegate # e =>
                   /\ after[a].delegate = token[a].delegate
                   /\ after[a].allowance = token[a].allowance
              /\ after[a].amount >= token[a].amount - swap.spent[a]
<1> DEFINE spent == [a \in TokenAccounts |-> drawn(token[a], swap.spent[a])]
<1> HIDE DEF spent
<1>1. /\ token \in [TokenAccounts -> TokenAccount]
      /\ Destination(e) \in TokenAccounts
      /\ swap.spent \in [TokenAccounts -> Nat]
      /\ swap.delivered \in Nat
  BY TypesOfState, AmountsAssumption DEF TypeOK
<1>2. ASSUME NEW a \in TokenAccounts
      PROVE  /\ spent[a] \in TokenAccount
             /\ swap.spent[a] \in Nat
             /\ swap.spent[a] > 0 =>
                  token[a].delegate = e /\ swap.spent[a] <= token[a].allowance
             /\ spent[a].delegate \in {token[a].delegate, NoDelegate}
             /\ spent[a].open = token[a].open
             /\ token[a].delegate # e =>
                  /\ spent[a].delegate = token[a].delegate
                  /\ spent[a].allowance = token[a].allowance
             /\ spent[a].amount = token[a].amount - swap.spent[a]
  <2>1. token[a] \in TokenAccount /\ swap.spent[a] \in Nat
    BY <1>1, <1>2
  <2>2. spent[a] = drawn(token[a], swap.spent[a])
    BY DEF spent
  <2>3. CASE swap.spent[a] = 0
    BY <2>1, <2>2, <2>3 DEF drawn, TokenAccount
  <2>4. CASE swap.spent[a] > 0
    <3>1. /\ token[a].delegate = e
          /\ swap.spent[a] <= token[a].allowance
          /\ swap.spent[a] <= token[a].amount
      BY <1>2, <2>4 DEF CpiSucceeds
    <3>2. /\ token[a].allowance - swap.spent[a] \in Nat
          /\ token[a].amount - swap.spent[a] \in Nat
      BY <2>1, <3>1 DEF TokenAccount
    <3>3. spent[a] =
            [token[a] EXCEPT !.amount = token[a].amount - swap.spent[a],
                             !.allowance = token[a].allowance - swap.spent[a],
                             !.delegate = IF token[a].allowance = swap.spent[a]
                                          THEN NoDelegate ELSE token[a].delegate]
      BY <2>1, <2>2, <2>4 DEF drawn
    <3> QED
      BY <2>1, <3>1, <3>2, <3>3 DEF TokenAccount
  <2>5. swap.spent[a] = 0 \/ swap.spent[a] > 0
    BY <2>1
  <2> QED
    BY <2>3, <2>4, <2>5
<1>3. after = [spent EXCEPT ![Destination(e)].amount = @ + swap.delivered]
  BY DEF AfterCpi, spent
<1>4. spent \in [TokenAccounts -> TokenAccount]
  BY <1>2 DEF spent
<1> DEFINE d == Destination(e)
<1>5. /\ after \in [TokenAccounts -> TokenAccount]
      /\ \A a \in TokenAccounts \ {d} : after[a] = spent[a]
      /\ after[d].open = spent[d].open
      /\ after[d].delegate = spent[d].delegate
      /\ after[d].allowance = spent[d].allowance
      /\ after[d].amount = spent[d].amount + swap.delivered
  BY <1>1, <1>3, <1>4 DEF TokenAccount
<1> HIDE DEF d
<1>6. ASSUME NEW a \in TokenAccounts
      PROVE  /\ after[a].open = spent[a].open
             /\ after[a].delegate = spent[a].delegate
             /\ after[a].allowance = spent[a].allowance
             /\ after[a].amount >= spent[a].amount
  <2>1. spent[a].amount \in Nat
    BY <1>4 DEF TokenAccount
  <2>2. CASE a = d
    BY <1>1, <1>5, <2>1, <2>2
  <2>3. CASE a # d
    BY <1>5, <2>1, <2>3
  <2> QED
    BY <2>2, <2>3
<1>7. \A a \in TokenAccounts :
        /\ swap.spent[a] \in Nat
        /\ swap.spent[a] > 0 =>
             token[a].delegate = e /\ swap.spent[a] <= token[a].allowance
        /\ after[a].delegate \in {token[a].delegate, NoDelegate}
        /\ after[a].open = token[a].open
        /\ token[a].delegate # e =>
             /\ after[a].delegate = token[a].delegate
             /\ after[a].allowance = token[a].allowance
        /\ after[a].amount >= token[a].amount - swap.spent[a]
  BY <1>2, <1>6
<1> QED
  BY <1>5, <1>7

(* Solvent survives a step that keeps every other escrow's record and        *)
(* balance, and leaves this one covered or empty.                            *)
LEMMA SolventKept ==
  ASSUME Solvent, NEW e \in PDA,
         \A f \in PDA \ {e} : escrow'[f] = escrow[f] /\ lamports'[f] = lamports[f],
         IF Pending(e)' THEN lamports'[e] >= ESCROW_RENT + Buffer(e)' ELSE lamports'[e] = 0
  PROVE  Solvent'
<1> SUFFICES ASSUME NEW f \in PDA
             PROVE  IF Pending(f)' THEN lamports'[f] >= ESCROW_RENT + Buffer(f)'
                                   ELSE lamports'[f] = 0
  BY DEF Solvent
<1>1. CASE f = e
  BY <1>1
<1>2. CASE f # e
  BY <1>2 DEF Solvent, Pending, Buffer
<1> QED
  BY <1>1, <1>2

(* The bookkeeping of a resolution is well typed and closes this escrow only. *)
LEMMA SettleClosesOne ==
  ASSUME TypeOK, NEW e \in PDA, Pending(e),
         NEW outcome \in Outcome, NEW paid \in Payout, NEW tip \in Transfer,
         Settle(e, outcome, paid, tip)
  PROVE  /\ escrow' \in [PDA -> EscrowState \cup {NoEscrow}]
         /\ receipt' \in [PDA -> Receipt]
         /\ ~Pending(e)'
         /\ \A f \in PDA \ {e} : escrow'[f] = escrow[f]
<1>1. Elapsed(e) \in Nat /\ lamports[e] \in Nat /\ escrow[e] \in EscrowState
  BY TypesOfState
<1>2. [outcome |-> outcome, elapsed |-> Elapsed(e), vault |-> lamports[e],
       terms |-> escrow[e], paid |-> paid, tip |-> tip] \in Receipt
  BY <1>1 DEF Receipt
<1> QED
  BY <1>2 DEF TypeOK, Settle, Pending

(* A resolution that closes the escrow account keeps the invariant. *)
LEMMA ResolutionKeepsIInv ==
  ASSUME IInv, NEW e \in PDA, Pending(e),
         NEW outcome \in Outcome, NEW paid \in Payout, NEW tip \in Transfer,
         Settle(e, outcome, paid, tip),
         NEW b \in Balances, lamports' = close(b, e),
         \A f \in PDA \ {e} : b[f] = lamports[f],
         slot' = slot,
         token' \in [TokenAccounts -> TokenAccount]
  PROVE  IInv'
<1>1. /\ lamports' \in Balances
      /\ lamports'[e] = 0
      /\ \A f \in PDA \ {e} : lamports'[f] = lamports[f]
  BY CloseEscrow
<1>2. /\ escrow' \in [PDA -> EscrowState \cup {NoEscrow}]
      /\ receipt' \in [PDA -> Receipt]
      /\ ~Pending(e)'
      /\ \A f \in PDA \ {e} : escrow'[f] = escrow[f]
  BY SettleClosesOne DEF IInv
<1>3. TypeOK'
  BY <1>1, <1>2 DEF IInv, TypeOK, Balances, Accounts
<1>4. Solvent'
  BY <1>1, <1>2, SolventKept DEF IInv
<1> QED
  BY <1>3, <1>4 DEF IInv

(* The payouts an instruction records are amounts of lamports. *)
LEMMA PayoutsAreNatural ==
  ASSUME IInv, NEW e \in PDA, Pending(e)
  PROVE  /\ Buffer(e) \in Nat /\ Buffer(e) <= lamports[e] /\ lamports[e] \in Nat
         /\ RescuePayout(e) \in Payout
         /\ PayoutWithBounty(e, 0) \in Payout
         /\ PayoutWithBounty(e, CleanupBounty(Buffer(e))) \in Payout
<1>1. Buffer(e) \in Nat /\ lamports[e] \in Nat
  BY TypesOfState DEF IInv
<1>2. Buffer(e) <= lamports[e]
  BY <1>1, AmountsAssumption DEF IInv, Solvent
<1>3. CleanupBounty(Buffer(e)) \in Nat /\ CleanupBounty(Buffer(e)) <= Buffer(e)
  BY <1>1, BountyBounds
<1>4. RescuePayout(e) \in Payout
  BY <1>1, <1>2, SharesAreTheBuffer DEF RescuePayout, Payout
<1>5. PayoutWithBounty(e, 0) \in Payout
  BY <1>1 DEF PayoutWithBounty, Payout
<1>6. lamports[e] - CleanupBounty(Buffer(e)) \in Nat
  BY <1>1, <1>2, <1>3
<1>7. PayoutWithBounty(e, CleanupBounty(Buffer(e))) \in Payout
  BY <1>3, <1>6 DEF PayoutWithBounty, Payout
<1> QED
  BY <1>1, <1>2, <1>4, <1>5, <1>7

-----------------------------------------------------------------------------
(* Each instruction, and each step of the environment, keeps the invariant. *)

(* initialize_escrow funds the new account with its rent and its buffer. *)
LEMMA InitializeEscrowKeepsIInv ==
  ASSUME IInv, NEW e \in PDA, NEW partner \in Partners,
         NEW input \in Inputs, NEW destination \in Destinations,
         NEW input_amount \in InputAmounts, NEW output \in OutputAmounts,
         NEW buffer \in Buffers, NEW minimum \in DynamicMinimums,
         InitializeEscrow(e, partner, input, destination, input_amount, output, buffer,
                          minimum)
  PROVE  IInv'
<1> DEFINE cost == ESCROW_RENT + buffer
<1>1. /\ input_amount \in Nat /\ output \in Nat /\ buffer \in Nat /\ cost \in Nat
      /\ ESCROW_RENT \in Nat
      /\ input \in TokenAccounts /\ destination \in TokenAccounts
  BY AmountsAssumption, AccountsAssumption
<1>2. slot \in Nat /\ lamports \in Balances /\ lamports[e] = 0
  BY TypesOfState DEF IInv, Solvent, InitializeEscrow
<1>3. UserWallet(e) \in Accounts /\ e \in Accounts /\ UserWallet(e) # e
  BY UserIsWallet DEF Accounts
<1>4. /\ lamports' \in Balances
      /\ lamports'[e] = cost
      /\ \A f \in PDA \ {e} : lamports'[f] = lamports[f]
  <2>1. lamports' = move_lamports(lamports, UserWallet(e), e, cost)
        /\ cost <= lamports[UserWallet(e)]
    BY <1>1, <1>2, <1>3 DEF InitializeEscrow, Balances
  <2>2. \A f \in PDA \ {e} : f \in Accounts \ {UserWallet(e), e}
    BY UserIsWallet
  <2> HIDE DEF cost
  <2> QED
    BY <1>1, <1>2, <1>3, <2>1, <2>2, MoveLamports
<1>5. /\ escrow' \in [PDA -> EscrowState \cup {NoEscrow}]
      /\ Pending(e)' /\ Buffer(e)' = buffer
      /\ \A f \in PDA \ {e} : escrow'[f] = escrow[f]
  BY <1>1, <1>2, NoEscrowAssumption
     DEF IInv, TypeOK, InitializeEscrow, EscrowState, Pending, Buffer
<1>6. token' \in [TokenAccounts -> TokenAccount]
  BY <1>1 DEF IInv, TypeOK, InitializeEscrow, TokenAccount, approve
<1>7. TypeOK'
  BY <1>4, <1>5, <1>6 DEF IInv, TypeOK, InitializeEscrow, Balances, Accounts
<1>8. Solvent'
  BY <1>1, <1>4, <1>5, SolventKept DEF IInv
<1> QED
  BY <1>7, <1>8 DEF IInv

(* execute_swap: the tip moves between wallets, then the escrow pays out at *)
(* most its buffer; what is left is swept.                                  *)
LEMMA SwapPaysFromOne ==
  ASSUME IInv, NEW e \in PDA, NEW caller \in Callers, NEW tip \in Transfer,
         NEW swap \in SwapOutcomes, ExecuteSwap(caller, e, tip, swap)
  PROVE  \E b \in Balances : /\ lamports' = close(b, e)
                             /\ \A f \in PDA \ {e} : b[f] = lamports[f]
<1> DEFINE tipped == TipPaid(tip)
           rescue == IsRescue(Elapsed(e))
           paid == IF rescue THEN RescueSplit(tipped, caller, e)
                             ELSE OrdinaryRefund(tipped, e)
<1>1. /\ Pending(e)
      /\ tip.amount <= lamports[tip.from]
      /\ lamports' = close(paid, e)
  <2>1. lamports[tip.from] \in Nat /\ tip.amount \in Nat
    BY AccountsAssumption DEF IInv, TypeOK, Transfer
  <2> QED
    BY <2>1 DEF ExecuteSwap, SwapAllowed, AfterSwap
<1>2. /\ lamports \in Balances
      /\ escrow[e] \in EscrowState
      /\ caller \in Wallets
      /\ tip.from \in Wallets /\ tip.to \in Wallets /\ tip.amount \in Nat
  BY <1>1, TypesOfState, AccountsAssumption DEF IInv, Transfer
<1>3. tipped \in Balances /\ \A f \in PDA : tipped[f] = lamports[f]
  BY <1>1, <1>2, MoveBetweenWallets DEF TipPaid
<1>4. Buffer(e) \in Nat /\ Buffer(e) <= tipped[e]
  BY <1>1, <1>3, PayoutsAreNatural
<1> HIDE DEF tipped
<1>5. paid \in Balances /\ \A f \in PDA \ {e} : paid[f] = tipped[f]
  <2>1. CASE rescue
    BY <1>2, <1>3, <1>4, <2>1, RescueSplitPays
  <2>2. CASE ~rescue
    BY <1>3, <1>4, <2>2, UserIsWallet, PayFromEscrow DEF OrdinaryRefund
  <2> QED
    BY <2>1, <2>2
<1> HIDE DEF paid
<1> QED
  BY <1>1, <1>3, <1>5

(* A swap closes its own escrow and leaves every other covered. *)
LEMMA ExecuteSwapKeepsIInv ==
  ASSUME IInv, NEW e \in PDA, NEW caller \in Callers, NEW tip \in Transfer,
         NEW swap \in SwapOutcomes, ExecuteSwap(caller, e, tip, swap)
  PROVE  IInv'
<1> DEFINE rescue == IsRescue(Elapsed(e))
<1>1. /\ Pending(e)
      /\ CpiSucceeds(e, swap)
      /\ slot' = slot
      /\ token' = AfterCpi(e, swap)
      /\ IF rescue THEN Settle(e, "rescue", RescuePayout(e), tip)
                   ELSE Settle(e, "ordinary", PayoutWithBounty(e, 0), tip)
  BY DEF ExecuteSwap, SwapAllowed, AfterSwap
<1>2. token' \in [TokenAccounts -> TokenAccount]
  BY <1>1, CpiTouchesOwnDelegations DEF IInv
<1>3. PICK outcome \in Outcome, p \in Payout : Settle(e, outcome, p, tip)
  BY <1>1, PayoutsAreNatural DEF Outcome
<1>4. PICK b \in Balances : lamports' = close(b, e) /\ \A f \in PDA \ {e} : b[f] = lamports[f]
  BY SwapPaysFromOne
<1> QED
  BY <1>1, <1>2, <1>3, <1>4, ResolutionKeepsIInv

(* The empty transfer is one, and so is every tip that is tried. *)
LEMMA TipsAreTransfers ==
  ASSUME TypeOK
  PROVE  /\ NoTip \in Transfer
         /\ \A e \in PDA : Pending(e) => TipChoices(e) \subseteq Transfer
<1>1. NoTip \in Transfer
  BY AccountsAssumption DEF NoTip, Transfer
<1>2. ASSUME NEW e \in PDA, Pending(e), NEW tip \in TipChoices(e)
      PROVE  tip \in Transfer
  <2>1. RequiredTip(Buffer(e), Elapsed(e)) \in Nat
    BY <1>2, TypesOfState, RequiredTipNat
  <2>2. /\ tip \in [from : TipPayers, to : TipTargets, named : BOOLEAN,
                    amount : Tips \cup {RequiredTip(Buffer(e), Elapsed(e))}]
        /\ TipPayers \subseteq Wallets /\ TipTargets \subseteq Wallets
        /\ Tips \cup {RequiredTip(Buffer(e), Elapsed(e))} \subseteq Nat
    BY <2>1, AccountsAssumption, AmountsAssumption DEF TipChoices
  <2> QED
    BY <2>2 DEF Transfer
<1> QED
  BY <1>1, <1>2

(* self_rescue sweeps the whole account to the user. *)
LEMMA SelfRescueKeepsIInv ==
  ASSUME IInv, NEW e \in PDA, SelfRescue(e)
  PROVE  IInv'
<1>1. Pending(e) /\ lamports \in Balances
  BY TypesOfState DEF IInv, SelfRescue, SelfRescueAllowed
<1>2. PayoutWithBounty(e, 0) \in Payout /\ NoTip \in Transfer
  BY <1>1, PayoutsAreNatural, TipsAreTransfers DEF IInv
<1>3. token' \in [TokenAccounts -> TokenAccount]
  BY DEF IInv, TypeOK, SelfRescue, SelfRescueAllowed, TokenAccount, revoke
<1>4. /\ Settle(e, "self_rescue", PayoutWithBounty(e, 0), NoTip)
      /\ lamports' = close(lamports, e)
      /\ slot' = slot
  BY DEF SelfRescue, SelfRescueAllowed
<1> QED
  BY <1>1, <1>2, <1>3, <1>4, ResolutionKeepsIInv DEF Outcome

(* cleanup_expired_escrow pays a bounty within the buffer, then sweeps. *)
LEMMA CleanupPaysFromOne ==
  ASSUME IInv, NEW e \in PDA, NEW caller \in Callers, CleanupExpiredEscrow(caller, e)
  PROVE  \E b \in Balances : /\ lamports' = close(b, e)
                             /\ \A f \in PDA \ {e} : b[f] = lamports[f]
<1> DEFINE bounty == CleanupBounty(Buffer(e))
           paid == move_lamports(lamports, e, caller, bounty)
<1>1. Pending(e) /\ lamports \in Balances /\ caller \in Wallets
  BY TypesOfState, AccountsAssumption DEF IInv, CleanupExpiredEscrow,
                                          PayBountyAndClose, CleanupAllowed, AfterCleanup
<1>2. bounty \in Nat /\ bounty <= lamports[e]
  BY <1>1, PayoutsAreNatural, BountyBounds
<1>3. paid \in Balances /\ \A f \in PDA \ {e} : paid[f] = lamports[f]
  BY <1>1, <1>2, PayFromEscrow
<1>4. lamports' = close(paid, e)
  BY DEF CleanupExpiredEscrow, PayBountyAndClose, CleanupAllowed, AfterCleanup
<1> HIDE DEF paid
<1> QED
  BY <1>3, <1>4

(* A cleanup closes its own escrow and leaves every other covered. *)
LEMMA CleanupKeepsIInv ==
  ASSUME IInv, NEW e \in PDA, NEW caller \in Callers, CleanupExpiredEscrow(caller, e)
  PROVE  IInv'
<1> DEFINE bounty == CleanupBounty(Buffer(e))
<1>1. /\ Pending(e)
      /\ Settle(e, "cleanup", PayoutWithBounty(e, bounty), NoTip)
      /\ slot' = slot /\ token' = token
  BY DEF CleanupExpiredEscrow, PayBountyAndClose, CleanupAllowed, AfterCleanup
<1>2. PayoutWithBounty(e, bounty) \in Payout /\ NoTip \in Transfer
  BY <1>1, PayoutsAreNatural, TipsAreTransfers DEF IInv
<1>3. PICK b \in Balances : lamports' = close(b, e) /\ \A f \in PDA \ {e} : b[f] = lamports[f]
  BY CleanupPaysFromOne
<1> HIDE DEF bounty
<1> QED
  BY <1>1, <1>2, <1>3, ResolutionKeepsIInv DEF Outcome, IInv, TypeOK

(* A wallet that pays into a live escrow leaves it covered. *)
LEMMA FundingMovesLamports ==
  ASSUME IInv, NEW e \in PDA, NEW sender \in Callers, NEW amount \in Nat,
         amount <= lamports[sender],
         lamports' = move_lamports(lamports, sender, e, amount)
  PROVE  /\ lamports' \in Balances
         /\ lamports'[e] = lamports[e] + amount
         /\ \A f \in PDA \ {e} : lamports'[f] = lamports[f]
<1>1. lamports \in Balances /\ sender \in Accounts /\ e \in Accounts /\ sender # e
  BY TypesOfState, AccountsAssumption, UserIsWallet DEF IInv, Accounts
<1>2. \A f \in PDA \ {e} : f \in Accounts \ {sender, e}
  BY AccountsAssumption, UserIsWallet
<1> QED
  BY <1>1, <1>2, MoveLamports

(* top_up_buffer adds the same amount to the balance and to the buffer. *)
LEMMA TopUpKeepsIInv ==
  ASSUME IInv, NEW e \in PDA, NEW contributor \in Callers, NEW amount \in TopUps,
         TopUpBuffer(contributor, e, amount)
  PROVE  IInv'
<1>1. /\ Pending(e)
      /\ amount \in Nat /\ ESCROW_RENT \in Nat
      /\ Buffer(e) \in Nat /\ lamports[e] \in Nat
      /\ escrow[e] \in EscrowState
      /\ lamports[e] >= ESCROW_RENT + Buffer(e)
  BY TypesOfState, AmountsAssumption DEF IInv, Solvent, TopUpBuffer
<1>2. lamports[contributor] \in Nat
  BY AccountsAssumption DEF IInv, TypeOK
<1>3. /\ lamports' \in Balances
      /\ lamports'[e] = lamports[e] + amount
      /\ \A f \in PDA \ {e} : lamports'[f] = lamports[f]
  BY <1>1, <1>2, FundingMovesLamports DEF TopUpBuffer
<1>4. /\ escrow' = [escrow EXCEPT ![e] = topped_up(@, amount)]
      /\ slot' = slot /\ token' = token /\ receipt' = receipt
  BY DEF TopUpBuffer
<1>5. /\ topped_up(escrow[e], amount) \in EscrowState
      /\ topped_up(escrow[e], amount).gas_buffer_lamports = Buffer(e) + amount
  BY <1>1 DEF EscrowState, topped_up, Buffer
<1>6. /\ escrow' \in [PDA -> EscrowState \cup {NoEscrow}]
      /\ Pending(e)'
      /\ Buffer(e)' = Buffer(e) + amount
      /\ \A f \in PDA \ {e} : escrow'[f] = escrow[f]
  BY <1>1, <1>4, <1>5, NoEscrowAssumption DEF IInv, TypeOK, Pending, Buffer
<1>7. TypeOK'
  BY <1>3, <1>4, <1>6 DEF IInv, TypeOK, Balances, Accounts
<1>8. Solvent'
  BY <1>1, <1>3, <1>6, SolventKept DEF IInv
<1> QED
  BY <1>7, <1>8 DEF IInv

(* A stray transfer adds to the balance alone. *)
LEMMA DonateKeepsIInv ==
  ASSUME IInv, NEW e \in PDA, NEW sender \in Callers, NEW amount \in Donations,
         Donate(sender, e, amount)
  PROVE  IInv'
<1>1. /\ Pending(e)
      /\ amount \in Nat /\ ESCROW_RENT \in Nat
      /\ Buffer(e) \in Nat /\ lamports[e] \in Nat
      /\ lamports[e] >= ESCROW_RENT + Buffer(e)
  BY TypesOfState, AmountsAssumption DEF IInv, Solvent, Donate
<1>2. lamports[sender] \in Nat
  BY AccountsAssumption DEF IInv, TypeOK
<1>3. /\ lamports' \in Balances
      /\ lamports'[e] = lamports[e] + amount
      /\ \A f \in PDA \ {e} : lamports'[f] = lamports[f]
  BY <1>1, <1>2, FundingMovesLamports DEF Donate
<1>4. UNCHANGED <<slot, escrow, token, receipt>>
  BY DEF Donate
<1>5. Pending(e)' /\ Buffer(e)' = Buffer(e)
  BY <1>1, <1>4 DEF Pending, Buffer
<1>6. TypeOK'
  BY <1>3, <1>4 DEF IInv, TypeOK, Balances, Accounts
<1>7. Solvent'
  BY <1>1, <1>3, <1>4, <1>5, SolventKept DEF IInv
<1> QED
  BY <1>6, <1>7 DEF IInv

(* What a user does to a token account, and the clock, touch no escrow. *)
LEMMA BystandersKeepIInv ==
  ASSUME IInv, UNCHANGED <<escrow, lamports, receipt>>,
         slot' \in Nat, token' \in [TokenAccounts -> TokenAccount]
  PROVE  IInv'
<1>1. TypeOK'
  BY DEF IInv, TypeOK
<1>2. Solvent'
  BY DEF IInv, Solvent, Pending, Buffer
<1> QED
  BY <1>1, <1>2 DEF IInv

(* What owners do with their token accounts moves no lamports. *)
LEMMA TokenOwnerKeepsIInv ==
  ASSUME IInv, NEW a \in TokenAccounts,
         RevokeDelegation(a) \/ MoveTokens(a) \/ CloseTokenAccount(a) \/ ReopenTokenAccount(a)
  PROVE  IInv'
<1>1. UNCHANGED <<slot, escrow, lamports, receipt>>
  BY DEF RevokeDelegation, MoveTokens, CloseTokenAccount, ReopenTokenAccount
<1>2. token' \in [TokenAccounts -> TokenAccount]
  <2>1. token \in [TokenAccounts -> TokenAccount]
    BY DEF IInv, TypeOK
  <2>2. CASE RevokeDelegation(a)
    BY <2>1, <2>2 DEF RevokeDelegation, TokenAccount, revoke
  <2>3. CASE CloseTokenAccount(a)
    BY <2>1, <2>3 DEF CloseTokenAccount, TokenAccount, EmptyAccount
  <2>4. CASE ReopenTokenAccount(a)
    BY <2>1, <2>4 DEF ReopenTokenAccount, TokenAccount, EmptyAccount
  <2>5. CASE MoveTokens(a)
    BY <2>1, <2>5, AmountsAssumption DEF MoveTokens, TokenAccount
  <2> QED
    BY <2>2, <2>3, <2>4, <2>5
<1>3. slot' \in Nat
  BY <1>1 DEF IInv, TypeOK
<1> QED
  BY <1>1, <1>2, <1>3, BystandersKeepIInv

-----------------------------------------------------------------------------
(* In the initial state no escrow is open, and none holds a lamport. *)
LEMMA InitIInv == Init => IInv
<1> SUFFICES ASSUME Init PROVE IInv
  OBVIOUS
<1>1. NoReceipt \in Receipt
  BY AccountsAssumption DEF NoReceipt, Receipt, Payout, NoTip, Transfer, Outcome
<1>2. lamports \in [Wallets \cup PDA -> Nat]
  BY AmountsAssumption DEF Init
<1>3. TypeOK
  <2>1. [EmptyAccount(TRUE) EXCEPT !.amount = InitialTokens] \in TokenAccount
    BY AmountsAssumption DEF EmptyAccount, TokenAccount
  <2> QED
    BY <1>1, <1>2, <2>1 DEF Init, TypeOK
<1>4. Solvent
  BY AccountsAssumption DEF Init, Solvent, Pending
<1> QED
  BY <1>3, <1>4 DEF IInv

(* Every step keeps the invariant. *)
LEMMA NextIInv == IInv /\ [Next]_vars => IInv'
<1> SUFFICES ASSUME IInv, [Next]_vars PROVE IInv'
  OBVIOUS
<1>1. ASSUME NEW e \in PDA, NEW p \in Partners, NEW a \in Inputs,
             NEW b \in Destinations, NEW amount \in InputAmounts,
             NEW output \in OutputAmounts, NEW buffer \in Buffers,
             NEW minimum \in DynamicMinimums,
             InitializeEscrow(e, p, a, b, amount, output, buffer, minimum)
      PROVE  IInv'
  BY <1>1, InitializeEscrowKeepsIInv
<1>2. ASSUME NEW e \in PDA, Swap(e)
      PROVE  IInv'
  <2>1. PICK c \in Callers, tip \in TipChoices(e), swap \in SwapOutcomes :
          ExecuteSwap(c, e, tip, swap)
    BY <1>2 DEF Swap
  <2>2. tip \in Transfer
    BY <1>2, <2>1, TipsAreTransfers DEF IInv, Swap
  <2> QED
    BY <2>1, <2>2, ExecuteSwapKeepsIInv
<1>3. ASSUME NEW e \in PDA, SelfRescue(e)
      PROVE  IInv'
  BY <1>3, SelfRescueKeepsIInv
<1>4. ASSUME NEW e \in PDA, Cleanup(e)
      PROVE  IInv'
  BY <1>4, CleanupKeepsIInv DEF Cleanup
<1>5. ASSUME NEW c \in Callers, NEW e \in PDA, NEW amount \in TopUps,
             TopUpBuffer(c, e, amount)
      PROVE  IInv'
  BY <1>5, TopUpKeepsIInv
<1>6. ASSUME NEW c \in Callers, NEW e \in PDA, NEW amount \in Donations,
             Donate(c, e, amount)
      PROVE  IInv'
  BY <1>6, DonateKeepsIInv
<1>7. ASSUME NEW a \in TokenAccounts,
             RevokeDelegation(a) \/ MoveTokens(a) \/ CloseTokenAccount(a) \/ ReopenTokenAccount(a)
      PROVE  IInv'
  BY <1>7, TokenOwnerKeepsIInv
<1>8. CASE NextSlot
  BY <1>8, BystandersKeepIInv DEF NextSlot, IInv, TypeOK
<1>9. CASE UNCHANGED vars
  BY <1>9, BystandersKeepIInv DEF vars, IInv, TypeOK
<1> QED
  BY <1>1, <1>2, <1>3, <1>4, <1>5, <1>6, <1>7, <1>8, <1>9 DEF Next

(* The invariant holds in every state of every behaviour. *)
THEOREM EscrowInvariant == Spec => []IInv
BY InitIInv, NextIInv, PTL DEF Spec

(* Accounts, balances, delegations and receipts keep their types: no balance *)
(* and no allowance ever goes below zero.                                    *)
THEOREM EscrowTypes == Spec => []TypeOK
<1>1. IInv => TypeOK
  BY DEF IInv
<1> QED
  BY <1>1, EscrowInvariant, PTL

(* A live escrow holds its rent and all of its recorded buffer, whatever     *)
(* top-ups, donations and other escrows came before; a closed one is empty,  *)
(* so every move_lamports out of an escrow is covered.                       *)
THEOREM EscrowSolvency == Spec => []Solvent
<1>1. IInv => Solvent
  BY DEF IInv
<1> QED
  BY <1>1, EscrowInvariant, PTL

-----------------------------------------------------------------------------
(* What every resolved escrow was paid out.  Receipts are only written by the *)
(* three resolving instructions; each writes an honest receipt if the escrow  *)
(* it closes is solvent and its buffer is payable, and every step keeps both. *)
(* Beside them: whose tokens an escrow's delegations can reach.               *)

(* A buffer somebody could pay keeps the tip curve from saturating. *)
BuffersPayable == \A e \in PDA : Pending(e) => Buffer(e) <= MaxBuffer

Honest(r) == PaidAsPromised(r) /\ NothingAtFirstSlot(r)

(* A PDA is delegate of its own user's accounts only, and at an address that *)
(* no escrow was resolved at yet, of the live escrow's input account only.   *)
OnlyOwnDelegations ==
  \A e \in PDA, a \in TokenAccounts :
    token[a].delegate = e =>
      /\ TokenOwner[a] = UserWallet(e)
      /\ receipt[e].outcome = "none" => Pending(e) /\ Input(e) = a

LInv == IInv /\ BuffersPayable /\ AllowanceAllOrNothing /\ OnlyOwnDelegations

HInv == LInv /\ \A e \in PDA : Honest(receipt[e])

-----------------------------------------------------------------------------
(* A step that leaves the live escrows' records and delegations alone, or     *)
(* closes some, keeps the buffers payable.                                    *)
LEMMA BuffersStayPayable ==
  ASSUME IInv, BuffersPayable, [Next]_vars
  PROVE  BuffersPayable'
<1> USE DEF BuffersPayable, Pending, Buffer
<1>1. ASSUME NEW e \in PDA, NEW p \in Partners, NEW a \in Inputs,
             NEW b \in Destinations, NEW amount \in InputAmounts,
             NEW output \in OutputAmounts, NEW buffer \in Buffers,
             NEW minimum \in DynamicMinimums,
             InitializeEscrow(e, p, a, b, amount, output, buffer, minimum)
      PROVE  BuffersPayable'
  BY <1>1, SupplyAssumption DEF InitializeEscrow, IInv, TypeOK
<1>2. ASSUME NEW e \in PDA, escrow' = [escrow EXCEPT ![e] = NoEscrow]
      PROVE  BuffersPayable'
  BY <1>2 DEF IInv, TypeOK
<1>3. ASSUME NEW c \in Callers, NEW e \in PDA, NEW amount \in TopUps,
             TopUpBuffer(c, e, amount)
      PROVE  BuffersPayable'
  <2>1. escrow[e] \in EscrowState
    BY <1>3, TypesOfState DEF IInv, TopUpBuffer
  <2>2. escrow'[e].gas_buffer_lamports <= MaxBuffer
    BY <1>3, <2>1 DEF TopUpBuffer, IInv, TypeOK, EscrowState, topped_up
  <2>3. \A f \in PDA \ {e} : escrow'[f] = escrow[f]
    BY <1>3 DEF TopUpBuffer, IInv, TypeOK
  <2> QED
    BY <2>2, <2>3
<1>4. ASSUME UNCHANGED escrow
      PROVE  BuffersPayable'
  BY <1>4
<1>5. ASSUME NEW e \in PDA, Swap(e) \/ SelfRescue(e) \/ Cleanup(e)
      PROVE  escrow' = [escrow EXCEPT ![e] = NoEscrow]
  BY <1>5 DEF Swap, ExecuteSwap, SwapAllowed, AfterSwap, SelfRescue, SelfRescueAllowed,
              Cleanup, CleanupExpiredEscrow, PayBountyAndClose, CleanupAllowed, AfterCleanup, Settle
<1>6. ASSUME \/ \E c \in Callers, e \in PDA, amount \in Donations : Donate(c, e, amount)
             \/ \E a \in TokenAccounts : RevokeDelegation(a)
             \/ \E a \in TokenAccounts : MoveTokens(a)
             \/ \E a \in TokenAccounts : CloseTokenAccount(a)
             \/ \E a \in TokenAccounts : ReopenTokenAccount(a)
             \/ NextSlot
             \/ UNCHANGED vars
      PROVE  UNCHANGED escrow
  BY <1>6 DEF Donate, RevokeDelegation, MoveTokens, CloseTokenAccount, ReopenTokenAccount,
              NextSlot, vars
<1> QED
  BY <1>1, <1>2, <1>3, <1>4, <1>5, <1>6 DEF Next

-----------------------------------------------------------------------------
(* Whoever is delegated on a live escrow's account after the step was         *)
(* delegated before it, for the same allowance, or was just approved.         *)
LEMMA AllowanceStaysWhole ==
  ASSUME IInv, AllowanceAllOrNothing, [Next]_vars
  PROVE  AllowanceAllOrNothing'
<1> USE DEF AllowanceAllOrNothing, Pending, Delegated, Input
<1>0. /\ escrow \in [PDA -> EscrowState \cup {NoEscrow}]
      /\ token \in [TokenAccounts -> TokenAccount]
      /\ \A f \in PDA : Pending(f) => Input(f) \in TokenAccounts
      /\ NoDelegate \notin PDA
  BY TypesOfState, AccountsAssumption DEF IInv, TypeOK
<1>1. ASSUME NEW e \in PDA, NEW p \in Partners, NEW a \in Inputs,
             NEW b \in Destinations, NEW amount \in InputAmounts,
             NEW output \in OutputAmounts, NEW buffer \in Buffers,
             NEW minimum \in DynamicMinimums,
             InitializeEscrow(e, p, a, b, amount, output, buffer, minimum)
      PROVE  AllowanceAllOrNothing'
  <2>1. /\ a \in TokenAccounts
        /\ amount \in Nat
        /\ token' = [token EXCEPT ![a] = approve(@, e, amount)]
        /\ escrow'[e].input_amount = amount
        /\ escrow'[e].user_input_token_account = a
        /\ \A f \in PDA \ {e} : escrow'[f] = escrow[f]
    BY <1>0, <1>1, AccountsAssumption, AmountsAssumption DEF InitializeEscrow
  <2>2. /\ token'[a].delegate = e /\ token'[a].allowance = amount
        /\ \A x \in TokenAccounts \ {a} : token'[x] = token[x]
    BY <1>0, <2>1 DEF approve, TokenAccount
  <2> QED
    BY <1>0, <2>1, <2>2
<1>2. ASSUME NEW e \in PDA, NEW c \in Callers, NEW tip, NEW swap \in SwapOutcomes,
             ExecuteSwap(c, e, tip, swap)
      PROVE  AllowanceAllOrNothing'
  <2>1. /\ Pending(e) /\ CpiSucceeds(e, swap)
        /\ token' = AfterCpi(e, swap)
        /\ escrow' = [escrow EXCEPT ![e] = NoEscrow]
    BY <1>2 DEF ExecuteSwap, SwapAllowed, AfterSwap, Settle
  <2>2. \A x \in TokenAccounts :
          /\ token'[x].open = token[x].open
          /\ token'[x].delegate \in {token[x].delegate, NoDelegate}
          /\ token[x].delegate # e =>
               /\ token'[x].delegate = token[x].delegate
               /\ token'[x].allowance = token[x].allowance
    BY <2>1, CpiTouchesOwnDelegations DEF IInv
  <2>3. escrow'[e] = NoEscrow /\ \A f \in PDA \ {e} : escrow'[f] = escrow[f]
    BY <1>0, <2>1
  <2> SUFFICES ASSUME NEW f \in PDA, Pending(f)', Delegated(f)'
               PROVE  token'[Input(f)'].allowance = escrow'[f].input_amount
    OBVIOUS
  <2>4. f # e /\ escrow'[f] = escrow[f] /\ Pending(f)
    BY <2>3
  <2>5. Input(f)' = Input(f) /\ Input(f) \in TokenAccounts
    BY <1>0, <2>4
  <2>6. token[Input(f)].delegate = f /\ token[Input(f)].open
    BY <1>0, <2>2, <2>5
  <2> QED
    BY <2>2, <2>4, <2>5, <2>6
<1>3. ASSUME NEW a \in TokenAccounts, token'[a].delegate = NoDelegate,
             \A x \in TokenAccounts \ {a} : token'[x] = token[x],
             \A f \in PDA : escrow'[f] \in {escrow[f], NoEscrow}
      PROVE  AllowanceAllOrNothing'
  BY <1>0, <1>3
<1>4. ASSUME NEW e \in PDA, SelfRescue(e)
      PROVE  AllowanceAllOrNothing'
  <2>1. /\ Input(e) \in TokenAccounts
        /\ token'[Input(e)].delegate = NoDelegate
        /\ \A x \in TokenAccounts \ {Input(e)} : token'[x] = token[x]
    BY <1>0, <1>4 DEF SelfRescue, SelfRescueAllowed, revoke, TokenAccount
  <2>2. \A f \in PDA : escrow'[f] \in {escrow[f], NoEscrow}
    BY <1>0, <1>4 DEF SelfRescue, SelfRescueAllowed, Settle
  <2> QED
    BY <1>3, <2>1, <2>2
<1>5. ASSUME NEW e \in PDA, Cleanup(e)
      PROVE  AllowanceAllOrNothing'
  <2>1. token' = token /\ \A f \in PDA : escrow'[f] \in {escrow[f], NoEscrow}
    BY <1>0, <1>5 DEF Cleanup, CleanupExpiredEscrow, PayBountyAndClose, CleanupAllowed,
                      AfterCleanup, Settle
  <2> QED
    BY <2>1
<1>6. ASSUME NEW c \in Callers, NEW e \in PDA, NEW amount \in TopUps,
             TopUpBuffer(c, e, amount)
      PROVE  AllowanceAllOrNothing'
  <2>1. /\ token' = token
        /\ escrow[e] \in EscrowState
        /\ escrow' = [escrow EXCEPT ![e] =
                        [escrow[e] EXCEPT !.gas_buffer_lamports = @ + amount]]
    BY <1>0, <1>6, TypesOfState DEF IInv, TopUpBuffer, topped_up
  <2>2. /\ escrow'[e].input_amount = escrow[e].input_amount
        /\ escrow'[e].user_input_token_account = escrow[e].user_input_token_account
        /\ \A f \in PDA \ {e} : escrow'[f] = escrow[f]
    BY <1>0, <2>1 DEF EscrowState
  <2>3. escrow[e] # NoEscrow
    BY <2>1, NoEscrowAssumption
  <2> QED
    BY <1>0, <2>1, <2>2, <2>3
<1>7. ASSUME NEW a \in TokenAccounts,
             RevokeDelegation(a) \/ CloseTokenAccount(a) \/ ReopenTokenAccount(a)
      PROVE  AllowanceAllOrNothing'
  <2>1. UNCHANGED escrow
    BY <1>7 DEF RevokeDelegation, CloseTokenAccount, ReopenTokenAccount
  <2>2. token'[a].delegate = NoDelegate /\ \A x \in TokenAccounts \ {a} : token'[x] = token[x]
    <3>1. CASE RevokeDelegation(a)
      BY <1>0, <3>1 DEF RevokeDelegation, TokenAccount, revoke
    <3>2. CASE CloseTokenAccount(a)
      BY <1>0, <3>2 DEF CloseTokenAccount, EmptyAccount
    <3>3. CASE ReopenTokenAccount(a)
      BY <1>0, <3>3 DEF ReopenTokenAccount, EmptyAccount
    <3> QED
      BY <1>7, <3>1, <3>2, <3>3
  <2> QED
    BY <1>3, <2>1, <2>2
<1>9. ASSUME NEW a \in TokenAccounts, MoveTokens(a)
      PROVE  AllowanceAllOrNothing'
  <2>1. UNCHANGED escrow
    BY <1>9 DEF MoveTokens
  <2>2. \A x \in TokenAccounts : /\ token'[x].open = token[x].open
                                 /\ token'[x].delegate = token[x].delegate
                                 /\ token'[x].allowance = token[x].allowance
    BY <1>0, <1>9 DEF MoveTokens, TokenAccount
  <2> QED
    BY <1>0, <2>1, <2>2
<1>8. ASSUME \/ \E c \in Callers, e \in PDA, amount \in Donations : Donate(c, e, amount)
             \/ NextSlot
             \/ UNCHANGED vars
      PROVE  AllowanceAllOrNothing'
  <2>1. UNCHANGED <<escrow, token>>
    BY <1>8 DEF Donate, NextSlot, vars
  <2> QED
    BY <2>1
<1> QED
  BY <1>1, <1>2, <1>4, <1>5, <1>6, <1>7, <1>8, <1>9 DEF Next, Swap

(* An approval makes an escrow delegate of its own input account; after that *)
(* its delegations only lapse, except that they can outlive the escrow.      *)
LEMMA DelegationsStayOwn ==
  ASSUME IInv, OnlyOwnDelegations, [Next]_vars
  PROVE  OnlyOwnDelegations'
<1>0. /\ escrow \in [PDA -> EscrowState \cup {NoEscrow}]
      /\ token \in [TokenAccounts -> TokenAccount]
      /\ receipt \in [PDA -> Receipt]
      /\ NoDelegate \notin PDA
  BY AccountsAssumption DEF IInv, TypeOK
<1>1. ASSUME NEW e \in PDA, NEW p \in Partners, NEW a \in Inputs,
             NEW b \in Destinations, NEW amount \in InputAmounts,
             NEW output \in OutputAmounts, NEW buffer \in Buffers,
             NEW minimum \in DynamicMinimums,
             InitializeEscrow(e, p, a, b, amount, output, buffer, minimum)
      PROVE  OnlyOwnDelegations'
  <2>1. /\ a \in TokenAccounts /\ TokenOwner[a] = UserWallet(e)
        /\ token' = [token EXCEPT ![a] = approve(@, e, amount)]
        /\ ~Pending(e) /\ receipt' = receipt
        /\ escrow'[e].user_input_token_account = a
        /\ escrow'[e].input_amount = amount
        /\ \A f \in PDA \ {e} : escrow'[f] = escrow[f]
    BY <1>0, <1>1, AccountsAssumption DEF InitializeEscrow
  <2>2. /\ token'[a].delegate = e
        /\ \A x \in TokenAccounts \ {a} : token'[x] = token[x]
    BY <1>0, <2>1 DEF approve, TokenAccount
  <2>3. Pending(e)'
    <3>1. escrow'[e] \in EscrowState
      BY <1>0, <1>1, <2>1, AccountsAssumption, AmountsAssumption
         DEF InitializeEscrow, EscrowState, IInv, TypeOK
    <3> QED
      BY <3>1, NoEscrowAssumption DEF Pending
  <2> SUFFICES ASSUME NEW f \in PDA, NEW x \in TokenAccounts, token'[x].delegate = f
               PROVE  /\ TokenOwner[x] = UserWallet(f)
                      /\ receipt'[f].outcome = "none" => Pending(f)' /\ Input(f)' = x
    BY DEF OnlyOwnDelegations, UserWallet
  <2>4. CASE x = a
    BY <2>1, <2>2, <2>3, <2>4 DEF Input
  <2>5. CASE x # a /\ f = e
    BY <2>1, <2>2, <2>5 DEF OnlyOwnDelegations
  <2>6. CASE x # a /\ f # e
    BY <2>1, <2>2, <2>6 DEF OnlyOwnDelegations, Pending, Input
  <2> QED
    BY <2>4, <2>5, <2>6
<1>2. ASSUME \A a \in TokenAccounts : token'[a].delegate \in {token[a].delegate, NoDelegate},
             \A f \in PDA :
               \/ receipt'[f].outcome # "none"
               \/ /\ receipt'[f] = receipt[f]
                  /\ Pending(f) => Pending(f)' /\ Input(f)' = Input(f)
      PROVE  OnlyOwnDelegations'
  <2> SUFFICES ASSUME NEW f \in PDA, NEW x \in TokenAccounts, token'[x].delegate = f
               PROVE  /\ TokenOwner[x] = UserWallet(f)
                      /\ receipt'[f].outcome = "none" => Pending(f)' /\ Input(f)' = x
    BY DEF OnlyOwnDelegations, UserWallet
  <2>1. token[x].delegate = f
    BY <1>0, <1>2
  <2> QED
    BY <1>2, <2>1 DEF OnlyOwnDelegations
<1>3. ASSUME NEW e \in PDA, Swap(e) \/ SelfRescue(e) \/ Cleanup(e)
      PROVE  \A f \in PDA :
               \/ receipt'[f].outcome # "none"
               \/ /\ receipt'[f] = receipt[f]
                  /\ Pending(f) => Pending(f)' /\ Input(f)' = Input(f)
  <2>1. /\ receipt'[e].outcome # "none"
        /\ \A f \in PDA \ {e} : receipt'[f] = receipt[f] /\ escrow'[f] = escrow[f]
    BY <1>0, <1>3 DEF Swap, ExecuteSwap, SwapAllowed, AfterSwap, SelfRescue,
                      SelfRescueAllowed, Cleanup, CleanupExpiredEscrow, PayBountyAndClose,
                      CleanupAllowed, AfterCleanup, Settle
  <2> QED
    BY <2>1 DEF Pending, Input
<1>4. ASSUME NEW e \in PDA, Swap(e)
      PROVE  OnlyOwnDelegations'
  <2>1. PICK c \in Callers, tip \in TipChoices(e), swap \in SwapOutcomes :
          ExecuteSwap(c, e, tip, swap)
    BY <1>4 DEF Swap
  <2>2. Pending(e) /\ CpiSucceeds(e, swap) /\ token' = AfterCpi(e, swap)
    BY <2>1 DEF ExecuteSwap, SwapAllowed, AfterSwap
  <2>3. \A a \in TokenAccounts : token'[a].delegate \in {token[a].delegate, NoDelegate}
    BY <2>2, CpiTouchesOwnDelegations DEF IInv
  <2> QED
    BY <1>2, <1>3, <1>4, <2>3
<1>5. ASSUME NEW e \in PDA, SelfRescue(e) \/ Cleanup(e)
      PROVE  OnlyOwnDelegations'
  <2>1. \A a \in TokenAccounts : token'[a].delegate \in {token[a].delegate, NoDelegate}
    <3>1. CASE SelfRescue(e)
      BY <1>0, <3>1 DEF SelfRescue, SelfRescueAllowed, revoke, TokenAccount
    <3>2. CASE Cleanup(e)
      BY <3>2 DEF Cleanup, CleanupExpiredEscrow, PayBountyAndClose, CleanupAllowed,
                  AfterCleanup
    <3> QED
      BY <1>5, <3>1, <3>2
  <2> QED
    BY <1>2, <1>3, <1>5, <2>1
<1>6. ASSUME NEW c \in Callers, NEW e \in PDA, NEW amount \in TopUps,
             TopUpBuffer(c, e, amount)
      PROVE  OnlyOwnDelegations'
  <2>1. /\ token' = token /\ receipt' = receipt
        /\ escrow[e] \in EscrowState
        /\ amount \in Nat
        /\ escrow' = [escrow EXCEPT ![e] = topped_up(@, amount)]
    BY <1>6, TypesOfState, AmountsAssumption DEF IInv, TopUpBuffer
  <2>2. /\ topped_up(escrow[e], amount) \in EscrowState
        /\ topped_up(escrow[e], amount).user_input_token_account
             = escrow[e].user_input_token_account
    BY <2>1 DEF EscrowState, topped_up
  <2>3. \A f \in PDA : Pending(f) => Pending(f)' /\ Input(f)' = Input(f)
    BY <1>0, <2>1, <2>2, NoEscrowAssumption DEF Pending, Input
  <2> QED
    BY <1>2, <2>1, <2>3
<1>7. ASSUME NEW a \in TokenAccounts,
             RevokeDelegation(a) \/ MoveTokens(a) \/ CloseTokenAccount(a) \/ ReopenTokenAccount(a)
      PROVE  OnlyOwnDelegations'
  <2>1. UNCHANGED <<escrow, receipt>>
    BY <1>7 DEF RevokeDelegation, MoveTokens, CloseTokenAccount, ReopenTokenAccount
  <2>2. \A x \in TokenAccounts : token'[x].delegate \in {token[x].delegate, NoDelegate}
    <3>1. CASE RevokeDelegation(a)
      BY <1>0, <3>1 DEF RevokeDelegation, revoke, TokenAccount
    <3>2. CASE MoveTokens(a)
      BY <1>0, <3>2 DEF MoveTokens, TokenAccount
    <3>3. CASE CloseTokenAccount(a)
      BY <1>0, <3>3 DEF CloseTokenAccount, EmptyAccount
    <3>4. CASE ReopenTokenAccount(a)
      BY <1>0, <3>4 DEF ReopenTokenAccount, EmptyAccount
    <3> QED
      BY <1>7, <3>1, <3>2, <3>3, <3>4
  <2> QED
    BY <1>2, <2>1, <2>2 DEF Pending, Input
<1>8. ASSUME \/ \E c \in Callers, e \in PDA, amount \in Donations : Donate(c, e, amount)
             \/ NextSlot
             \/ UNCHANGED vars
      PROVE  OnlyOwnDelegations'
  <2>1. UNCHANGED <<escrow, token, receipt>>
    BY <1>8 DEF Donate, NextSlot, vars
  <2> QED
    BY <1>2, <2>1 DEF Pending, Input
<1> QED
  BY <1>1, <1>4, <1>5, <1>6, <1>7, <1>8 DEF Next

-----------------------------------------------------------------------------
(* The facts about a live escrow that make its receipt honest. *)
LEMMA LiveEscrowFacts ==
  ASSUME LInv, NEW e \in PDA, Pending(e)
  PROVE  /\ Buffer(e) \in Nat
         /\ lamports[e] \in Nat
         /\ ESCROW_RENT \in Nat
         /\ lamports[e] >= ESCROW_RENT + Buffer(e)
         /\ Buffer(e) * TIP_DECAY_SLOTS <= MAX_U64
         /\ Elapsed(e) \in Nat
         /\ TTL_SLOTS \in Nat
<1>1. /\ Buffer(e) \in Nat /\ lamports[e] \in Nat /\ Elapsed(e) \in Nat
      /\ lamports[e] >= ESCROW_RENT + Buffer(e)
  BY TypesOfState DEF LInv, IInv, Solvent
<1>2. /\ Buffer(e) <= MaxBuffer /\ MaxBuffer \in Nat
      /\ TIP_DECAY_SLOTS \in Nat /\ MAX_U64 \in Nat
  BY WindowsAssumption, TipAssumption DEF LInv, BuffersPayable
<1>3. TIP_DECAY_SLOTS * Buffer(e) <= TIP_DECAY_SLOTS * MaxBuffer
  BY <1>1, <1>2, MultiplyMonotone
<1>4. Buffer(e) * TIP_DECAY_SLOTS = TIP_DECAY_SLOTS * Buffer(e)
      /\ MaxBuffer * TIP_DECAY_SLOTS = TIP_DECAY_SLOTS * MaxBuffer
      /\ TIP_DECAY_SLOTS * Buffer(e) \in Nat
      /\ TIP_DECAY_SLOTS * MaxBuffer \in Nat
  BY <1>1, <1>2
<1>5. Buffer(e) * TIP_DECAY_SLOTS <= MAX_U64
  BY <1>2, <1>3, <1>4, SupplyAssumption
<1> QED
  BY <1>1, <1>5, AmountsAssumption, TipAssumption

(* The receipt of a rescue: the user loses the buffer and no more, and the   *)
(* transfer it brought is in the first slot at least the keeper's share.     *)
LEMMA RescueIsHonest ==
  ASSUME LInv, NEW e \in PDA, Pending(e), IsRescue(Elapsed(e)),
         NEW tip \in Transfer, tip.amount >= RequiredTip(Buffer(e), Elapsed(e))
  PROVE  Honest([outcome |-> "rescue", elapsed |-> Elapsed(e), vault |-> lamports[e],
                 terms |-> escrow[e], paid |-> RescuePayout(e), tip |-> tip])
<1> DEFINE r == [outcome |-> "rescue", elapsed |-> Elapsed(e), vault |-> lamports[e],
                 terms |-> escrow[e], paid |-> RescuePayout(e), tip |-> tip]
           k == KeeperShare(Buffer(e))
           p == PartnerShare(Buffer(e))
           t == TreasuryShare(Buffer(e))
<1>1. /\ Buffer(e) \in Nat /\ lamports[e] \in Nat /\ ESCROW_RENT \in Nat
      /\ lamports[e] >= ESCROW_RENT + Buffer(e)
      /\ Buffer(e) * TIP_DECAY_SLOTS <= MAX_U64
      /\ Elapsed(e) \in Nat /\ TTL_SLOTS \in Nat
  BY LiveEscrowFacts
<1>2. k \in Nat /\ p \in Nat /\ t \in Nat /\ k + p + t = Buffer(e)
  BY <1>1, SharesAreTheBuffer
<1>3. /\ r.paid.user = lamports[e] - Buffer(e)
      /\ r.paid.caller = k /\ r.paid.partner = p /\ r.paid.treasury = t
  BY DEF RescuePayout
<1>4. Elapsed(e) > TTL_SLOTS
  BY DEF IsRescue
<1>5. ASSUME Elapsed(e) = TTL_SLOTS + 1
      PROVE  k <= tip.amount
  <2>1. k <= RequiredTip(Buffer(e), TTL_SLOTS + 1)
    BY <1>1, FirstSlotTipIsTheShare
  <2>2. RequiredTip(Buffer(e), Elapsed(e)) \in Nat /\ tip.amount \in Nat
    BY <1>1, RequiredTipNat DEF Transfer
  <2> HIDE DEF k
  <2> QED
    BY <1>2, <1>5, <2>1, <2>2
<1> HIDE DEF k, p, t
<1>6. PaidAsPromised(r)
  BY <1>1, <1>2, <1>3, <1>4 DEF PaidAsPromised, Buffer
<1>7. NothingAtFirstSlot(r)
  BY <1>3, <1>5 DEF NothingAtFirstSlot
<1> QED
  BY <1>6, <1>7 DEF Honest

(* The receipt of the three other endings: at most a bounty leaves the user. *)
LEMMA OtherEndingsAreHonest ==
  ASSUME LInv, NEW e \in PDA, Pending(e),
         NEW outcome \in Outcome \ {"none", "rescue"},
         NEW bounty \in {0, CleanupBounty(Buffer(e))},
         outcome # "cleanup" => bounty = 0,
         outcome = "ordinary" => Elapsed(e) <= TTL_SLOTS,
         outcome = "self_rescue" => Elapsed(e) > SELF_RESCUE_SLOTS,
         outcome = "cleanup" => Elapsed(e) > CLEANUP_SLOTS,
         NEW tip \in Transfer
  PROVE  Honest([outcome |-> outcome, elapsed |-> Elapsed(e), vault |-> lamports[e],
                 terms |-> escrow[e], paid |-> PayoutWithBounty(e, bounty),
                 tip |-> tip])
<1> DEFINE r == [outcome |-> outcome, elapsed |-> Elapsed(e), vault |-> lamports[e],
                 terms |-> escrow[e], paid |-> PayoutWithBounty(e, bounty),
                 tip |-> tip]
<1>1. /\ Buffer(e) \in Nat /\ lamports[e] \in Nat /\ ESCROW_RENT \in Nat
      /\ lamports[e] >= ESCROW_RENT + Buffer(e)
      /\ Elapsed(e) \in Nat /\ TTL_SLOTS \in Nat
  BY LiveEscrowFacts
<1>2. /\ bounty \in Nat /\ bounty <= Buffer(e)
      /\ BASIS_POINTS_DIVISOR * bounty <= CLEANUP_BOUNTY_BPS * Buffer(e)
  <2>1. CASE bounty = 0
    <3>1. BASIS_POINTS_DIVISOR * 0 = 0
      BY RatesAssumption
    <3>2. CLEANUP_BOUNTY_BPS \in Nat
      BY RatesAssumption
    <3>3. CLEANUP_BOUNTY_BPS * Buffer(e) \in Nat
      BY <1>1, <3>2
    <3> QED
      BY <1>1, <2>1, <3>1, <3>3
  <2>2. CASE bounty = CleanupBounty(Buffer(e))
    BY <1>1, <2>2, BountyBounds
  <2> QED
    BY <2>1, <2>2
<1>3. /\ r.paid.user = lamports[e] - bounty
      /\ r.paid.caller = bounty /\ r.paid.partner = 0 /\ r.paid.treasury = 0
  BY DEF PayoutWithBounty
<1>4. PaidAsPromised(r)
  <2>1. Elapsed(e) <= TTL_SLOTS => bounty = 0
    BY <1>1, WindowsAssumption
  <2> QED
    BY <1>1, <1>2, <1>3, <2>1 DEF PaidAsPromised, Buffer
<1>5. NothingAtFirstSlot(r)
  BY DEF NothingAtFirstSlot
<1> QED
  BY <1>4, <1>5 DEF Honest

-----------------------------------------------------------------------------
(* The three resolving instructions write an honest receipt for one escrow. *)
LEMMA SwapWritesHonestReceipt ==
  ASSUME LInv, NEW e \in PDA, Swap(e)
  PROVE  \E r : Honest(r) /\ receipt' = [receipt EXCEPT ![e] = r]
<1>1. PICK c \in Callers, tip \in TipChoices(e), swap \in SwapOutcomes :
        ExecuteSwap(c, e, tip, swap)
  BY DEF Swap
<1>2. /\ Pending(e)
      /\ IsRescue(Elapsed(e)) => tip.amount >= RequiredTip(Buffer(e), Elapsed(e))
      /\ IF IsRescue(Elapsed(e)) THEN Settle(e, "rescue", RescuePayout(e), tip)
                                 ELSE Settle(e, "ordinary", PayoutWithBounty(e, 0), tip)
  BY <1>1 DEF ExecuteSwap, SwapAllowed, AfterSwap, jito_tip_at_least
<1>3. tip \in Transfer
  BY <1>1, <1>2, TipsAreTransfers DEF LInv, IInv
<1>4. Elapsed(e) \in Nat /\ TTL_SLOTS \in Nat
  BY <1>2, LiveEscrowFacts
<1>5. CASE IsRescue(Elapsed(e))
  BY <1>2, <1>3, <1>4, <1>5, RescueIsHonest DEF Settle
<1>6. CASE ~IsRescue(Elapsed(e))
  <2>1. Elapsed(e) <= TTL_SLOTS
    BY <1>4, <1>6 DEF IsRescue
  <2>2. Honest([outcome |-> "ordinary", elapsed |-> Elapsed(e), vault |-> lamports[e],
                terms |-> escrow[e], paid |-> PayoutWithBounty(e, 0),
                tip |-> tip])
    BY <1>2, <1>3, <1>4, <2>1, OtherEndingsAreHonest DEF Outcome
  <2> QED
    BY <1>2, <1>6, <2>2 DEF Settle
<1> QED
  BY <1>5, <1>6

(* The receipt of a self_rescue is honest. *)
LEMMA SelfRescueWritesHonestReceipt ==
  ASSUME LInv, NEW e \in PDA, SelfRescue(e)
  PROVE  \E r : Honest(r) /\ receipt' = [receipt EXCEPT ![e] = r]
<1>1. /\ Pending(e) /\ Elapsed(e) > SELF_RESCUE_SLOTS
      /\ Settle(e, "self_rescue", PayoutWithBounty(e, 0), NoTip)
  BY DEF SelfRescue, SelfRescueAllowed
<1>2. NoTip \in Transfer
  BY TipsAreTransfers DEF LInv, IInv
<1>3. Honest([outcome |-> "self_rescue", elapsed |-> Elapsed(e), vault |-> lamports[e],
              terms |-> escrow[e], paid |-> PayoutWithBounty(e, 0),
              tip |-> NoTip])
  BY <1>1, <1>2, OtherEndingsAreHonest DEF Outcome
<1> QED
  BY <1>1, <1>3 DEF Settle

(* The receipt of a cleanup is honest. *)
LEMMA CleanupWritesHonestReceipt ==
  ASSUME LInv, NEW e \in PDA, Cleanup(e)
  PROVE  \E r : Honest(r) /\ receipt' = [receipt EXCEPT ![e] = r]
<1> DEFINE bounty == CleanupBounty(Buffer(e))
<1>1. /\ Pending(e) /\ Elapsed(e) > CLEANUP_SLOTS
      /\ Settle(e, "cleanup", PayoutWithBounty(e, bounty), NoTip)
  BY DEF Cleanup, CleanupExpiredEscrow, PayBountyAndClose, CleanupAllowed,
         AfterCleanup, CleanupWindowElapsed
<1>2. NoTip \in Transfer
  BY TipsAreTransfers DEF LInv, IInv
<1>3. Honest([outcome |-> "cleanup", elapsed |-> Elapsed(e), vault |-> lamports[e],
              terms |-> escrow[e], paid |-> PayoutWithBounty(e, bounty),
              tip |-> NoTip])
  BY <1>1, <1>2, OtherEndingsAreHonest DEF Outcome
<1> QED
  BY <1>1, <1>3 DEF Settle

-----------------------------------------------------------------------------
(* Nothing has been paid yet. *)
LEMMA InitHInv == Init => HInv
<1> SUFFICES ASSUME Init PROVE HInv
  OBVIOUS
<1>1. BuffersPayable /\ AllowanceAllOrNothing
  BY DEF Init, BuffersPayable, AllowanceAllOrNothing, Pending
<1>2. OnlyOwnDelegations
  BY AccountsAssumption DEF Init, OnlyOwnDelegations, EmptyAccount
<1>3. Honest(NoReceipt)
  BY DEF Honest, NoReceipt, PaidAsPromised, NothingAtFirstSlot
<1> QED
  BY <1>1, <1>2, <1>3, InitIInv DEF HInv, LInv, Init

(* Every step keeps old receipts and writes at most one honest new one. *)
LEMMA NextHInv == HInv /\ [Next]_vars => HInv'
<1> SUFFICES ASSUME HInv, [Next]_vars PROVE HInv'
  OBVIOUS
<1>1. LInv'
  BY NextIInv, BuffersStayPayable, AllowanceStaysWhole, DelegationsStayOwn DEF HInv, LInv
<1>2. ASSUME NEW e \in PDA, Swap(e) \/ SelfRescue(e) \/ Cleanup(e)
      PROVE  \A f \in PDA : Honest(receipt'[f])
  <2>1. PICK r : Honest(r) /\ receipt' = [receipt EXCEPT ![e] = r]
    BY <1>2, SwapWritesHonestReceipt, SelfRescueWritesHonestReceipt,
       CleanupWritesHonestReceipt DEF HInv
  <2>2. receipt'[e] = r /\ \A f \in PDA \ {e} : receipt'[f] = receipt[f]
    BY <2>1 DEF HInv, LInv, IInv, TypeOK
  <2> QED
    BY <2>1, <2>2 DEF HInv
<1>3. ASSUME ~ \E e \in PDA : Swap(e) \/ SelfRescue(e) \/ Cleanup(e)
      PROVE  UNCHANGED receipt
  <2>1. ASSUME NEW e \in PDA, NEW p \in Partners, NEW a \in Inputs,
               NEW b \in Destinations, NEW amount \in InputAmounts,
               NEW output \in OutputAmounts, NEW buffer \in Buffers,
               NEW minimum \in DynamicMinimums,
               InitializeEscrow(e, p, a, b, amount, output, buffer, minimum)
        PROVE  UNCHANGED receipt
    BY <2>1 DEF InitializeEscrow
  <2>2. ASSUME \/ \E c \in Callers, e \in PDA, amount \in TopUps : TopUpBuffer(c, e, amount)
               \/ \E c \in Callers, e \in PDA, amount \in Donations : Donate(c, e, amount)
               \/ \E a \in TokenAccounts : RevokeDelegation(a)
               \/ \E a \in TokenAccounts : MoveTokens(a)
               \/ \E a \in TokenAccounts : CloseTokenAccount(a)
               \/ \E a \in TokenAccounts : ReopenTokenAccount(a)
               \/ NextSlot
               \/ UNCHANGED vars
        PROVE  UNCHANGED receipt
    BY <2>2 DEF TopUpBuffer, Donate, RevokeDelegation, MoveTokens, CloseTokenAccount,
                ReopenTokenAccount, NextSlot, vars
  <2> QED
    BY <1>3, <2>1, <2>2 DEF Next
<1>4. \A f \in PDA : Honest(receipt'[f])
  BY <1>2, <1>3 DEF HInv
<1> QED
  BY <1>1, <1>4 DEF HInv, Honest, PaidAsPromised, NothingAtFirstSlot

(* The invariant holds in every state of every behaviour. *)
THEOREM PayoutInvariant == Spec => []HInv
BY InitHInv, NextHInv, PTL DEF Spec

(* The user gets what the design's table promises, by how and when the      *)
(* escrow ended.                                                             *)
THEOREM EscrowPayoutsAsPromised == Spec => []PayoutsAsPromised
<1>1. HInv => PayoutsAsPromised
  BY DEF HInv, Honest, PayoutsAsPromised
<1> QED
  BY <1>1, PayoutInvariant, PTL

(* No buffer, topped up or not, makes a rescue in the first slot of the      *)
(* window earn more than the transfer it sent to a Jito tip account.  (The   *)
(* program does not ask that the transfer goes there; see jito_tip_at_least.)*)
THEOREM FirstSlotBreaksEven == Spec => []FirstSlotRescueEarnsNothing
<1>1. HInv => FirstSlotRescueEarnsNothing
  BY DEF HInv, Honest, FirstSlotRescueEarnsNothing
<1> QED
  BY <1>1, PayoutInvariant, PTL

(* A live escrow's delegation is worth its input_amount or gone, however    *)
(* many escrows share the token account.                                    *)
THEOREM EscrowAllowance == Spec => []AllowanceAllOrNothing
<1>1. HInv => AllowanceAllOrNothing
  BY DEF HInv, LInv
<1> QED
  BY <1>1, PayoutInvariant, PTL

-----------------------------------------------------------------------------
(* What no step of the program ever does: strand a third party's escrow, take *)
(* from an open one, or leave a wallet without its share.                     *)

(* An escrow that is closed was closed by one of the three resolving          *)
(* instructions.                                                              *)
LEMMA WhoClosesAnEscrow ==
  ASSUME IInv, [Next]_vars, NEW e \in PDA, Pending(e), ~Pending(e)'
  PROVE  Swap(e) \/ SelfRescue(e) \/ Cleanup(e)
<1> USE DEF Pending
<1>0. escrow \in [PDA -> EscrowState \cup {NoEscrow}]
  BY DEF IInv, TypeOK
<1>1. ASSUME NEW f \in PDA, NEW p \in Partners, NEW a \in Inputs,
             NEW b \in Destinations, NEW amount \in InputAmounts,
             NEW output \in OutputAmounts, NEW buffer \in Buffers,
             NEW minimum \in DynamicMinimums,
             InitializeEscrow(f, p, a, b, amount, output, buffer, minimum)
      PROVE  FALSE
  BY <1>0, <1>1 DEF InitializeEscrow
<1>2. ASSUME NEW f \in PDA, f # e, Swap(f) \/ SelfRescue(f) \/ Cleanup(f)
      PROVE  FALSE
  BY <1>0, <1>2 DEF Swap, ExecuteSwap, SwapAllowed, AfterSwap, SelfRescue,
                    SelfRescueAllowed, Cleanup, CleanupExpiredEscrow,
                    PayBountyAndClose, CleanupAllowed, AfterCleanup, Settle
<1>3. ASSUME NEW c \in Callers, NEW f \in PDA, NEW amount \in TopUps,
             TopUpBuffer(c, f, amount)
      PROVE  FALSE
  <2>1. /\ escrow[f] \in EscrowState
        /\ escrow' = [escrow EXCEPT ![f] = topped_up(@, amount)]
        /\ amount \in Nat
    BY <1>3, TypesOfState, AmountsAssumption DEF IInv, TopUpBuffer
  <2>2. topped_up(escrow[f], amount) \in EscrowState
    BY <2>1 DEF EscrowState, topped_up
  <2> QED
    BY <1>0, <2>1, <2>2, NoEscrowAssumption
<1>4. ASSUME \/ \E c \in Callers, f \in PDA, amount \in Donations : Donate(c, f, amount)
             \/ \E a \in TokenAccounts : RevokeDelegation(a)
             \/ \E a \in TokenAccounts : MoveTokens(a)
             \/ \E a \in TokenAccounts : CloseTokenAccount(a)
             \/ \E a \in TokenAccounts : ReopenTokenAccount(a)
             \/ NextSlot
             \/ UNCHANGED vars
      PROVE  FALSE
  BY <1>4 DEF Donate, RevokeDelegation, MoveTokens, CloseTokenAccount, ReopenTokenAccount,
              NextSlot, vars
<1> QED
  BY <1>1, <1>2, <1>3, <1>4 DEF Next

(* A swap delivers what the terms of its escrow ask for and takes no more of *)
(* the input account than they allow, whatever accounts its caller hands     *)
(* over; any other account it draws on is the same user's, and still         *)
(* delegated to an earlier escrow at the same address.                       *)
THEOREM EscrowTradesWithinTerms == Spec => TradeWithinTerms
<1>1. HInv /\ [Next]_vars
        => [\A e \in PDA : Swapped(e) =>
              /\ escrow[e].expected_output_amount > 0 =>
                   token'[Destination(e)].amount - token[Destination(e)].amount
                     >= escrow[e].expected_output_amount
              /\ token[Input(e)].amount - token'[Input(e)].amount <= escrow[e].input_amount
              /\ \A a \in TokenAccounts \ {Input(e)} :
                   token'[a].amount < token[a].amount =>
                     TokenOwner[a] = UserWallet(e) /\ receipt[e].outcome # "none"]_vars
  <2> SUFFICES ASSUME HInv, [Next]_vars, NEW e \in PDA, Swapped(e)
               PROVE  /\ escrow[e].expected_output_amount > 0 =>
                           token'[Destination(e)].amount - token[Destination(e)].amount
                             >= escrow[e].expected_output_amount
                      /\ token[Input(e)].amount - token'[Input(e)].amount
                           <= escrow[e].input_amount
                      /\ \A a \in TokenAccounts \ {Input(e)} :
                           token'[a].amount < token[a].amount =>
                             TokenOwner[a] = UserWallet(e) /\ receipt[e].outcome # "none"
    OBVIOUS
  <2>1. /\ IInv /\ TypeOK /\ OnlyOwnDelegations /\ AllowanceAllOrNothing
        /\ Pending(e) /\ ~Pending(e)'
        /\ receipt'[e].outcome \in {"ordinary", "rescue"}
    BY DEF HInv, LInv, IInv, Swapped
  <2>2. Swap(e)
    <3>1. ~SelfRescue(e) /\ ~Cleanup(e)
      BY <2>1 DEF TypeOK, SelfRescue, SelfRescueAllowed, Cleanup, CleanupExpiredEscrow,
                  PayBountyAndClose, CleanupAllowed, AfterCleanup, Settle
    <3> QED
      BY <2>1, <3>1, WhoClosesAnEscrow
  <2>3. PICK c \in Callers, tip \in TipChoices(e), swap \in SwapOutcomes :
          ExecuteSwap(c, e, tip, swap)
    BY <2>2 DEF Swap
  <2>4. /\ token[Input(e)].open
        /\ CpiSucceeds(e, swap)
        /\ received(e, swap) >= escrow[e].expected_output_amount
        /\ token' = AfterCpi(e, swap)
    BY <2>3 DEF ExecuteSwap, SwapAllowed, AfterSwap
  <2>5. /\ token' \in [TokenAccounts -> TokenAccount]
        /\ \A a \in TokenAccounts :
             /\ swap.spent[a] \in Nat
             /\ swap.spent[a] > 0 =>
                  token[a].delegate = e /\ swap.spent[a] <= token[a].allowance
             /\ token'[a].amount >= token[a].amount - swap.spent[a]
    BY <2>1, <2>4, CpiTouchesOwnDelegations
  <2>6. /\ \A a \in TokenAccounts : token[a].amount \in Nat /\ token'[a].amount \in Nat
        /\ Input(e) \in TokenAccounts /\ Destination(e) \in TokenAccounts
        /\ escrow[e].expected_output_amount \in Nat
        /\ escrow[e].input_amount \in Nat
    BY <2>1, <2>5, TypesOfState DEF TypeOK, TokenAccount, EscrowState
  <2>7. escrow[e].expected_output_amount > 0 =>
          token'[Destination(e)].amount - token[Destination(e)].amount
            >= escrow[e].expected_output_amount
    BY <2>4, <2>6 DEF received, saturating_sub
  <2>8. swap.spent[Input(e)] <= escrow[e].input_amount
    <3>1. CASE swap.spent[Input(e)] > 0
      BY <2>1, <2>4, <2>5, <2>6, <3>1 DEF AllowanceAllOrNothing, Delegated
    <3>2. CASE swap.spent[Input(e)] = 0
      BY <2>6, <3>2
    <3> QED
      BY <2>5, <2>6, <3>1, <3>2
  <2>9. token[Input(e)].amount - token'[Input(e)].amount <= escrow[e].input_amount
    BY <2>5, <2>6, <2>8
  <2>10. ASSUME NEW a \in TokenAccounts \ {Input(e)}, token'[a].amount < token[a].amount
         PROVE  TokenOwner[a] = UserWallet(e) /\ receipt[e].outcome # "none"
    <3>1. swap.spent[a] > 0
      BY <2>5, <2>6, <2>10
    <3>2. token[a].delegate = e
      BY <2>5, <2>10, <3>1
    <3> QED
      BY <2>1, <2>10, <3>2 DEF OnlyOwnDelegations
  <2> QED
    BY <2>7, <2>9, <2>10
<1> QED
  BY <1>1, PayoutInvariant, PTL DEF Spec, TradeWithinTerms

(* No permissionless resolution takes another escrow's delegation: a swap     *)
(* touches only the accounts delegated to its own escrow, a cleanup none.     *)
THEOREM ResolutionsStrandNobody == Spec => NoThirdPartyStranding
<1>1. IInv /\ [Next]_vars
        => [\A e, f \in PDA :
              /\ e # f
              /\ Pending(e) /\ ~Pending(e)'
              /\ receipt'[e].outcome # "self_rescue"
              /\ Pending(f) /\ Delegated(f)
              => Delegated(f)']_vars
  <2> SUFFICES ASSUME IInv, [Next]_vars, NEW e \in PDA, NEW f \in PDA, e # f,
                      Pending(e), ~Pending(e)', receipt'[e].outcome # "self_rescue",
                      Pending(f), Delegated(f)
               PROVE  Delegated(f)'
    OBVIOUS
  <2>1. /\ token \in [TokenAccounts -> TokenAccount]
        /\ escrow \in [PDA -> EscrowState \cup {NoEscrow}]
        /\ receipt \in [PDA -> Receipt]
        /\ Input(e) \in TokenAccounts /\ Input(f) \in TokenAccounts
    BY TypesOfState DEF IInv, TypeOK
  <2>2. ASSUME NEW c \in Callers, NEW tip, NEW swap \in SwapOutcomes,
               ExecuteSwap(c, e, tip, swap)
        PROVE  Delegated(f)'
    <3>1. /\ CpiSucceeds(e, swap)
          /\ token' = AfterCpi(e, swap)
          /\ escrow' = [escrow EXCEPT ![e] = NoEscrow]
      BY <2>2 DEF ExecuteSwap, SwapAllowed, AfterSwap, Settle
    <3>2. token[Input(f)].delegate = f /\ token[Input(f)].open
      BY DEF Delegated
    <3>3. token'[Input(f)].delegate = f /\ token'[Input(f)].open /\ escrow'[f] = escrow[f]
      BY <2>1, <3>1, <3>2, CpiTouchesOwnDelegations DEF IInv
    <3> QED
      BY <3>3 DEF Delegated, Input
  <2>3. ~SelfRescue(e)
    BY <2>1 DEF SelfRescue, SelfRescueAllowed, Settle
  <2>4. ASSUME Cleanup(e)
        PROVE  Delegated(f)'
    BY <2>1, <2>4 DEF Cleanup, CleanupExpiredEscrow, PayBountyAndClose, CleanupAllowed,
                      AfterCleanup, Settle, Delegated, Input
  <2> QED
    BY <2>2, <2>3, <2>4, WhoClosesAnEscrow DEF Swap
<1> QED
  BY <1>1, EscrowInvariant, PTL DEF Spec, NoThirdPartyStranding

-----------------------------------------------------------------------------
(* What one escrow's record and balance may do while it stays open. *)
OnlyFunded(e) ==
  /\ escrow'[e] = [escrow[e] EXCEPT !.gas_buffer_lamports = Buffer(e)']
  /\ Buffer(e)' >= Buffer(e)
  /\ lamports'[e] - Buffer(e)' >= lamports[e] - Buffer(e)

(* A record and a balance that stay as they are. *)
LEMMA UntouchedIsOnlyFunded ==
  ASSUME IInv, NEW e \in PDA, Pending(e), escrow'[e] = escrow[e], lamports'[e] = lamports[e]
  PROVE  OnlyFunded(e)
<1>1. /\ escrow[e] \in EscrowState /\ Buffer(e) \in Nat /\ lamports[e] \in Nat
      /\ Buffer(e)' = Buffer(e)
  BY TypesOfState DEF IInv, Buffer
<1>2. escrow[e] = [escrow[e] EXCEPT !.gas_buffer_lamports = Buffer(e)]
  BY <1>1 DEF EscrowState, Buffer
<1> QED
  BY <1>1, <1>2 DEF OnlyFunded

(* A resolution pays out of one escrow, which it empties.                     *)
LEMMA ResolutionEmptiesOne ==
  ASSUME IInv, NEW e \in PDA, Swap(e) \/ SelfRescue(e) \/ Cleanup(e)
  PROVE  /\ lamports' \in Balances
         /\ lamports'[e] = 0
         /\ \A f \in PDA \ {e} : lamports'[f] = lamports[f]
<1>1. lamports \in Balances
  BY TypesOfState DEF IInv
<1>2. ASSUME Swap(e)
      PROVE  \E b \in Balances : lamports' = close(b, e)
                                 /\ \A f \in PDA \ {e} : b[f] = lamports[f]
  <2>1. PICK c \in Callers, tip \in TipChoices(e), swap \in SwapOutcomes :
          ExecuteSwap(c, e, tip, swap)
    BY <1>2 DEF Swap
  <2>2. tip \in Transfer
    BY <1>2, <2>1, TipsAreTransfers DEF IInv, Swap
  <2> QED
    BY <2>1, <2>2, SwapPaysFromOne
<1>3. ASSUME Cleanup(e)
      PROVE  \E b \in Balances : lamports' = close(b, e)
                                 /\ \A f \in PDA \ {e} : b[f] = lamports[f]
  BY <1>3, CleanupPaysFromOne DEF Cleanup
<1>4. PICK b \in Balances : lamports' = close(b, e)
                            /\ \A f \in PDA \ {e} : b[f] = lamports[f]
  BY <1>1, <1>2, <1>3 DEF SelfRescue, SelfRescueAllowed
<1> QED
  BY <1>4, CloseEscrow

(* The other escrows keep record and balance. *)
LEMMA ResolutionTouchesOne ==
  ASSUME IInv, NEW e \in PDA, Swap(e) \/ SelfRescue(e) \/ Cleanup(e)
  PROVE  /\ escrow'[e] = NoEscrow
         /\ \A f \in PDA \ {e} : escrow'[f] = escrow[f] /\ lamports'[f] = lamports[f]
<1>1. escrow \in [PDA -> EscrowState \cup {NoEscrow}]
  BY DEF IInv, TypeOK
<1>2. escrow'[e] = NoEscrow /\ \A f \in PDA \ {e} : escrow'[f] = escrow[f]
  BY <1>1 DEF Swap, ExecuteSwap, SwapAllowed, AfterSwap, SelfRescue, SelfRescueAllowed,
              Cleanup, CleanupExpiredEscrow,
              PayBountyAndClose, CleanupAllowed, AfterCleanup, Settle
<1> QED
  BY <1>2, ResolutionEmptiesOne

(* initialize_escrow puts the rent and the buffer into one account. *)
LEMMA OpeningFundsOne ==
  ASSUME IInv, NEW e \in PDA, NEW p, NEW a, NEW b, NEW amount, NEW output,
         NEW buffer \in Buffers, NEW minimum,
         InitializeEscrow(e, p, a, b, amount, output, buffer, minimum)
  PROVE  /\ lamports'[e] >= ESCROW_RENT
         /\ \A f \in PDA \ {e} : lamports'[f] = lamports[f]
<1> DEFINE cost == ESCROW_RENT + buffer
<1>1. cost \in Nat /\ cost >= ESCROW_RENT
  BY AmountsAssumption
<1>2. lamports \in Balances /\ lamports[e] = 0
  BY TypesOfState DEF IInv, Solvent, InitializeEscrow
<1>3. UserWallet(e) \in Accounts /\ e \in Accounts /\ UserWallet(e) # e
      /\ \A f \in PDA : f \in Accounts /\ f # UserWallet(e)
  BY UserIsWallet DEF Accounts
<1>4. lamports' = move_lamports(lamports, UserWallet(e), e, cost)
      /\ cost <= lamports[UserWallet(e)]
  BY <1>1, <1>2, <1>3 DEF InitializeEscrow, Balances
<1> HIDE DEF cost
<1> QED
  BY <1>1, <1>2, <1>3, <1>4, MoveLamports

(* A pending escrow is only ever added to: every instruction that leaves it   *)
(* open keeps its terms and lets neither its buffer nor what lies on top of   *)
(* the buffer fall, whatever happens to the escrows beside it.                *)
THEOREM OpenEscrowsOnlyGrow == Spec => OnlyFundedUntilClosed
<1>1. IInv /\ [Next]_vars
        => [\A e \in PDA :
              Pending(e) /\ Pending(e)' =>
                /\ escrow'[e] = [escrow[e] EXCEPT !.gas_buffer_lamports = Buffer(e)']
                /\ Buffer(e)' >= Buffer(e)
                /\ lamports'[e] - Buffer(e)' >= lamports[e] - Buffer(e)]_vars
  <2> SUFFICES ASSUME IInv, [Next]_vars, NEW e \in PDA, Pending(e), Pending(e)'
               PROVE  OnlyFunded(e)
    BY DEF OnlyFunded
  <2>0. /\ lamports \in Balances
        /\ escrow \in [PDA -> EscrowState \cup {NoEscrow}]
        /\ escrow[e] \in EscrowState /\ Buffer(e) \in Nat /\ lamports[e] \in Nat
    BY TypesOfState DEF IInv, TypeOK
  <2>1. ASSUME NEW f \in PDA, NEW p \in Partners, NEW a \in Inputs,
               NEW b \in Destinations, NEW amount \in InputAmounts,
               NEW output \in OutputAmounts, NEW buffer \in Buffers,
               NEW minimum \in DynamicMinimums,
               InitializeEscrow(f, p, a, b, amount, output, buffer, minimum)
        PROVE  OnlyFunded(e)
    <3>1. e # f /\ escrow'[e] = escrow[e]
      BY <2>0, <2>1 DEF InitializeEscrow
    <3>2. /\ UserWallet(f) \in Accounts \ {e} /\ f \in Accounts \ {e} /\ e \in Accounts
          /\ lamports' = move_lamports(lamports, UserWallet(f), f, ESCROW_RENT + buffer)
      BY <2>1, <3>1, UserIsWallet DEF InitializeEscrow
    <3>3. lamports'[e] = lamports[e]
      BY <2>0, <3>2 DEF move_lamports, Balances
    <3> QED
      BY <3>1, <3>3, UntouchedIsOnlyFunded
  <2>2. ASSUME NEW f \in PDA, Swap(f) \/ SelfRescue(f) \/ Cleanup(f)
        PROVE  OnlyFunded(e)
    <3>1. e # f
      BY <2>2, ResolutionTouchesOne DEF Pending
    <3>2. escrow'[e] = escrow[e] /\ lamports'[e] = lamports[e]
      BY <2>2, <3>1, ResolutionTouchesOne
    <3> QED
      BY <3>2, UntouchedIsOnlyFunded
  <2>3. ASSUME NEW c \in Callers, NEW f \in PDA, NEW amount \in TopUps,
               TopUpBuffer(c, f, amount)
        PROVE  OnlyFunded(e)
    <3>1. /\ Pending(f) /\ amount \in Nat /\ amount <= lamports[c]
          /\ lamports' = move_lamports(lamports, c, f, amount)
          /\ escrow' = [escrow EXCEPT ![f] = [escrow[f] EXCEPT !.gas_buffer_lamports = @ + amount]]
      <4>1. lamports[c] \in Nat
        BY AccountsAssumption DEF IInv, TypeOK
      <4> QED
        BY <2>3, <4>1, AmountsAssumption DEF TopUpBuffer, topped_up
    <3>2. /\ lamports'[f] = lamports[f] + amount
          /\ \A g \in PDA \ {f} : lamports'[g] = lamports[g]
      BY <3>1, FundingMovesLamports
    <3>3. CASE e = f
      <4>1. /\ escrow'[e] = [escrow[e] EXCEPT !.gas_buffer_lamports = Buffer(e) + amount]
            /\ lamports'[e] = lamports[e] + amount
        BY <2>0, <3>1, <3>2, <3>3 DEF Buffer
      <4>2. Buffer(e)' = Buffer(e) + amount
        BY <2>0, <4>1 DEF Buffer, EscrowState
      <4> QED
        BY <2>0, <3>1, <4>1, <4>2 DEF OnlyFunded
    <3>4. CASE e # f
      <4>1. escrow'[e] = escrow[e] /\ lamports'[e] = lamports[e]
        BY <2>0, <3>1, <3>2, <3>4
      <4> QED
        BY <4>1, UntouchedIsOnlyFunded
    <3> QED
      BY <3>3, <3>4
  <2>4. ASSUME NEW c \in Callers, NEW f \in PDA, NEW amount \in Donations,
               Donate(c, f, amount)
        PROVE  OnlyFunded(e)
    <3>1. /\ amount \in Nat /\ amount <= lamports[c]
          /\ lamports' = move_lamports(lamports, c, f, amount)
          /\ escrow' = escrow
      <4>1. lamports[c] \in Nat
        BY AccountsAssumption DEF IInv, TypeOK
      <4> QED
        BY <2>4, <4>1, AmountsAssumption DEF Donate
    <3>2. /\ lamports'[f] = lamports[f] + amount
          /\ \A g \in PDA \ {f} : lamports'[g] = lamports[g]
      BY <3>1, FundingMovesLamports
    <3>3. escrow'[e] = escrow[e] /\ Buffer(e)' = Buffer(e) /\ lamports'[e] >= lamports[e]
      BY <2>0, <3>1, <3>2 DEF Buffer
    <3>4. lamports'[e] \in Nat
      BY <2>0, <3>1, <3>2
    <3>5. escrow'[e] = [escrow[e] EXCEPT !.gas_buffer_lamports = Buffer(e)']
      BY <2>0, <3>3 DEF EscrowState, Buffer
    <3> QED
      BY <2>0, <3>3, <3>4, <3>5 DEF OnlyFunded
  <2>5. ASSUME \/ \E a \in TokenAccounts : RevokeDelegation(a)
               \/ \E a \in TokenAccounts : MoveTokens(a)
               \/ \E a \in TokenAccounts : CloseTokenAccount(a)
               \/ \E a \in TokenAccounts : ReopenTokenAccount(a)
               \/ NextSlot
               \/ UNCHANGED vars
        PROVE  OnlyFunded(e)
    <3>1. escrow' = escrow /\ lamports' = lamports
      BY <2>5 DEF RevokeDelegation, MoveTokens, CloseTokenAccount, ReopenTokenAccount, NextSlot, vars
    <3> QED
      BY <3>1, UntouchedIsOnlyFunded
  <2> QED
    BY <2>1, <2>2, <2>3, <2>4, <2>5 DEF Next
<1> QED
  BY <1>1, EscrowInvariant, PTL DEF Spec, OnlyFundedUntilClosed

-----------------------------------------------------------------------------
(* Balances before it is known that they are covered. *)
Ledgers == [Accounts -> Int]

(* What account x gets of an amount that account to gets. *)
Part(x, to, amount) == IF x = to THEN amount ELSE 0

(* A part of an integer is an integer. *)
LEMMA PartIsInt ==
  ASSUME NEW x, NEW to, NEW amount \in Int
  PROVE  Part(x, to, amount) \in Int
BY DEF Part

(* A move changes each account by its part of the amount, also when somebody  *)
(* pays themselves, and whether or not the balance covers it.                 *)
LEMMA MoveIsExact ==
  ASSUME NEW b \in Ledgers, NEW from \in Accounts, NEW to \in Accounts,
         NEW amount \in Int
  PROVE  /\ move_lamports(b, from, to, amount) \in Ledgers
         /\ \A x \in Accounts :
              move_lamports(b, from, to, amount)[x]
                = b[x] - Part(x, from, amount) + Part(x, to, amount)
<1>1. b[from] \in Int /\ b[to] \in Int /\ \A x \in Accounts : b[x] \in Int
  BY DEF Ledgers
<1> QED
  BY <1>1 DEF move_lamports, Part, Ledgers

(* Paying a wallet out of an escrow. *)
PaidOut(after, b, e, to, amount) ==
  /\ after \in Ledgers
  /\ after[e] = b[e] - amount
  /\ \A w \in Wallets : after[w] = b[w] + Part(w, to, amount)

(* A payout from an escrow takes from it, and adds to its receiver, its     *)
(* amount.                                                                  *)
LEMMA PayoutIsExact ==
  ASSUME NEW b \in Ledgers, NEW e \in PDA, NEW to \in Wallets, NEW amount \in Int
  PROVE  PaidOut(move_lamports(b, e, to, amount), b, e, to, amount)
<1>1. e \in Accounts /\ to \in Accounts /\ e # to /\ \A w \in Wallets : w # e /\ w \in Accounts
  BY UserIsWallet
<1> QED
  BY <1>1, MoveIsExact DEF PaidOut, Part, Ledgers

(* What a closing account still holds goes to the user. *)
LEMMA CloseIsExact ==
  ASSUME NEW b \in Ledgers, NEW e \in PDA
  PROVE  \A w \in Wallets : close(b, e)[w] = b[w] + Part(w, UserWallet(e), b[e])
<1>1. b[e] \in Int /\ UserWallet(e) \in Wallets
  BY UserIsWallet DEF Ledgers
<1>2. PaidOut(close(b, e), b, e, UserWallet(e), b[e])
  BY <1>1, PayoutIsExact DEF close
<1> QED
  BY <1>2 DEF PaidOut

(* The three transfers of a rescue, in a row. *)
LEMMA RescueSplitIsExact ==
  ASSUME NEW b \in Ledgers, NEW e \in PDA, NEW caller \in Wallets,
         escrow[e] \in EscrowState, Buffer(e) \in Nat
  PROVE  /\ RescueSplit(b, caller, e) \in Ledgers
         /\ RescueSplit(b, caller, e)[e] = b[e] - Buffer(e)
         /\ \A w \in Wallets :
              RescueSplit(b, caller, e)[w]
                = b[w] + Part(w, caller, KeeperShare(Buffer(e)))
                       + Part(w, escrow[e].partner_wallet, PartnerShare(Buffer(e)))
                       + Part(w, TREASURY, TreasuryShare(Buffer(e)))
<1> DEFINE k == KeeperShare(Buffer(e))
           p == PartnerShare(Buffer(e))
           t == TreasuryShare(Buffer(e))
           P == escrow[e].partner_wallet
           b1 == move_lamports(b, e, caller, k)
           b2 == move_lamports(b1, e, P, p)
           b3 == move_lamports(b2, e, TREASURY, t)
<1>1. k \in Int /\ p \in Int /\ t \in Int /\ k + p + t = Buffer(e) /\ b[e] \in Int
  BY SharesAreTheBuffer, UserIsWallet DEF Ledgers
<1>2. P \in Wallets /\ TREASURY \in Wallets
  BY AccountsAssumption DEF EscrowState
<1>3. RescueSplit(b, caller, e) = b3
  BY DEF RescueSplit
<1> HIDE DEF k, p, t, P
<1>4. PaidOut(b1, b, e, caller, k)
  BY <1>1, PayoutIsExact
<1> HIDE DEF b1
<1>5. PaidOut(b2, b1, e, P, p)
  <2>1. b1 \in Ledgers
    BY <1>4 DEF PaidOut
  <2> QED
    BY <1>1, <1>2, <2>1, PayoutIsExact
<1> HIDE DEF b2
<1>6. PaidOut(b3, b2, e, TREASURY, t)
  <2>1. b2 \in Ledgers
    BY <1>5 DEF PaidOut
  <2> QED
    BY <1>1, <1>2, <2>1, PayoutIsExact
<1> HIDE DEF b3
<1>7. b3[e] = b[e] - Buffer(e)
  BY <1>1, <1>4, <1>5, <1>6 DEF PaidOut
<1>8. ASSUME NEW w \in Wallets
      PROVE  b3[w] = b[w] + Part(w, caller, k) + Part(w, P, p) + Part(w, TREASURY, t)
  BY <1>4, <1>5, <1>6 DEF PaidOut
<1>9. b3 \in Ledgers
  BY <1>6 DEF PaidOut
<1> QED
  BY <1>3, <1>7, <1>8, <1>9 DEF k, p, t, P

(* What each wallet gains by a resolution, from the receipt it leaves. *)
Gains(e, c) ==
  LET r == receipt'[e] IN
  \A w \in Wallets :
    lamports'[w] - lamports[w] =
      Part(w, UserWallet(e), r.paid.user)
      + Part(w, c, r.paid.caller)
      + Part(w, r.terms.partner_wallet, r.paid.partner)
      + Part(w, TREASURY, r.paid.treasury)
      + Part(w, r.tip.to, r.tip.amount)
      - Part(w, r.tip.from, r.tip.amount)

(* The tip transfer leaves the escrow alone. *)
LEMMA TipIsExact ==
  ASSUME lamports \in Ledgers, NEW e \in PDA, NEW tip \in Transfer
  PROVE  /\ TipPaid(tip) \in Ledgers
         /\ TipPaid(tip)[e] = lamports[e]
         /\ \A w \in Wallets :
              TipPaid(tip)[w]
                = lamports[w] - Part(w, tip.from, tip.amount) + Part(w, tip.to, tip.amount)
<1>1. /\ tip.from \in Accounts /\ tip.to \in Accounts /\ tip.amount \in Int
      /\ e \in Accounts /\ lamports[e] \in Int
      /\ e # tip.from /\ e # tip.to
      /\ \A w \in Wallets : w \in Accounts
  BY UserIsWallet DEF Ledgers, Transfer
<1>2. /\ TipPaid(tip) \in Ledgers
      /\ \A x \in Accounts :
           TipPaid(tip)[x]
             = lamports[x] - Part(x, tip.from, tip.amount) + Part(x, tip.to, tip.amount)
  <2> DEFINE from == tip.from
             to == tip.to
             amount == tip.amount
  <2>1. from \in Accounts /\ to \in Accounts /\ amount \in Int
    BY <1>1
  <2>2. TipPaid(tip) = move_lamports(lamports, from, to, amount)
    BY DEF TipPaid
  <2> HIDE DEF from, to, amount
  <2>3. /\ TipPaid(tip) \in Ledgers
        /\ \A x \in Accounts :
             TipPaid(tip)[x] = lamports[x] - Part(x, from, amount) + Part(x, to, amount)
    BY <2>1, <2>2, MoveIsExact
  <2> QED
    BY <2>3 DEF from, to, amount
<1>3. Part(e, tip.from, tip.amount) = 0 /\ Part(e, tip.to, tip.amount) = 0
  BY <1>1 DEF Part
<1> QED
  BY <1>1, <1>2, <1>3

(* What a swap leaves in each wallet, one wallet in several roles included: *)
(* less the tip it paid, and with its shares of the escrow.                 *)
LEMMA AfterSwapIsExact ==
  ASSUME IInv, NEW e \in PDA, Pending(e), NEW caller \in Wallets, NEW tip \in Transfer
  PROVE  \A w \in Wallets :
           AfterSwap(caller, e, tip)[w] =
             lamports[w] - Part(w, tip.from, tip.amount) + Part(w, tip.to, tip.amount)
             + (IF IsRescue(Elapsed(e))
                THEN Part(w, caller, KeeperShare(Buffer(e)))
                     + Part(w, escrow[e].partner_wallet, PartnerShare(Buffer(e)))
                     + Part(w, TREASURY, TreasuryShare(Buffer(e)))
                     + Part(w, UserWallet(e), lamports[e] - Buffer(e))
                ELSE Part(w, UserWallet(e), lamports[e]))
<1> DEFINE tipped == TipPaid(tip)
           rescue == IsRescue(Elapsed(e))
           refunded == OrdinaryRefund(tipped, e)
           after == AfterSwap(caller, e, tip)
           U == UserWallet(e)
           P == escrow[e].partner_wallet
           B == Buffer(e)
           k == KeeperShare(B)
           p == PartnerShare(B)
           t == TreasuryShare(B)
<1>1. after = close(IF rescue THEN RescueSplit(tipped, caller, e) ELSE refunded, e)
  BY DEF AfterSwap
<1>2. /\ lamports \in Ledgers
      /\ e \in Accounts /\ U \in Wallets /\ P \in Wallets
      /\ caller \in Wallets /\ TREASURY \in Wallets /\ tip.amount \in Int
      /\ \A w \in Wallets : w \in Accounts /\ w # e /\ lamports[w] \in Int
      /\ lamports[e] \in Int
  BY TypesOfState, AccountsAssumption, UserIsWallet DEF IInv, Balances, Ledgers,
                                                        EscrowState, Transfer
<1>3. B \in Nat /\ k \in Nat /\ p \in Nat /\ t \in Nat /\ k + p + t = B
  BY PayoutsAreNatural, SharesAreTheBuffer
<1>4. /\ tipped \in Ledgers
      /\ tipped[e] = lamports[e]
      /\ \A w \in Wallets :
           tipped[w] = lamports[w] - Part(w, tip.from, tip.amount) + Part(w, tip.to, tip.amount)
  BY <1>2, TipIsExact
<1> HIDE DEF tipped, B, k, p, t, P, U, after
<1>5. CASE rescue
  <2> DEFINE split == RescueSplit(tipped, caller, e)
  <2>1. /\ split \in Ledgers /\ split[e] = lamports[e] - B
        /\ \A w \in Wallets :
             split[w] = tipped[w] + Part(w, caller, k) + Part(w, P, p) + Part(w, TREASURY, t)
    <3>1. escrow[e] \in EscrowState /\ Buffer(e) \in Nat
      BY <1>3, TypesOfState DEF IInv, B
    <3> QED
      BY <1>2, <1>4, <3>1, RescueSplitIsExact DEF B, k, p, t, P
  <2> HIDE DEF split
  <2>2. \A w \in Wallets : after[w] = split[w] + Part(w, U, lamports[e] - B)
    <3>1. after = close(split, e)
      BY <1>1, <1>5 DEF split
    <3> QED
      BY <2>1, <3>1, CloseIsExact DEF U
  <2>3. ASSUME NEW w \in Wallets
        PROVE  after[w] =
                 lamports[w] - Part(w, tip.from, tip.amount) + Part(w, tip.to, tip.amount)
                 + (Part(w, caller, k) + Part(w, P, p) + Part(w, TREASURY, t)
                    + Part(w, U, lamports[e] - B))
    <3>1. /\ lamports[w] \in Int
          /\ Part(w, tip.from, tip.amount) \in Int /\ Part(w, tip.to, tip.amount) \in Int
          /\ Part(w, caller, k) \in Int /\ Part(w, P, p) \in Int
          /\ Part(w, TREASURY, t) \in Int
      BY <1>2, <1>3, PartIsInt
    <3>2. Part(w, U, lamports[e] - B) \in Int
      <4>1. lamports[e] - B \in Int
        BY <1>2, <1>3
      <4> QED
        BY <4>1, PartIsInt
    <3> QED
      BY <3>1, <3>2, <1>4, <2>1, <2>2
  <2> QED
    BY <1>5, <2>3 DEF after, U, P, B, k, p, t
<1>6. CASE ~rescue
  <2>1. /\ refunded \in Ledgers /\ refunded[e] = lamports[e] - B
        /\ \A w \in Wallets : refunded[w] = tipped[w] + Part(w, U, B)
    <3>1. U \in Wallets /\ B \in Int
      BY <1>2, <1>3
    <3>2. PaidOut(refunded, tipped, e, U, B)
      BY <1>4, <3>1, PayoutIsExact DEF OrdinaryRefund, U, B
    <3> HIDE DEF refunded
    <3> QED
      BY <1>4, <3>2 DEF PaidOut
  <2> HIDE DEF refunded
  <2>2. \A w \in Wallets : after[w] = refunded[w] + Part(w, U, lamports[e] - B)
    BY <1>1, <1>6, <2>1, CloseIsExact DEF U
  <2>3. ASSUME NEW w \in Wallets
        PROVE  after[w] =
                 lamports[w] - Part(w, tip.from, tip.amount) + Part(w, tip.to, tip.amount)
                 + Part(w, U, lamports[e])
    <3>1. /\ lamports[w] \in Int
          /\ Part(w, tip.from, tip.amount) \in Int /\ Part(w, tip.to, tip.amount) \in Int
      BY <1>2, PartIsInt
    <3>2. Part(w, U, B) + Part(w, U, lamports[e] - B) = Part(w, U, lamports[e])
      BY <1>2, <1>3 DEF Part
    <3>3. Part(w, U, B) \in Int /\ Part(w, U, lamports[e] - B) \in Int
      BY <1>2, <1>3 DEF Part
    <3> QED
      BY <3>1, <3>2, <3>3, <1>4, <2>1, <2>2
  <2> QED
    BY <1>6, <2>3 DEF after, U
<1> QED
  BY <1>5, <1>6

(* What a cleanup leaves in each wallet. *)
LEMMA AfterCleanupIsExact ==
  ASSUME IInv, NEW e \in PDA, Pending(e), NEW caller \in Wallets
  PROVE  \A w \in Wallets :
           AfterCleanup(caller, e)[w] =
             lamports[w] + Part(w, caller, CleanupBounty(Buffer(e)))
             + Part(w, UserWallet(e), lamports[e] - CleanupBounty(Buffer(e)))
<1> DEFINE bounty == CleanupBounty(Buffer(e))
           b == move_lamports(lamports, e, caller, bounty)
<1>1. /\ lamports \in Ledgers /\ lamports[e] \in Int
      /\ \A w \in Wallets : lamports[w] \in Int
  BY TypesOfState, UserIsWallet, AccountsAssumption DEF IInv, Balances, Ledgers, Accounts
<1>2. bounty \in Nat
  BY PayoutsAreNatural, BountyBounds
<1>3. AfterCleanup(caller, e) = close(b, e)
  BY DEF AfterCleanup
<1> HIDE DEF bounty
<1>4. /\ b \in Ledgers /\ b[e] = lamports[e] - bounty
      /\ \A w \in Wallets : b[w] = lamports[w] + Part(w, caller, bounty)
  <2>1. PaidOut(b, lamports, e, caller, bounty)
    BY <1>1, <1>2, PayoutIsExact
  <2> HIDE DEF b
  <2> QED
    BY <2>1 DEF PaidOut
<1> HIDE DEF b
<1> QED
  BY <1>3, <1>4, CloseIsExact DEF bounty

(* What a swap adds to each wallet. *)
LEMMA SwapGains ==
  ASSUME IInv, NEW e \in PDA, NEW caller \in Callers, NEW tip \in Transfer,
         NEW swap \in SwapOutcomes, ExecuteSwap(caller, e, tip, swap)
  PROVE  Gains(e, caller)
<1> DEFINE rescue == IsRescue(Elapsed(e))
           U == UserWallet(e)
           P == escrow[e].partner_wallet
           B == Buffer(e)
           k == KeeperShare(B)
           p == PartnerShare(B)
           t == TreasuryShare(B)
<1>1. /\ Pending(e)
      /\ lamports' = AfterSwap(caller, e, tip)
      /\ IF rescue THEN Settle(e, "rescue", RescuePayout(e), tip)
                   ELSE Settle(e, "ordinary", PayoutWithBounty(e, 0), tip)
  BY DEF ExecuteSwap, SwapAllowed
<1>2. /\ caller \in Wallets /\ tip.amount \in Int
      /\ lamports[e] \in Int /\ \A w \in Wallets : lamports[w] \in Int
  BY TypesOfState, AccountsAssumption, UserIsWallet DEF IInv, Balances, Accounts, Transfer
<1>3. B \in Nat /\ k \in Nat /\ p \in Nat /\ t \in Nat
  BY <1>1, PayoutsAreNatural, SharesAreTheBuffer
<1>4. \A w \in Wallets :
        lamports'[w] =
          lamports[w] - Part(w, tip.from, tip.amount) + Part(w, tip.to, tip.amount)
          + (IF rescue THEN Part(w, caller, k) + Part(w, P, p) + Part(w, TREASURY, t)
                            + Part(w, U, lamports[e] - B)
                       ELSE Part(w, U, lamports[e]))
  BY <1>1, <1>2, AfterSwapIsExact
<1> HIDE DEF B, k, p, t, P, U
<1>5. CASE rescue
  <2>1. /\ receipt'[e].paid = [user |-> lamports[e] - B, caller |-> k, partner |-> p, treasury |-> t]
        /\ receipt'[e].tip = tip
        /\ receipt'[e].terms.partner_wallet = P
    BY <1>1, <1>5 DEF IInv, TypeOK, Settle, RescuePayout, B, k, p, t, P
  <2>2. ASSUME NEW w \in Wallets
        PROVE  lamports'[w] - lamports[w] =
                 Part(w, U, lamports[e] - B) + Part(w, caller, k)
                 + Part(w, P, p) + Part(w, TREASURY, t)
                 + Part(w, tip.to, tip.amount) - Part(w, tip.from, tip.amount)
    <3>1. /\ lamports[w] \in Int
          /\ Part(w, tip.from, tip.amount) \in Int /\ Part(w, tip.to, tip.amount) \in Int
          /\ Part(w, caller, k) \in Int /\ Part(w, P, p) \in Int
          /\ Part(w, TREASURY, t) \in Int
      BY <1>2, <1>3, PartIsInt
    <3>2. Part(w, U, lamports[e] - B) \in Int
      <4>1. lamports[e] - B \in Int
        BY <1>2, <1>3
      <4> QED
        BY <4>1, PartIsInt
    <3> QED
      BY <3>1, <3>2, <1>4, <1>5
  <2> QED
    BY <2>1, <2>2 DEF Gains, U
<1>6. CASE ~rescue
  <2>1. /\ receipt'[e].paid = [user |-> lamports[e] - 0, caller |-> 0, partner |-> 0, treasury |-> 0]
        /\ receipt'[e].tip = tip
        /\ receipt'[e].terms.partner_wallet = P
    BY <1>1, <1>6 DEF IInv, TypeOK, Settle, PayoutWithBounty, P
  <2>2. ASSUME NEW w \in Wallets
        PROVE  lamports'[w] - lamports[w] =
                 Part(w, U, lamports[e] - 0) + Part(w, caller, 0)
                 + Part(w, P, 0) + Part(w, TREASURY, 0)
                 + Part(w, tip.to, tip.amount) - Part(w, tip.from, tip.amount)
    BY <1>2, <1>3, <1>4, <1>6 DEF Part
  <2> QED
    BY <2>1, <2>2 DEF Gains, U
<1> QED
  BY <1>5, <1>6

(* What a self_rescue adds to each wallet. *)
LEMMA SelfRescueGains ==
  ASSUME IInv, NEW e \in PDA, SelfRescue(e), NEW c
  PROVE  Gains(e, c)
<1>1. /\ lamports \in Ledgers /\ lamports[e] \in Int
      /\ \A w \in Wallets : lamports[w] \in Int
  BY TypesOfState, UserIsWallet DEF IInv, Balances, Ledgers, Accounts
<1>2. \A w \in Wallets : lamports'[w] = lamports[w] + Part(w, UserWallet(e), lamports[e])
  BY <1>1, CloseIsExact DEF SelfRescue, SelfRescueAllowed
<1>3. /\ receipt'[e].paid = [user |-> lamports[e] - 0, caller |-> 0, partner |-> 0, treasury |-> 0]
      /\ receipt'[e].tip.amount = 0
  BY DEF IInv, TypeOK, SelfRescue, SelfRescueAllowed, Settle, PayoutWithBounty, NoTip
<1> QED
  BY <1>1, <1>2, <1>3 DEF Gains, Part

(* What a cleanup adds to each wallet. *)
LEMMA CleanupGains ==
  ASSUME IInv, NEW e \in PDA, NEW caller \in Callers, CleanupExpiredEscrow(caller, e)
  PROVE  Gains(e, caller)
<1> DEFINE bounty == CleanupBounty(Buffer(e))
           U == UserWallet(e)
<1>1. /\ Pending(e) /\ lamports' = AfterCleanup(caller, e)
      /\ Settle(e, "cleanup", PayoutWithBounty(e, bounty), NoTip)
  BY DEF CleanupExpiredEscrow, PayBountyAndClose, CleanupAllowed
<1>2. /\ lamports[e] \in Int /\ \A w \in Wallets : lamports[w] \in Int
      /\ caller \in Wallets
  BY TypesOfState, UserIsWallet, AccountsAssumption DEF IInv, Balances, Accounts
<1>3. bounty \in Nat
  BY <1>1, PayoutsAreNatural, BountyBounds
<1>4. /\ receipt'[e].paid = [user |-> lamports[e] - bounty, caller |-> bounty, partner |-> 0, treasury |-> 0]
      /\ receipt'[e].tip.amount = 0
  BY <1>1 DEF IInv, TypeOK, Settle, PayoutWithBounty, NoTip
<1>5. \A w \in Wallets :
        lamports'[w] = lamports[w] + Part(w, caller, bounty) + Part(w, U, lamports[e] - bounty)
  BY <1>1, <1>2, AfterCleanupIsExact
<1> HIDE DEF bounty
<1>6. ASSUME NEW w \in Wallets, NEW partner, NEW from, NEW to
      PROVE  lamports'[w] - lamports[w] =
               Part(w, U, lamports[e] - bounty) + Part(w, caller, bounty)
               + Part(w, partner, 0) + Part(w, TREASURY, 0) + Part(w, to, 0) - Part(w, from, 0)
  BY <1>2, <1>3, <1>5 DEF Part
<1> QED
  BY <1>4, <1>6 DEF Gains

(* The lamports each wallet really gains when an escrow is resolved are those *)
(* of its roles in the receipt and in the tip transfer, whoever they are:     *)
(* user, partner, treasury, caller, payer and receiver of the tip may be any  *)
(* wallets, also the same one.                                                *)
THEOREM EscrowWalletShares == Spec => WalletsGetTheirShares
<1>1. IInv /\ [Next]_vars
        => [\A e \in PDA :
              Pending(e) /\ ~Pending(e)' =>
                LET r == receipt'[e]
                    Gain(is, amount) == IF is THEN amount ELSE 0
                IN \E c \in Callers : \A w \in Wallets :
                     lamports'[w] - lamports[w] =
                       Gain(w = UserWallet(e), r.paid.user)
                       + Gain(w = c, r.paid.caller)
                       + Gain(w = r.terms.partner_wallet, r.paid.partner)
                       + Gain(w = TREASURY, r.paid.treasury)
                       + Gain(w = r.tip.to, r.tip.amount)
                       - Gain(w = r.tip.from, r.tip.amount)]_vars
  <2> SUFFICES ASSUME IInv, [Next]_vars, NEW e \in PDA, Pending(e), ~Pending(e)'
               PROVE  \E c \in Callers : Gains(e, c)
    BY DEF Gains, Part
  <2>1. ASSUME Swap(e)
        PROVE  \E c \in Callers : Gains(e, c)
    <3>1. PICK c \in Callers, tip \in TipChoices(e), swap \in SwapOutcomes :
            ExecuteSwap(c, e, tip, swap)
      BY <2>1 DEF Swap
    <3>2. tip \in Transfer
      BY <3>1, TipsAreTransfers DEF IInv
    <3> QED
      BY <3>1, <3>2, SwapGains
  <2>2. ASSUME SelfRescue(e)
        PROVE  \E c \in Callers : Gains(e, c)
    BY <2>2, SelfRescueGains, CallersAssumption
  <2>3. ASSUME Cleanup(e)
        PROVE  \E c \in Callers : Gains(e, c)
    BY <2>3, CleanupGains DEF Cleanup
  <2> QED
    BY <2>1, <2>2, <2>3, WhoClosesAnEscrow
<1> QED
  BY <1>1, EscrowInvariant, PTL DEF Spec, WalletsGetTheirShares

-----------------------------------------------------------------------------
(* The refinement: what an escrow's end looks like to its promise. *)
Payments(outcome, paid) ==
  [outcome |-> outcome, user |-> paid.user, caller |-> paid.caller,
   others |-> paid.partner + paid.treasury]

SlotsSince(e) == slot - escrow[e].creation_slot

(* An ending the promise allows, as far as one escrow's own account goes. *)
KeepsPromise(e, outcome, paid) ==
  /\ paid.user + paid.caller + (paid.partner + paid.treasury) = lamports[e]
  /\ Promise!Fair(Payments(outcome, paid), SlotsSince(e), lamports[e])

(* The clock never runs behind an escrow's creation by more than the window   *)
(* it is compared with: where saturating_sub gives more than zero slots, it   *)
(* gives all of them.                                                         *)
LEMMA ElapsedIsAge ==
  ASSUME LInv, NEW e \in PDA, Pending(e)
  PROVE  /\ SlotsSince(e) \in Int
         /\ SlotsSince(e) <= Elapsed(e)
         /\ Elapsed(e) > 0 => Elapsed(e) = SlotsSince(e)
<1>1. slot \in Nat /\ escrow[e].creation_slot \in Nat
  BY TypesOfState DEF LInv, IInv, EscrowState
<1> QED
  BY <1>1 DEF SlotsSince, Elapsed, saturating_sub

(* A share of the buffer is no more than that share of all above the rent. *)
LEMMA ShareOfSurplus ==
  ASSUME LInv, NEW e \in PDA, Pending(e), NEW rate \in Nat, NEW amount \in Nat,
         BASIS_POINTS_DIVISOR * amount <= rate * Buffer(e)
  PROVE  BASIS_POINTS_DIVISOR * amount <= rate * (lamports[e] - ESCROW_RENT)
<1>1. /\ Buffer(e) \in Nat /\ lamports[e] - ESCROW_RENT \in Nat
      /\ Buffer(e) <= lamports[e] - ESCROW_RENT
  BY LiveEscrowFacts
<1>2. rate * Buffer(e) <= rate * (lamports[e] - ESCROW_RENT)
  BY <1>1, MultiplyMonotone
<1>3. /\ BASIS_POINTS_DIVISOR * amount \in Nat
      /\ rate * Buffer(e) \in Nat
      /\ rate * (lamports[e] - ESCROW_RENT) \in Nat
  <2>1. BASIS_POINTS_DIVISOR \in Nat
    BY RatesAssumption
  <2> QED
    BY <1>1, <2>1
<1> HIDE DEF Buffer
<1> QED
  BY <1>2, <1>3

(* The split of a swap is one that EscrowPromise allows. *)
LEMMA SwapKeepsPromise ==
  ASSUME LInv, NEW e \in PDA, Pending(e)
  PROVE  IF IsRescue(Elapsed(e))
         THEN KeepsPromise(e, "rescue", RescuePayout(e))
         ELSE KeepsPromise(e, "ordinary", PayoutWithBounty(e, 0))
<1> DEFINE k == KeeperShare(Buffer(e))
           p == PartnerShare(Buffer(e))
           t == TreasuryShare(Buffer(e))
<1>1. /\ Buffer(e) \in Nat /\ lamports[e] \in Nat /\ ESCROW_RENT \in Nat
      /\ lamports[e] >= ESCROW_RENT + Buffer(e)
      /\ Elapsed(e) \in Nat /\ TTL_SLOTS \in Nat
  BY LiveEscrowFacts
<1>2. /\ SlotsSince(e) \in Int
      /\ SlotsSince(e) <= Elapsed(e)
      /\ Elapsed(e) > 0 => Elapsed(e) = SlotsSince(e)
  BY ElapsedIsAge
<1>3. CASE IsRescue(Elapsed(e))
  <2>1. k \in Nat /\ p \in Nat /\ t \in Nat /\ k + p + t = Buffer(e)
    BY <1>1, SharesAreTheBuffer
  <2>2. BASIS_POINTS_DIVISOR * k <= KEEPER_SHARE_BPS * (lamports[e] - ESCROW_RENT)
    BY <1>1, KeeperShareBounds, ShareOfSurplus, RatesAssumption
  <2>3. RescuePayout(e) = [user |-> lamports[e] - Buffer(e), caller |-> k, partner |-> p, treasury |-> t]
    BY DEF RescuePayout
  <2> HIDE DEF k, p, t
  <2>4. SlotsSince(e) > TTL_SLOTS
    BY <1>1, <1>2, <1>3 DEF IsRescue
  <2>5. /\ lamports[e] - Buffer(e) >= ESCROW_RENT
        /\ (lamports[e] - Buffer(e)) + k + (p + t) = lamports[e]
    BY <1>1, <2>1
  <2>6. Promise!Fair(Payments("rescue", RescuePayout(e)), SlotsSince(e), lamports[e])
    BY <2>2, <2>3, <2>4, <2>5 DEF Promise!Fair, Payments
  <2>7. KeepsPromise(e, "rescue", RescuePayout(e))
    BY <2>3, <2>5, <2>6 DEF KeepsPromise
  <2> QED
    BY <1>3, <2>7
<1>4. CASE ~IsRescue(Elapsed(e))
  <2>1. SlotsSince(e) <= TTL_SLOTS
    BY <1>1, <1>2, <1>4 DEF IsRescue
  <2>2. PayoutWithBounty(e, 0) = [user |-> lamports[e], caller |-> 0, partner |-> 0, treasury |-> 0]
    BY <1>1 DEF PayoutWithBounty
  <2>3. KeepsPromise(e, "ordinary", PayoutWithBounty(e, 0))
    BY <1>1, <2>1, <2>2 DEF KeepsPromise, Promise!Fair, Payments
  <2> QED
    BY <1>4, <2>3
<1> QED
  BY <1>3, <1>4

(* The split of a self_rescue is one that EscrowPromise allows. *)
LEMMA SelfRescueKeepsPromise ==
  ASSUME LInv, NEW e \in PDA, Pending(e), Elapsed(e) > SELF_RESCUE_SLOTS
  PROVE  KeepsPromise(e, "self_rescue", PayoutWithBounty(e, 0))
<1>1. lamports[e] \in Nat /\ Elapsed(e) \in Nat /\ SELF_RESCUE_SLOTS \in Nat
  BY LiveEscrowFacts, WindowsAssumption
<1>2. SlotsSince(e) > SELF_RESCUE_SLOTS
  BY <1>1, ElapsedIsAge
<1>3. PayoutWithBounty(e, 0) = [user |-> lamports[e], caller |-> 0, partner |-> 0, treasury |-> 0]
  BY <1>1 DEF PayoutWithBounty
<1> QED
  BY <1>1, <1>2, <1>3 DEF KeepsPromise, Promise!Fair, Payments

(* The split of a cleanup is one that EscrowPromise allows. *)
LEMMA CleanupKeepsPromise ==
  ASSUME LInv, NEW e \in PDA, Pending(e), Elapsed(e) > CLEANUP_SLOTS
  PROVE  KeepsPromise(e, "cleanup", PayoutWithBounty(e, CleanupBounty(Buffer(e))))
<1> DEFINE bounty == CleanupBounty(Buffer(e))
<1>1. lamports[e] \in Nat /\ Elapsed(e) \in Nat /\ CLEANUP_SLOTS \in Nat /\ Buffer(e) \in Nat
  BY LiveEscrowFacts, WindowsAssumption
<1>2. SlotsSince(e) > CLEANUP_SLOTS
  BY <1>1, ElapsedIsAge
<1>3. /\ bounty \in Nat
      /\ BASIS_POINTS_DIVISOR * bounty <= CLEANUP_BOUNTY_BPS * (lamports[e] - ESCROW_RENT)
  <2>1. CLEANUP_BOUNTY_BPS \in Nat
    BY RatesAssumption
  <2>2. bounty \in Nat /\ BASIS_POINTS_DIVISOR * bounty <= CLEANUP_BOUNTY_BPS * Buffer(e)
    BY <1>1, BountyBounds
  <2> HIDE DEF bounty
  <2> QED
    BY <2>1, <2>2, ShareOfSurplus
<1>4. PayoutWithBounty(e, bounty) = [user |-> lamports[e] - bounty, caller |-> bounty, partner |-> 0, treasury |-> 0]
  BY DEF PayoutWithBounty
<1> HIDE DEF bounty
<1>5. KeepsPromise(e, "cleanup", PayoutWithBounty(e, bounty))
  <2>1. (lamports[e] - bounty) + bounty + (0 + 0) = lamports[e] /\ 0 + 0 = 0
    BY <1>1, <1>3
  <2>2. Promise!Fair(Payments("cleanup", PayoutWithBounty(e, bounty)), SlotsSince(e), lamports[e])
    BY <1>2, <1>3, <1>4, <2>1 DEF Promise!Fair, Payments
  <2> QED
    BY <1>4, <2>1, <2>2 DEF KeepsPromise
<1> QED
  BY <1>5 DEF bounty

(* The promise's view of the state: lamports held, slot opened, last payout.  *)
Vaults == [e \in PDA |-> lamports[e]]

OpenedAt == [e \in PDA |-> IF Pending(e) THEN escrow[e].creation_slot ELSE 0]

Payouts ==
  [e \in PDA |->
    [outcome |-> receipt[e].outcome, user |-> receipt[e].paid.user,
     caller |-> receipt[e].paid.caller,
     others |-> receipt[e].paid.partner + receipt[e].paid.treasury]]

(* A step that settles one escrow, empties it and touches no other resolves   *)
(* its vault, if the payments recorded are ones the promise allows.           *)
LEMMA SettlingResolves ==
  ASSUME LInv, NEW e \in PDA, Pending(e),
         NEW outcome, NEW paid, NEW tip,
         Settle(e, outcome, paid, tip), KeepsPromise(e, outcome, paid),
         slot' = slot, lamports' \in Balances, lamports'[e] = 0,
         \A f \in PDA \ {e} : lamports'[f] = lamports[f]
  PROVE  Promise!Resolve(e)
<1>1. /\ escrow' = [escrow EXCEPT ![e] = NoEscrow]
      /\ escrow \in [PDA -> EscrowState \cup {NoEscrow}]
      /\ receipt \in [PDA -> Receipt]
      /\ lamports[e] \in Nat /\ lamports[e] > 0
  BY LiveEscrowFacts, AmountsAssumption DEF LInv, IInv, TypeOK, Settle
<1>2. Vaults' = [Vaults EXCEPT ![e] = 0]
  BY DEF Vaults
<1>3. OpenedAt' = [OpenedAt EXCEPT ![e] = 0]
  BY <1>1 DEF OpenedAt, Pending
<1>4. \A f \in PDA \ {e} : receipt'[f] = receipt[f]
  BY <1>1 DEF Settle
<1>5. receipt'[e].outcome = outcome /\ receipt'[e].paid = paid
  BY <1>1 DEF Settle
<1>6. /\ Payouts'[e] = Payments(outcome, paid)
      /\ \A f \in PDA \ {e} : Payouts'[f] = Payouts[f]
  BY <1>4, <1>5 DEF Payouts, Payments
<1>7. Vaults[e] = lamports[e] /\ slot - OpenedAt[e] = SlotsSince(e)
  BY DEF Vaults, OpenedAt, SlotsSince
<1>8. Payouts'[e].user + Payouts'[e].caller + Payouts'[e].others = Vaults[e]
  BY <1>6, <1>7 DEF KeepsPromise, Payments
<1>9. Promise!Fair(Payouts'[e], slot - OpenedAt[e], Vaults[e])
  BY <1>6, <1>7 DEF KeepsPromise
<1>10. Vaults[e] > 0
  BY <1>1, <1>7
<1> QED
  BY <1>2, <1>3, <1>6, <1>8, <1>9, <1>10
     DEF Promise!Resolve, Promise!Age, Vaults, OpenedAt, Payouts

(* The three resolving instructions resolve the escrow's vault. *)
LEMMA ResolutionsRefine ==
  ASSUME LInv, NEW e \in PDA, Swap(e) \/ SelfRescue(e) \/ Cleanup(e)
  PROVE  Promise!Resolve(e)
<1>1. /\ lamports' \in Balances /\ lamports'[e] = 0
      /\ \A f \in PDA \ {e} : lamports'[f] = lamports[f]
  BY ResolutionEmptiesOne DEF LInv
<1>2. slot' = slot /\ Pending(e)
  BY DEF Swap, ExecuteSwap, SwapAllowed, AfterSwap, SelfRescue, SelfRescueAllowed,
         Cleanup, CleanupExpiredEscrow, PayBountyAndClose, CleanupAllowed, AfterCleanup
<1>3. ASSUME Swap(e)
      PROVE  \E tip :
               IF IsRescue(Elapsed(e))
               THEN Settle(e, "rescue", RescuePayout(e), tip)
               ELSE Settle(e, "ordinary", PayoutWithBounty(e, 0), tip)
  BY <1>3 DEF Swap, ExecuteSwap, SwapAllowed, AfterSwap
<1>4. CASE Swap(e)
  BY <1>1, <1>2, <1>3, <1>4, SwapKeepsPromise, SettlingResolves
<1>5. CASE SelfRescue(e)
  <2>1. /\ Elapsed(e) > SELF_RESCUE_SLOTS
        /\ Settle(e, "self_rescue", PayoutWithBounty(e, 0), NoTip)
    BY <1>5 DEF SelfRescue, SelfRescueAllowed
  <2> QED
    BY <1>1, <1>2, <2>1, SelfRescueKeepsPromise, SettlingResolves
<1>6. CASE Cleanup(e)
  <2>1. /\ Elapsed(e) > CLEANUP_SLOTS
        /\ Settle(e, "cleanup", PayoutWithBounty(e, CleanupBounty(Buffer(e))), NoTip)
    BY <1>6 DEF Cleanup, CleanupExpiredEscrow, PayBountyAndClose, CleanupAllowed,
                AfterCleanup, CleanupWindowElapsed
  <2> QED
    BY <1>1, <1>2, <2>1, CleanupKeepsPromise, SettlingResolves
<1> QED
  BY <1>4, <1>5, <1>6

(* initialize_escrow opens a vault with at least the rent in it. *)
LEMMA InitializeRefines ==
  ASSUME LInv, NEW e \in PDA, NEW p \in Partners, NEW a \in Inputs,
         NEW b \in Destinations, NEW amount \in InputAmounts,
         NEW output \in OutputAmounts, NEW buffer \in Buffers,
         NEW minimum \in DynamicMinimums,
         InitializeEscrow(e, p, a, b, amount, output, buffer, minimum)
  PROVE  Promise!Open(e)
<1>1. /\ ~Pending(e) /\ slot' = slot /\ receipt' = receipt
      /\ escrow \in [PDA -> EscrowState \cup {NoEscrow}]
      /\ lamports[e] = 0
  BY DEF InitializeEscrow, LInv, IInv, TypeOK, Solvent
<1>2. /\ lamports'[e] >= ESCROW_RENT
      /\ \A f \in PDA \ {e} : lamports'[f] = lamports[f]
  BY <1>1, OpeningFundsOne DEF LInv
<1>3. /\ Pending(e)' /\ escrow'[e].creation_slot = slot
      /\ \A f \in PDA \ {e} : escrow'[f] = escrow[f]
  <2>1. [partner_wallet |-> p, user_input_token_account |-> a, input_amount |-> amount,
         expected_destination_token_account |-> b, expected_output_amount |-> output,
         gas_buffer_lamports |-> buffer, creation_slot |-> slot] \in EscrowState
    BY AccountsAssumption, AmountsAssumption DEF EscrowState, LInv, IInv, TypeOK
  <2> QED
    BY <1>1, <2>1, NoEscrowAssumption DEF InitializeEscrow, Pending
<1>4. OpenedAt' = [OpenedAt EXCEPT ![e] = slot]
  BY <1>3 DEF OpenedAt, Pending
<1>5. /\ Vaults[e] = 0 /\ Vaults'[e] >= ESCROW_RENT
      /\ \A f \in PDA \ {e} : Vaults'[f] = Vaults[f]
  BY <1>1, <1>2 DEF Vaults
<1>6. Payouts' = Payouts
  BY <1>1 DEF Payouts
<1> QED
  BY <1>1, <1>4, <1>5, <1>6
     DEF Promise!Open, Promise!OtherVaultsUnchanged, Vaults, OpenedAt, Payouts

(* A transfer to a pending escrow that leaves its creation slot alone funds   *)
(* its vault, or, with nothing in it, does nothing.                           *)
LEMMA TransfersRefine ==
  ASSUME LInv, NEW c \in Callers, NEW e \in PDA, NEW amount \in Nat, Pending(e),
         amount <= lamports[c], lamports' = move_lamports(lamports, c, e, amount),
         slot' = slot, receipt' = receipt, OpenedAt' = OpenedAt
  PROVE  Promise!Fund(e) \/ UNCHANGED Promise!vars
<1>1. /\ lamports'[e] = lamports[e] + amount
      /\ \A f \in PDA \ {e} : lamports'[f] = lamports[f]
  BY FundingMovesLamports DEF LInv
<1>2. lamports[e] \in Nat /\ lamports[e] > 0
  BY LiveEscrowFacts, AmountsAssumption
<1>3. Payouts' = Payouts
  BY DEF Payouts
<1>4. CASE amount = 0
  <2>1. Vaults' = Vaults
    BY <1>1, <1>2, <1>4 DEF Vaults
  <2> QED
    BY <1>3, <2>1 DEF Promise!vars, Vaults, OpenedAt, Payouts
<1>5. CASE amount > 0
  <2>1. /\ Vaults[e] > 0 /\ Vaults'[e] > Vaults[e]
        /\ \A f \in PDA \ {e} : Vaults'[f] = Vaults[f]
    BY <1>1, <1>2, <1>5 DEF Vaults
  <2> QED
    BY <1>3, <2>1 DEF Promise!Fund, Promise!OtherVaultsUnchanged, Vaults, OpenedAt,
                      Payouts
<1> QED
  BY <1>4, <1>5

(* Every step of the program is a step of the promise, or none. *)
LEMMA StepsRefine ==
  ASSUME LInv, [Next]_vars
  PROVE  [Promise!Next]_(Promise!vars)
<1>1. ASSUME NEW e \in PDA, NEW p \in Partners, NEW a \in Inputs,
             NEW b \in Destinations, NEW amount \in InputAmounts,
             NEW output \in OutputAmounts, NEW buffer \in Buffers,
             NEW minimum \in DynamicMinimums,
             InitializeEscrow(e, p, a, b, amount, output, buffer, minimum)
      PROVE  Promise!Next
  BY <1>1, InitializeRefines DEF Promise!Next
<1>2. ASSUME NEW e \in PDA, Swap(e) \/ SelfRescue(e) \/ Cleanup(e)
      PROVE  Promise!Next
  BY <1>2, ResolutionsRefine DEF Promise!Next
<1>3. ASSUME NEW c \in Callers, NEW e \in PDA, NEW amount \in TopUps,
             TopUpBuffer(c, e, amount)
      PROVE  Promise!Next \/ UNCHANGED Promise!vars
  <2>1. /\ Pending(e) /\ amount \in Nat /\ amount <= lamports[c]
        /\ lamports' = move_lamports(lamports, c, e, amount)
        /\ escrow' = [escrow EXCEPT ![e] = [escrow[e] EXCEPT !.gas_buffer_lamports = @ + amount]]
        /\ slot' = slot /\ receipt' = receipt
    <3>1. lamports[c] \in Nat
      BY AccountsAssumption DEF LInv, IInv, TypeOK
    <3> QED
      BY <1>3, <3>1, AmountsAssumption DEF TopUpBuffer, topped_up
  <2>2. /\ escrow[e] \in EscrowState
        /\ escrow \in [PDA -> EscrowState \cup {NoEscrow}]
    BY <2>1, TypesOfState DEF LInv, IInv, TypeOK
  <2>3. /\ Pending(e)' /\ escrow'[e].creation_slot = escrow[e].creation_slot
        /\ \A f \in PDA \ {e} : escrow'[f] = escrow[f]
    <3>1. escrow'[e] \in EscrowState
      BY <2>1, <2>2 DEF EscrowState
    <3> QED
      BY <2>1, <2>2, <3>1, NoEscrowAssumption DEF Pending, EscrowState
  <2>4. OpenedAt' = OpenedAt
    BY <2>1, <2>3 DEF OpenedAt, Pending
  <2> QED
    BY <2>1, <2>4, TransfersRefine DEF Promise!Next
<1>4. ASSUME NEW c \in Callers, NEW e \in PDA, NEW amount \in Donations,
             Donate(c, e, amount)
      PROVE  Promise!Next \/ UNCHANGED Promise!vars
  <2>1. /\ Pending(e) /\ amount \in Nat /\ amount <= lamports[c]
        /\ lamports' = move_lamports(lamports, c, e, amount)
        /\ escrow' = escrow /\ slot' = slot /\ receipt' = receipt
    <3>1. lamports[c] \in Nat
      BY AccountsAssumption DEF LInv, IInv, TypeOK
    <3> QED
      BY <1>4, <3>1, AmountsAssumption DEF Donate
  <2>2. OpenedAt' = OpenedAt
    BY <2>1 DEF OpenedAt, Pending
  <2> QED
    BY <2>1, <2>2, TransfersRefine DEF Promise!Next
<1>5. ASSUME \/ \E a \in TokenAccounts : RevokeDelegation(a)
             \/ \E a \in TokenAccounts : MoveTokens(a)
             \/ \E a \in TokenAccounts : CloseTokenAccount(a)
             \/ \E a \in TokenAccounts : ReopenTokenAccount(a)
             \/ UNCHANGED vars
      PROVE  UNCHANGED Promise!vars
  <2>1. UNCHANGED <<slot, escrow, lamports, receipt>>
    BY <1>5 DEF RevokeDelegation, MoveTokens, CloseTokenAccount, ReopenTokenAccount, vars
  <2> QED
    BY <2>1 DEF Promise!vars, Pending
<1>6. ASSUME NextSlot
      PROVE  Promise!Next
  BY <1>6 DEF NextSlot, Promise!Next, Promise!Tick, Pending
<1> QED
  BY <1>1, <1>2, <1>3, <1>4, <1>5, <1>6 DEF Next

(* Nothing is open and nothing was paid at the start. *)
LEMMA InitRefines == Init => Promise!Init
<1> SUFFICES ASSUME Init PROVE Promise!Init
  OBVIOUS
<1>1. \A e \in PDA : lamports[e] = 0 /\ ~Pending(e)
  BY AccountsAssumption DEF Init, Pending
<1>2. \A e \in PDA : receipt[e].outcome = "none"
        /\ receipt[e].paid = [user |-> 0, caller |-> 0, partner |-> 0, treasury |-> 0]
  BY DEF Init, NoReceipt
<1> QED
  BY <1>1, <1>2 DEF Init, Promise!Init

(* The program implements what it promises its user: seen through the         *)
(* lamports in the escrow accounts alone, every instruction opens, funds or   *)
(* pays out one vault by the promise's table, or changes nothing.             *)
THEOREM EscrowImplementsPromise == Spec => PromiseKept
<1>1. HInv /\ [Next]_vars => [Promise!Next]_(Promise!vars)
  BY StepsRefine DEF HInv
<1> QED
  BY <1>1, InitRefines, PayoutInvariant, PTL DEF Spec, PromiseKept, Promise!Spec

-----------------------------------------------------------------------------
(* No lamport is made or lost: every handler only moves lamports, and a move   *)
(* keeps the sum, also when somebody pays themselves.                          *)
Total(b) == SumFunctionOnSet(b, Accounts)

(* A payment from one account to another, or to the same one. *)
LEMMA MoveConserves ==
  ASSUME NEW b \in Ledgers, NEW from \in Accounts, NEW to \in Accounts, NEW amount \in Int
  PROVE  /\ move_lamports(b, from, to, amount) \in Ledgers
         /\ Total(move_lamports(b, from, to, amount)) = Total(b)
<1> DEFINE after == move_lamports(b, from, to, amount)
<1>1. /\ after \in Ledgers
      /\ \A x \in Accounts : after[x] = b[x] - Part(x, from, amount) + Part(x, to, amount)
  BY MoveIsExact
<1> HIDE DEF after
<1>2. \A x \in Accounts : b[x] \in Int /\ after[x] \in Int
  BY <1>1 DEF Ledgers
<1>3. IsFiniteSet(Accounts)
  BY FiniteAssumption, FS_Union DEF Accounts
<1>4. CASE from = to
  <2>1. \A x \in Accounts : after[x] = b[x]
    BY <1>1, <1>2, <1>4 DEF Part
  <2>2. SumFunctionOnSet(after, Accounts) = SumFunctionOnSet(b, Accounts)
    BY <1>2, <1>3, <2>1, SumOfSame
  <2> QED
    BY <1>1, <2>2 DEF Total, after
<1>5. CASE from # to
  <2>1. /\ after[from] + after[to] = b[from] + b[to]
        /\ \A x \in Accounts \ {from, to} : after[x] = b[x]
    BY <1>1, <1>2, <1>5 DEF Part
  <2>2. SumFunctionOnSet(after, Accounts) = SumFunctionOnSet(b, Accounts)
    BY <1>2, <1>3, <1>5, <2>1, PaymentKeepsSum
  <2> QED
    BY <1>1, <2>2 DEF Total, after
<1> QED
  BY <1>4, <1>5

(* A balance sheet with the same total. *)
Conserves(after, b) == after \in Ledgers /\ Total(after) = Total(b)

(* Closing an escrow account keeps the sum. *)
LEMMA CloseConserves ==
  ASSUME NEW b \in Ledgers, NEW e \in PDA
  PROVE  Conserves(close(b, e), b)
<1>1. e \in Accounts /\ UserWallet(e) \in Accounts /\ b[e] \in Int
  BY UserIsWallet DEF Ledgers, Accounts
<1> QED
  BY <1>1, MoveConserves DEF close, Conserves

(* The three payouts of a rescue keep the sum, whoever is paid. *)
LEMMA RescueSplitConserves ==
  ASSUME NEW b \in Ledgers, NEW e \in PDA, NEW caller \in Wallets,
         escrow[e] \in EscrowState, Buffer(e) \in Nat
  PROVE  Conserves(RescueSplit(b, caller, e), b)
<1> DEFINE k == KeeperShare(Buffer(e))
           p == PartnerShare(Buffer(e))
           t == TreasuryShare(Buffer(e))
           P == escrow[e].partner_wallet
           b1 == move_lamports(b, e, caller, k)
           b2 == move_lamports(b1, e, P, p)
           b3 == move_lamports(b2, e, TREASURY, t)
<1>1. k \in Int /\ p \in Int /\ t \in Int
  BY SharesAreTheBuffer
<1>2. e \in Accounts /\ caller \in Accounts /\ P \in Accounts /\ TREASURY \in Accounts
  BY AccountsAssumption, UserIsWallet DEF EscrowState
<1>3. RescueSplit(b, caller, e) = b3
  BY DEF RescueSplit
<1> HIDE DEF k, p, t, P
<1>4. Conserves(b1, b)
  BY <1>1, <1>2, MoveConserves DEF Conserves
<1> HIDE DEF b1
<1>5. Conserves(b2, b1)
  BY <1>1, <1>2, <1>4, MoveConserves DEF Conserves
<1> HIDE DEF b2
<1>6. Conserves(b3, b2)
  BY <1>1, <1>2, <1>5, MoveConserves DEF Conserves
<1> QED
  BY <1>3, <1>4, <1>5, <1>6 DEF Conserves

(* The tip, the shares or the refund, and the closing sweep. *)
LEMMA SwapConserves ==
  ASSUME IInv, NEW e \in PDA, Swap(e)
  PROVE  Conserves(lamports', lamports)
<1>1. PICK caller \in Callers, tip \in TipChoices(e), swap \in SwapOutcomes :
        ExecuteSwap(caller, e, tip, swap)
  BY DEF Swap
<1> DEFINE tipped == TipPaid(tip)
           rescue == IsRescue(Elapsed(e))
           paid == IF rescue THEN RescueSplit(tipped, caller, e) ELSE OrdinaryRefund(tipped, e)
<1>2. /\ Pending(e) /\ lamports' = close(paid, e)
  BY <1>1 DEF ExecuteSwap, SwapAllowed, AfterSwap
<1>3. /\ lamports \in Ledgers /\ escrow[e] \in EscrowState /\ Buffer(e) \in Nat
      /\ Elapsed(e) \in Nat
      /\ caller \in Wallets /\ caller \in Accounts
      /\ e \in Accounts /\ UserWallet(e) \in Accounts
  BY <1>2, TypesOfState, AccountsAssumption, UserIsWallet DEF IInv, Balances, Ledgers,
                                                              Accounts
<1>4. tip.from \in Accounts /\ tip.to \in Accounts /\ tip.amount \in Int
  BY <1>1, <1>2, TipsAreTransfers DEF IInv, Transfer, Accounts
<1>5. Conserves(tipped, lamports)
  BY <1>3, <1>4, MoveConserves DEF TipPaid, Conserves
<1> HIDE DEF tipped
<1>6. Conserves(paid, tipped)
  <2>1. CASE rescue
    BY <1>3, <1>5, <2>1, RescueSplitConserves DEF Conserves
  <2>2. CASE ~rescue
    BY <1>3, <1>5, <2>2, MoveConserves DEF OrdinaryRefund, Conserves
  <2> QED
    BY <2>1, <2>2
<1> HIDE DEF paid
<1>7. Conserves(close(paid, e), paid)
  BY <1>6, CloseConserves DEF Conserves
<1> QED
  BY <1>2, <1>5, <1>6, <1>7 DEF Conserves

(* The bounty and the closing sweep. *)
LEMMA CleanupConserves ==
  ASSUME IInv, NEW e \in PDA, Cleanup(e)
  PROVE  Conserves(lamports', lamports)
<1>1. PICK caller \in Callers : PayBountyAndClose(caller, e)
  BY DEF Cleanup, CleanupExpiredEscrow
<1> DEFINE paid == move_lamports(lamports, e, caller, CleanupBounty(Buffer(e)))
<1>2. Pending(e) /\ lamports' = close(paid, e)
  BY <1>1 DEF PayBountyAndClose, CleanupAllowed, AfterCleanup
<1>3. /\ lamports \in Ledgers /\ Buffer(e) \in Nat /\ caller \in Accounts /\ e \in Accounts
  BY <1>2, TypesOfState, AccountsAssumption, UserIsWallet DEF IInv, Balances, Ledgers,
                                                              Accounts
<1>4. CleanupBounty(Buffer(e)) \in Int
  BY <1>3, BountyBounds
<1>5. Conserves(paid, lamports)
  BY <1>3, <1>4, MoveConserves DEF Conserves
<1> HIDE DEF paid
<1>6. Conserves(close(paid, e), paid)
  BY <1>5, CloseConserves DEF Conserves
<1> QED
  BY <1>2, <1>5, <1>6 DEF Conserves

(* A step of the program, of its environment or of nobody. *)
LEMMA StepConserves ==
  ASSUME IInv, [Next]_vars
  PROVE  Total(lamports') = Total(lamports)
<1>0. lamports \in Ledgers /\ \A e \in PDA : e \in Accounts /\ UserWallet(e) \in Accounts
  BY TypesOfState, UserIsWallet DEF IInv, Balances, Ledgers, Accounts
<1>1. ASSUME NEW e \in PDA, NEW p, NEW a, NEW b, NEW amount, NEW output,
             NEW buffer \in Buffers, NEW minimum,
             InitializeEscrow(e, p, a, b, amount, output, buffer, minimum)
      PROVE  Total(lamports') = Total(lamports)
  <2>1. ESCROW_RENT + buffer \in Int
    BY AmountsAssumption
  <2>2. lamports' = move_lamports(lamports, UserWallet(e), e, ESCROW_RENT + buffer)
    BY <1>1 DEF InitializeEscrow
  <2> QED
    BY <1>0, <2>1, <2>2, MoveConserves
<1>2. ASSUME NEW e \in PDA, Swap(e) \/ SelfRescue(e) \/ Cleanup(e)
      PROVE  Total(lamports') = Total(lamports)
  <2>1. CASE SelfRescue(e)
    <3>1. lamports' = close(lamports, e)
      BY <2>1 DEF SelfRescue, SelfRescueAllowed
    <3> QED
      BY <1>0, <3>1, CloseConserves DEF Conserves
  <2> QED
    BY <1>2, <2>1, SwapConserves, CleanupConserves DEF Conserves
<1>3. ASSUME NEW c \in Callers, NEW e \in PDA, NEW amount \in TopUps \cup Donations,
             lamports' = move_lamports(lamports, c, e, amount)
      PROVE  Total(lamports') = Total(lamports)
  <2>1. c \in Accounts /\ amount \in Int
    BY AccountsAssumption, AmountsAssumption DEF Accounts
  <2> QED
    BY <1>0, <1>3, <2>1, MoveConserves
<1>4. ASSUME UNCHANGED lamports
      PROVE  Total(lamports') = Total(lamports)
  BY <1>4
<1>5. ASSUME NEW c \in Callers, NEW e \in PDA, NEW amount \in TopUps,
             TopUpBuffer(c, e, amount)
      PROVE  Total(lamports') = Total(lamports)
  BY <1>3, <1>5 DEF TopUpBuffer
<1>6. ASSUME NEW c \in Callers, NEW e \in PDA, NEW amount \in Donations,
             Donate(c, e, amount)
      PROVE  Total(lamports') = Total(lamports)
  BY <1>3, <1>6 DEF Donate
<1>7. ASSUME \/ \E a \in TokenAccounts : RevokeDelegation(a)
             \/ \E a \in TokenAccounts : MoveTokens(a)
             \/ \E a \in TokenAccounts : CloseTokenAccount(a)
             \/ \E a \in TokenAccounts : ReopenTokenAccount(a)
             \/ NextSlot
             \/ UNCHANGED vars
      PROVE  UNCHANGED lamports
  BY <1>7 DEF RevokeDelegation, MoveTokens, CloseTokenAccount, ReopenTokenAccount, NextSlot, vars
<1> QED
  BY <1>1, <1>2, <1>4, <1>5, <1>6, <1>7 DEF Next

(* At first the wallets hold everything. *)
LEMMA InitTotal ==
  ASSUME Init
  PROVE  Total(lamports) = SumFunction(InitialLamports)
<1>1. /\ IsFiniteSet(Accounts) /\ IsFiniteSet(Wallets) /\ Wallets \in SUBSET Accounts
  BY FiniteAssumption, FS_Union DEF Accounts
<1>2. lamports = [x \in Accounts |-> IF x \in Wallets THEN InitialLamports[x] ELSE 0]
  BY DEF Init, Accounts
<1>3. \A w \in Wallets : InitialLamports[w] \in Int
  BY AmountsAssumption
<1>4. /\ \A x \in Accounts : lamports[x] \in Int
      /\ \A x \in Accounts \ Wallets : lamports[x] = 0
      /\ \A x \in Wallets : lamports[x] = InitialLamports[x]
  BY <1>1, <1>2, <1>3
<1>5. SumFunctionOnSet(lamports, Accounts) = SumFunctionOnSet(lamports, Wallets)
  BY <1>1, <1>4, SumOfZeros
<1>6. SumFunctionOnSet(lamports, Wallets) = SumFunctionOnSet(InitialLamports, Wallets)
  BY <1>1, <1>3, <1>4, SumOfSame
<1>7. DOMAIN InitialLamports = Wallets
  BY AmountsAssumption
<1> QED
  BY <1>5, <1>6, <1>7 DEF Total, SumFunction

(* What wallets and escrows hold together never changes, for any number of    *)
(* them: no handler's transfers and closes make or lose a lamport, whoever    *)
(* pays whom.  (util.rs 14-28)                                                *)
THEOREM NoLamportMadeOrLost == Spec => []LamportsConserved
<1> DEFINE Kept == IInv /\ Total(lamports) = SumFunction(InitialLamports)
<1>1. Init => Kept
  BY InitIInv, InitTotal
<1>2. Kept /\ [Next]_vars => Kept'
  BY NextIInv, StepConserves DEF Total
<1>3. Kept => LamportsConserved
  <2>1. TypeOK => DOMAIN lamports = Accounts
    BY DEF TypeOK, Accounts
  <2> QED
    BY <2>1 DEF IInv, Total, SumFunction, LamportsConserved
<1> HIDE DEF Kept
<1> QED
  BY <1>1, <1>2, <1>3, PTL DEF Spec

-----------------------------------------------------------------------------
(* What stays possible.  ENABLED is beyond the prover; the guards are not.    *)
(* Each of the three below says that an instruction passes every check of the *)
(* handler and the runtime's rent rule after its payouts, which is all that   *)
(* its action asks of a state.                                                *)

RInv == HInv /\ RentStateOk(lamports)

(* No step leaves a wallet above zero and below its rent minimum. *)
LEMMA RentStateStaysOk ==
  ASSUME RentStateOk(lamports), [Next]_vars
  PROVE  RentStateOk(lamports)'
<1>1. ASSUME UNCHANGED lamports
      PROVE  RentStateOk(lamports)'
  BY <1>1 DEF RentStateOk
<1>2. ASSUME \E after : lamports' = after /\ RentStateOk(after)
      PROVE  RentStateOk(lamports)'
  BY <1>2 DEF RentStateOk
<1>3. ASSUME NEW e \in PDA, Swap(e) \/ SelfRescue(e) \/ Cleanup(e)
      PROVE  RentStateOk(lamports)'
  BY <1>2, <1>3 DEF Swap, ExecuteSwap, SwapAllowed, SelfRescue, SelfRescueAllowed,
                    Cleanup,
                    CleanupExpiredEscrow, PayBountyAndClose, CleanupAllowed
<1>4. ASSUME NEW c, NEW e, NEW amount, TopUpBuffer(c, e, amount) \/ Donate(c, e, amount)
      PROVE  RentStateOk(lamports)'
  BY <1>2, <1>4 DEF TopUpBuffer, Donate
<1>5. ASSUME NEW e, NEW p, NEW a, NEW b, NEW amount, NEW output, NEW buffer, NEW minimum,
             InitializeEscrow(e, p, a, b, amount, output, buffer, minimum)
      PROVE  RentStateOk(lamports)'
  BY <1>2, <1>5 DEF InitializeEscrow
<1>6. ASSUME \/ \E a \in TokenAccounts :
                  RevokeDelegation(a) \/ MoveTokens(a) \/ CloseTokenAccount(a) \/ ReopenTokenAccount(a)
             \/ NextSlot
             \/ UNCHANGED vars
      PROVE  RentStateOk(lamports)'
  BY <1>1, <1>6 DEF RevokeDelegation, MoveTokens, CloseTokenAccount, ReopenTokenAccount, NextSlot,
                    vars
<1> QED
  BY <1>3, <1>4, <1>5, <1>6 DEF Next

LEMMA InitRentState == Init => RentStateOk(lamports)
BY RentAssumption, AccountsAssumption DEF Init, RentStateOk

(* Wallets are never in the state the runtime refuses. *)
LEMMA RentInvariant == Spec => []RInv
<1>1. RentStateOk(lamports) /\ [Next]_vars => RentStateOk(lamports)'
  BY RentStateStaysOk
<1> QED
  BY <1>1, InitRentState, PayoutInvariant, PTL DEF Spec, RInv

(* Past its window, a live escrow whose input token account exists passes     *)
(* every check of self_rescue, whatever became of the delegation and however  *)
(* poor the user is.  (self_rescue.rs 26-64)                                  *)
UserMaySelfRescue ==
  \A e \in PDA :
    Pending(e) /\ Elapsed(e) > SELF_RESCUE_SLOTS /\ token[Input(e)].open
      => SelfRescueAllowed(e)

THEOREM SelfRescueNeverRefused == Spec => []UserMaySelfRescue
<1>1. RInv => UserMaySelfRescue
  <2> SUFFICES ASSUME RInv, NEW e \in PDA, Pending(e), Elapsed(e) > SELF_RESCUE_SLOTS,
                      token[Input(e)].open
               PROVE  SelfRescueAllowed(e)
    BY DEF UserMaySelfRescue
  <2>1. /\ lamports \in Ledgers
        /\ lamports[e] \in Nat /\ lamports[e] >= ESCROW_RENT
        /\ \A w \in Wallets : lamports[w] \in Nat
    BY TypesOfState, AmountsAssumption
       DEF RInv, HInv, LInv, IInv, Solvent, Balances, Ledgers, Accounts
  <2>2. \A w \in Wallets : close(lamports, e)[w] = lamports[w] + Part(w, UserWallet(e), lamports[e])
    BY <2>1, CloseIsExact
  <2>3. RentStateOk(close(lamports, e))
    BY <2>1, <2>2, RentAssumption, AmountsAssumption DEF RInv, RentStateOk, Part
  <2> QED
    BY <2>3 DEF SelfRescueAllowed, CanRevoke
<1> QED
  BY <1>1, RentInvariant, PTL

(* Past the cleanup window a live escrow passes every check of                *)
(* cleanup_expired_escrow when its user sends it, or any wallet that is not   *)
(* itself below the rent minimum: no account has to exist, no delegation to   *)
(* stand.  (cleanup_expired_escrow.rs 16-58)                                  *)
AnyoneMayCleanUp ==
  \A e \in PDA, c \in Wallets :
    /\ Pending(e) /\ Elapsed(e) > CLEANUP_SLOTS
    /\ c = UserWallet(e) \/ lamports[c] >= WALLET_RENT_MINIMUM
    => CleanupAllowed(c, e)

THEOREM CleanupNeverRefused == Spec => []AnyoneMayCleanUp
<1>1. RInv => AnyoneMayCleanUp
  <2> SUFFICES ASSUME RInv, NEW e \in PDA, NEW c \in Wallets,
                      Pending(e), Elapsed(e) > CLEANUP_SLOTS,
                      c = UserWallet(e) \/ lamports[c] >= WALLET_RENT_MINIMUM
               PROVE  CleanupAllowed(c, e)
    BY DEF AnyoneMayCleanUp
  <2> DEFINE bounty == CleanupBounty(Buffer(e))
  <2>1. /\ IInv
        /\ lamports[e] \in Nat /\ Buffer(e) \in Nat /\ lamports[e] >= ESCROW_RENT + Buffer(e)
        /\ \A w \in Wallets : lamports[w] \in Nat
    BY TypesOfState DEF RInv, HInv, LInv, IInv, Solvent, Balances, Accounts
  <2>2. bounty \in Nat /\ bounty <= Buffer(e)
    BY <2>1, BountyBounds
  <2>3. \A w \in Wallets :
          AfterCleanup(c, e)[w] = lamports[w] + Part(w, c, bounty)
                                  + Part(w, UserWallet(e), lamports[e] - bounty)
    BY <2>1, AfterCleanupIsExact
  <2> HIDE DEF bounty
  <2>4. RentStateOk(AfterCleanup(c, e))
    BY <2>1, <2>2, <2>3, RentAssumption, AmountsAssumption DEF RInv, RentStateOk, Part
  <2>5. lamports[e] >= bounty
    BY <2>1, <2>2, AmountsAssumption
  <2> QED
    BY <2>4, <2>5 DEF CleanupAllowed, CleanupWindowElapsed, bounty
<1> QED
  BY <1>1, RentInvariant, PTL

(* While the delegation stands, the tokens are there, both token accounts are *)
(* open and the payees are funded, a rescue passes every check of             *)
(* execute_swap from the TTL on, for every caller who can pay the tip and     *)
(* every trade within the terms.  (execute_swap.rs 28-80 and 101-275)         *)
FundedRescueMayLand ==
  \A e \in PDA, c \in Callers, swap \in SwapOutcomes :
    LET tip == [from |-> c, to |-> JITO_TIP, named |-> TRUE,
                amount |-> RequiredTip(Buffer(e), Elapsed(e))] IN
    /\ Pending(e) /\ IsRescue(Elapsed(e)) /\ Delegated(e)
    /\ Destination(e) # Input(e) /\ token[Destination(e)].open
    /\ Tradable(e, swap)
    /\ \A w \in {TREASURY, JITO_TIP, escrow[e].partner_wallet} : lamports[w] >= WALLET_RENT_MINIMUM
    /\ lamports[c] >= tip.amount + WALLET_RENT_MINIMUM
    => SwapAllowed(c, e, tip, swap)

(* A trade within the terms draws on the escrow's own delegation only, and    *)
(* its whole delivery is counted as received.                                 *)
LEMMA TradablePasses ==
  ASSUME IInv, AllowanceAllOrNothing, NEW e \in PDA, NEW swap \in SwapOutcomes,
         Pending(e), Delegated(e), Destination(e) # Input(e), Tradable(e, swap)
  PROVE  CpiSucceeds(e, swap) /\ received(e, swap) >= escrow[e].expected_output_amount
<1> DEFINE d == Destination(e)
<1>1. /\ escrow[e] \in EscrowState
      /\ token \in [TokenAccounts -> TokenAccount]
      /\ swap.spent \in [TokenAccounts -> Nat] /\ swap.delivered \in Nat
  BY TypesOfState, AmountsAssumption DEF IInv, TypeOK
<1>2. /\ d \in TokenAccounts /\ Input(e) \in TokenAccounts /\ d # Input(e)
      /\ escrow[e].expected_output_amount \in Nat
      /\ token[d] \in TokenAccount /\ token[d].amount \in Nat
  BY <1>1 DEF EscrowState, Input, Destination, TokenAccount
<1>3. \A a \in TokenAccounts \ {Input(e)} : swap.spent[a] = 0
  BY DEF Tradable
<1>4. CpiSucceeds(e, swap)
  <2> SUFFICES ASSUME NEW a \in TokenAccounts, swap.spent[a] > 0
               PROVE  /\ token[a].open /\ token[a].delegate = e
                      /\ swap.spent[a] <= token[a].allowance
                      /\ swap.spent[a] <= token[a].amount
    BY DEF CpiSucceeds
  <2>1. a = Input(e)
    BY <1>3
  <2> QED
    BY <2>1 DEF Tradable, Delegated, AllowanceAllOrNothing
<1>5. AfterCpi(e, swap)[d].amount = token[d].amount + swap.delivered
  <2> DEFINE spent == [a \in TokenAccounts |-> drawn(token[a], swap.spent[a])]
  <2>1. spent[d] = token[d]
    BY <1>2, <1>3 DEF drawn
  <2>2. spent \in [TokenAccounts -> {spent[a] : a \in TokenAccounts}]
    OBVIOUS
  <2>3. AfterCpi(e, swap) = [spent EXCEPT ![d].amount = spent[d].amount + swap.delivered]
    BY DEF AfterCpi
  <2> HIDE DEF spent, d
  <2>4. AfterCpi(e, swap)[d] = [token[d] EXCEPT !.amount = token[d].amount + swap.delivered]
    BY <1>2, <2>1, <2>2, <2>3
  <2> QED
    BY <1>2, <2>4 DEF TokenAccount
<1>6. received(e, swap) = swap.delivered
  <2>1. received(e, swap) = saturating_sub(token[d].amount + swap.delivered, token[d].amount)
    BY <1>5 DEF received
  <2> HIDE DEF d
  <2> QED
    BY <1>1, <1>2, <2>1 DEF saturating_sub
<1> QED
  BY <1>4, <1>6 DEF Tradable

THEOREM RescueNeverRefused == Spec => []FundedRescueMayLand
<1>1. RInv => FundedRescueMayLand
  <2> SUFFICES ASSUME RInv, NEW e \in PDA, NEW c \in Callers, NEW swap \in SwapOutcomes,
                      Pending(e), IsRescue(Elapsed(e)), Delegated(e),
                      Destination(e) # Input(e), token[Destination(e)].open,
                      Tradable(e, swap),
                      \A w \in {TREASURY, JITO_TIP, escrow[e].partner_wallet} :
                        lamports[w] >= WALLET_RENT_MINIMUM,
                      lamports[c] >= RequiredTip(Buffer(e), Elapsed(e)) + WALLET_RENT_MINIMUM
               PROVE  SwapAllowed(c, e, [from |-> c, to |-> JITO_TIP, named |-> TRUE,
                                         amount |-> RequiredTip(Buffer(e), Elapsed(e))], swap)
    BY DEF FundedRescueMayLand
  <2> DEFINE amount == RequiredTip(Buffer(e), Elapsed(e))
             tip == [from |-> c, to |-> JITO_TIP, named |-> TRUE, amount |-> amount]
             P == escrow[e].partner_wallet
             B == Buffer(e)
             k == KeeperShare(B)
             p == PartnerShare(B)
             t == TreasuryShare(B)
             U == UserWallet(e)
  <2>1. /\ IInv /\ AllowanceAllOrNothing
        /\ lamports[e] \in Nat /\ B \in Nat /\ lamports[e] >= ESCROW_RENT + B
        /\ Elapsed(e) \in Nat
        /\ \A w \in Wallets : lamports[w] \in Nat
        /\ c \in Wallets /\ JITO_TIP \in Wallets
    BY TypesOfState, AccountsAssumption DEF RInv, HInv, LInv, IInv, Solvent, Balances,
                                            Accounts
  <2>2. amount \in Nat
    BY <2>1, RequiredTipNat
  <2>3. k \in Nat /\ p \in Nat /\ t \in Nat
    BY <2>1, SharesAreTheBuffer
  <2>4. /\ tip \in Transfer
        /\ tip.from = c /\ tip.to = JITO_TIP /\ tip.amount = amount /\ tip.named
    BY <2>1, <2>2 DEF Transfer
  <2> HIDE DEF tip
  <2>5. \A w \in Wallets :
          AfterSwap(c, e, tip)[w] =
            lamports[w] - Part(w, c, amount) + Part(w, JITO_TIP, amount)
            + (Part(w, c, k) + Part(w, P, p) + Part(w, TREASURY, t) + Part(w, U, lamports[e] - B))
    BY <2>1, <2>4, AfterSwapIsExact
  <2>6. lamports[tip.from] >= tip.amount /\ lamports[e] >= B
    BY <2>1, <2>2, <2>4, AmountsAssumption
  <2>7. jito_tip_at_least(tip, amount)
    BY <2>2, <2>4 DEF jito_tip_at_least
  <2> HIDE DEF amount, P, B, k, p, t, U
  <2>8. RentStateOk(AfterSwap(c, e, tip))
    <3> SUFFICES ASSUME NEW w \in Wallets
                 PROVE  \/ AfterSwap(c, e, tip)[w] = 0
                        \/ AfterSwap(c, e, tip)[w] >= WALLET_RENT_MINIMUM
      BY DEF RentStateOk
    <3>1. /\ lamports[w] = 0 \/ lamports[w] >= WALLET_RENT_MINIMUM
          /\ WALLET_RENT_MINIMUM \in Nat /\ ESCROW_RENT \in Nat
          /\ WALLET_RENT_MINIMUM <= ESCROW_RENT
          /\ lamports[c] >= amount + WALLET_RENT_MINIMUM
          /\ w \in {TREASURY, JITO_TIP, P} => lamports[w] >= WALLET_RENT_MINIMUM
      BY RentAssumption, AmountsAssumption DEF RInv, RentStateOk, amount, P
    <3> QED
      BY <2>1, <2>2, <2>3, <2>5, <3>1 DEF Part
  <2>9. CpiSucceeds(e, swap) /\ received(e, swap) >= escrow[e].expected_output_amount
    BY <2>1, TradablePasses
  <2>10. token[Input(e)].open
    BY DEF Delegated
  <2>11. SwapAllowed(c, e, tip, swap)
    BY <2>6, <2>7, <2>8, <2>9, <2>10 DEF SwapAllowed, amount, B
  <2> QED
    BY <2>11 DEF tip, amount
<1> QED
  BY <1>1, RentInvariant, PTL

-----------------------------------------------------------------------------
(* The program as its clients see it: ChainAsSeen maps it to the chain of     *)
(* InertiaClient, which is thereby shown to leave nothing out.                *)

(* What the map makes of a single escrow. *)
LEMMA SeenOfEscrow ==
  ASSUME NEW plan, NEW e \in PDA
  PROVE  /\ Seen(plan)!Pending(e) <=> Pending(e)
         /\ Pending(e) => Seen(plan)!Elapsed(e) = Elapsed(e)
         /\ Pending(e) => Seen(plan)!IsRescue(Seen(plan)!Elapsed(e)) = IsRescue(Elapsed(e))
<1>1. Seen(plan)!Pending(e) <=> Pending(e)
  BY DEF Seen!Pending, SeenAccount
<1>2. Pending(e) => Seen(plan)!Elapsed(e) = Elapsed(e)
  BY DEF Seen!Elapsed, Elapsed, Seen!saturating_sub, saturating_sub, SeenAccount
<1>3. \A n : Seen(plan)!IsRescue(n) = IsRescue(n)
  BY DEF Seen!IsRescue, IsRescue
<1> QED
  BY <1>1, <1>2, <1>3

(* What touches neither clock nor escrows is nothing to a client. *)
LEMMA SeenUnchanged ==
  ASSUME NEW plan, UNCHANGED <<slot, escrow, receipt>>
  PROVE  UNCHANGED Seen(plan)!clientVars
BY DEF Seen!clientVars, Seen!chainVars, SeenAccount, SeenFate, Pending, Buffer

(* A slot of the one is a slot of the other. *)
LEMMA SeenNextSlot ==
  ASSUME NEW plan, IInv, NextSlot
  PROVE  Seen(plan)!NextSlot
BY DEF Seen!NextSlot, NextSlot, SeenAccount, SeenFate, Pending, Buffer, IInv, TypeOK

(* An escrow that is settled is closed to the chain, for good. *)
LEMMA SeenClose ==
  ASSUME NEW plan, IInv, NEW e \in PDA, NEW outcome \in Outcome \ {"none"}, NEW paid, NEW tip,
         Settle(e, outcome, paid, tip)
  PROVE  /\ Seen(plan)!Close(e, outcome, Closer[outcome], 0)
<1>1. /\ ~Pending(e)' /\ receipt'[e].outcome = outcome
      /\ \A f \in PDA \ {e} : escrow'[f] = escrow[f] /\ receipt'[f] = receipt[f]
  BY DEF Settle, IInv, TypeOK, Pending
<1>2. /\ SeenAccount(e)' = [status |-> "closed", buffer |-> 0, creation |-> 0]
      /\ SeenFate(e)' = [how |-> outcome, by |-> Closer[outcome], earned |-> 0]
  BY <1>1 DEF SeenAccount, SeenFate
<1>3. \A f \in PDA \ {e} : SeenAccount(f)' = SeenAccount(f) /\ SeenFate(f)' = SeenFate(f)
  BY <1>1 DEF SeenAccount, SeenFate, Pending, Buffer
<1> QED
  BY <1>2, <1>3 DEF Seen!Close

(* One opened as planned is opened. *)
LEMMA SeenInitialize ==
  ASSUME NEW plan, IInv, OpensAsPlanned(plan),
         NEW e \in PDA, NEW p \in Partners, NEW a \in Inputs,
         NEW b \in Destinations, NEW amount \in InputAmounts,
         NEW output \in OutputAmounts, NEW buffer \in Buffers,
         NEW minimum \in DynamicMinimums,
         InitializeEscrow(e, p, a, b, amount, output, buffer, minimum)
  PROVE  Seen(plan)!initializeEscrow(e)
<1>1. /\ ~Pending(e) /\ UNCHANGED <<slot, receipt>>
      /\ escrow'[e] = [partner_wallet |-> p, user_input_token_account |-> a,
                       input_amount |-> amount, expected_destination_token_account |-> b,
                       expected_output_amount |-> output,
                       gas_buffer_lamports |-> buffer, creation_slot |-> slot]
      /\ \A f \in PDA \ {e} : escrow'[f] = escrow[f]
  BY DEF InitializeEscrow, IInv, TypeOK
<1>2. Pending(e)'
  <2>1. escrow'[e] \in EscrowState
    BY <1>1, AmountsAssumption, AccountsAssumption DEF EscrowState, IInv, TypeOK
  <2> QED
    BY <2>1, NoEscrowAssumption DEF Pending
<1>3. receipt[e].outcome = "none" /\ plan[e].buffer = buffer
  BY <1>1, <1>2 DEF OpensAsPlanned, Buffer
<1>4. /\ SeenAccount(e).status = "fresh"
      /\ SeenAccount(e)' = [status |-> "pending", buffer |-> plan[e].buffer, creation |-> slot]
      /\ SeenFate(e)' = SeenFate(e)
  BY <1>1, <1>2, <1>3 DEF SeenAccount, SeenFate, Buffer
<1>5. \A f \in PDA \ {e} : SeenAccount(f)' = SeenAccount(f) /\ SeenFate(f)' = SeenFate(f)
  BY <1>1 DEF SeenAccount, SeenFate, Pending, Buffer
<1> QED
  BY <1>1, <1>4, <1>5 DEF Seen!initializeEscrow, Seen!Opened

(* A top-up is one. *)
LEMMA SeenTopUp ==
  ASSUME NEW plan, IInv, NEW c \in Callers, NEW e \in PDA, NEW amount \in TopUps,
         TopUpBuffer(c, e, amount)
  PROVE  Seen(plan)!topUpBuffer(e)
<1>1. /\ Pending(e) /\ UNCHANGED <<slot, receipt>>
      /\ Buffer(e) + amount <= MaxBuffer
      /\ escrow'[e] = topped_up(escrow[e], amount)
      /\ \A f \in PDA \ {e} : escrow'[f] = escrow[f]
  BY DEF TopUpBuffer, IInv, TypeOK
<1>2. escrow[e] \in EscrowState /\ amount \in Nat
  BY <1>1, TypesOfState, AmountsAssumption DEF IInv
<1>3. /\ escrow'[e] \in EscrowState
      /\ escrow'[e].gas_buffer_lamports = Buffer(e) + amount
      /\ escrow'[e].creation_slot = escrow[e].creation_slot
  BY <1>1, <1>2 DEF topped_up, EscrowState, Buffer
<1>4. Pending(e)'
  BY <1>3, NoEscrowAssumption DEF Pending
<1>5. /\ SeenAccount(e) = [status |-> "pending", buffer |-> Buffer(e),
                           creation |-> escrow[e].creation_slot]
      /\ SeenAccount(e)' = [status |-> "pending", buffer |-> Buffer(e) + amount,
                            creation |-> escrow[e].creation_slot]
      /\ SeenFate(e)' = SeenFate(e)
  BY <1>1, <1>3, <1>4 DEF SeenAccount, SeenFate, Buffer
<1>6. \A f \in PDA \ {e} : SeenAccount(f)' = SeenAccount(f) /\ SeenFate(f)' = SeenFate(f)
  BY <1>1 DEF SeenAccount, SeenFate, Pending, Buffer
<1>7. Seen(plan)!Pending(e)
  BY <1>1, SeenOfEscrow
<1>8. SeenAccount(e)' = [SeenAccount(e) EXCEPT !.buffer = @ + amount]
  BY <1>5
<1>9. [f \in PDA |-> SeenAccount(f)]' =
        [[f \in PDA |-> SeenAccount(f)] EXCEPT ![e] = [SeenAccount(e) EXCEPT !.buffer = @ + amount]]
  BY <1>6, <1>8
<1>10. [f \in PDA |-> SeenFate(f)]' = [f \in PDA |-> SeenFate(f)]
  BY <1>5, <1>6
<1>11. SeenAccount(e).buffer + amount <= MaxBuffer
  BY <1>1, <1>5
<1> QED
  BY <1>1, <1>7, <1>9, <1>10, <1>11 DEF Seen!topUpBuffer

(* However an escrow ends, the chain lets it end so, in the same window.      *)
LEMMA SeenClosing ==
  ASSUME NEW plan \in Plans, IInv, NEW e \in PDA, Swap(e) \/ SelfRescue(e) \/ Cleanup(e)
  PROVE  Seen(plan)!selfRescue(e) \/ Seen(plan)!cleanupExpiredEscrow(e) \/ Seen(plan)!RivalSwap(e)
<1>1. CASE Swap(e)
  <2>1. PICK c \in Callers, tip \in TipChoices(e), swap \in SwapOutcomes :
          ExecuteSwap(c, e, tip, swap)
    BY <1>1 DEF Swap
  <2> DEFINE how == IF IsRescue(Elapsed(e)) THEN "rescue" ELSE "ordinary"
  <2>2. Pending(e) /\ UNCHANGED slot /\ \E paid : Settle(e, how, paid, tip)
    BY <2>1 DEF ExecuteSwap, SwapAllowed
  <2>3. how \in Outcome \ {"none"} /\ Closer[how] = "rival"
    BY DEF Outcome, Closer
  <2> HIDE DEF how
  <2>4. Seen(plan)!Close(e, how, "rival", 0)
    BY <2>2, <2>3, SeenClose
  <2>5. /\ Seen(plan)!Pending(e)
        /\ how = IF Seen(plan)!IsRescue(Seen(plan)!Elapsed(e)) THEN "rescue" ELSE "ordinary"
    BY <2>2, SeenOfEscrow DEF how
  <2>6. Seen(plan)!RivalSwap(e)
    BY <2>2, <2>4, <2>5 DEF Seen!RivalSwap
  <2> QED
    BY <2>6
<1>2. CASE SelfRescue(e)
  <2>1. /\ Pending(e) /\ Elapsed(e) > SELF_RESCUE_SLOTS /\ UNCHANGED slot
        /\ Settle(e, "self_rescue", PayoutWithBounty(e, 0), NoTip)
    BY <1>2 DEF SelfRescue, SelfRescueAllowed
  <2>2. "self_rescue" \in Outcome \ {"none"} /\ Closer["self_rescue"] = "user"
    BY DEF Outcome, Closer
  <2>3. Seen(plan)!Close(e, "self_rescue", "user", 0)
    BY <2>1, <2>2, SeenClose
  <2> QED
    BY <2>1, <2>3, SeenOfEscrow DEF Seen!selfRescue
<1>3. CASE Cleanup(e)
  <2>1. PICK c \in Callers : PayBountyAndClose(c, e)
    BY <1>3 DEF Cleanup, CleanupExpiredEscrow
  <2>2. /\ Pending(e) /\ Elapsed(e) > CLEANUP_SLOTS /\ UNCHANGED slot
        /\ Settle(e, "cleanup", PayoutWithBounty(e, CleanupBounty(Buffer(e))), NoTip)
    BY <2>1 DEF PayBountyAndClose, CleanupAllowed, CleanupWindowElapsed
  <2>3. "cleanup" \in Outcome \ {"none"} /\ Closer["cleanup"] = "rival"
    BY DEF Outcome, Closer
  <2>4. Seen(plan)!Close(e, "cleanup", "rival", 0)
    BY <2>2, <2>3, SeenClose
  <2> QED
    BY <2>2, <2>4, SeenOfEscrow DEF Seen!cleanupExpiredEscrow
<1> QED
  BY <1>1, <1>2, <1>3

(* Every step of the program. *)
LEMMA SeenStepOrNothing ==
  ASSUME NEW plan \in Plans, IInv, OpensAsPlanned(plan), [Next]_vars
  PROVE  UNCHANGED Seen(plan)!clientVars \/ SeenStep(plan)
<1>1. ASSUME NEW e \in PDA, NEW p \in Partners, NEW a \in Inputs,
             NEW b \in Destinations, NEW amount \in InputAmounts,
             NEW output \in OutputAmounts, NEW buffer \in Buffers,
             NEW minimum \in DynamicMinimums,
             InitializeEscrow(e, p, a, b, amount, output, buffer, minimum)
      PROVE  SeenStep(plan)
  BY <1>1, SeenInitialize DEF SeenStep
<1>2. ASSUME NEW e \in PDA, Swap(e) \/ SelfRescue(e) \/ Cleanup(e)
      PROVE  SeenStep(plan)
  BY <1>2, SeenClosing DEF SeenStep, Seen!ChainStep
<1>3. ASSUME NEW c \in Callers, NEW e \in PDA, NEW amount \in TopUps, TopUpBuffer(c, e, amount)
      PROVE  SeenStep(plan)
  BY <1>3, SeenTopUp DEF SeenStep, Seen!ChainStep
<1>4. ASSUME NextSlot
      PROVE  SeenStep(plan)
  BY <1>4, SeenNextSlot DEF SeenStep, Seen!ChainStep
<1>5. ASSUME \/ \E c \in Callers, e \in PDA, amount \in Donations : Donate(c, e, amount)
             \/ \E a \in TokenAccounts :
                  RevokeDelegation(a) \/ MoveTokens(a) \/ CloseTokenAccount(a) \/ ReopenTokenAccount(a)
             \/ UNCHANGED vars
      PROVE  UNCHANGED Seen(plan)!clientVars
  <2>1. UNCHANGED <<slot, escrow, receipt>>
    BY <1>5 DEF Donate, RevokeDelegation, MoveTokens, CloseTokenAccount, ReopenTokenAccount, vars
  <2> QED
    BY <2>1, SeenUnchanged
<1> QED
  BY <1>1, <1>2, <1>3, <1>4, <1>5 DEF Next

(* The chain under InertiaClient, Keeper and DemoDrivers leaves out no step   *)
(* the program can take: what they are shown to withstand of the rest of the  *)
(* world is all of it.  (client.ts 79-94 and 281-314 against execute_swap.rs, *)
(* self_rescue.rs, cleanup_expired_escrow.rs and top_up_buffer.rs)            *)
THEOREM ProgramIsTheClientsChain == Spec => ClientsSeeEveryStep
<1>1. IInv /\ [Next]_vars
        => [\A plan \in Plans : OpensAsPlanned(plan)
               => (UNCHANGED Seen(plan)!clientVars \/ SeenStep(plan))]_vars
  BY SeenStepOrNothing
<1> QED
  BY <1>1, EscrowInvariant, PTL DEF Spec, ClientsSeeEveryStep

(* Both start with nothing opened. *)
LEMMA SeenInit ==
  ASSUME NEW plan \in Plans, Init
  PROVE  Seen(plan)!ClientInit
<1>1. /\ slot = 0
      /\ \A e \in PDA : SeenAccount(e) = [status |-> "fresh", buffer |-> 0, creation |-> 0]
      /\ \A e \in PDA : SeenFate(e) = [how |-> "none", by |-> "nobody", earned |-> 0]
  BY DEF Init, SeenAccount, SeenFate, Pending, NoReceipt, Closer
<1>2. plan \in [PDA -> UNION {{plan[e]} : e \in PDA}]
  BY DEF Plans
<1>3. [c \in {} |-> {}] = [c \in {} |-> Seen(plan)!NoCall]
  OBVIOUS
<1> QED
  BY <1>1, <1>2, <1>3 DEF Seen!ClientInit, Seen!NoFate

(* As an implementation: while every address is opened as planned, the        *)
(* program's behaviours, seen through the map, are behaviours of the chain.   *)
(* (pda.ts and client.ts 79-94: an escrow's address is used once)             *)
THEOREM PlannedProgramImplementsChain ==
  ASSUME NEW plan \in Plans
  PROVE  Spec /\ [][OpensAsPlanned(plan)]_vars
           => Seen(plan)!ClientInit /\ [][SeenStep(plan)]_(Seen(plan)!clientVars)
<1>1. IInv /\ [Next]_vars /\ [OpensAsPlanned(plan)]_vars
        => [SeenStep(plan)]_(Seen(plan)!clientVars)
  <2> SUFFICES ASSUME IInv, [Next]_vars, [OpensAsPlanned(plan)]_vars
               PROVE  UNCHANGED Seen(plan)!clientVars \/ SeenStep(plan)
    OBVIOUS
  <2>1. CASE UNCHANGED vars
    <3>1. UNCHANGED <<slot, escrow, receipt>>
      BY <2>1 DEF vars
    <3> QED
      BY <3>1, SeenUnchanged
  <2>2. CASE OpensAsPlanned(plan)
    BY <2>2, SeenStepOrNothing
  <2> QED
    BY <2>1, <2>2
<1> QED
  BY <1>1, SeenInit, EscrowInvariant, PTL DEF Spec

(* The tip transfer the SDK puts in front of its swap: to a Jito account. *)
TipTransfer(c, amount) == [from |-> c, to |-> JITO_TIP, named |-> TRUE, amount |-> amount]

(* To the client's chain a tip is enough exactly when the program's check   *)
(* of the SDK's tip transfer passes; before the TTL any tip is.             *)
LEMMA SeenTip ==
  ASSUME NEW plan, IInv, NEW e \in PDA, Pending(e), NEW c, NEW tip \in Nat
  PROVE  Seen(plan)!TipEnough([escrow |-> e, tip |-> tip])
           <=> (IsRescue(Elapsed(e))
                  => jito_tip_at_least(TipTransfer(c, tip), RequiredTip(Buffer(e), Elapsed(e))))
<1>1. \A x, y : Seen(plan)!RequiredTip(x, y) = RequiredTip(x, y)
  BY DEF Seen!RequiredTip, RequiredTip, Seen!IsRescue, IsRescue,
         Seen!anti_snipe_required_tip, anti_snipe_required_tip,
         Seen!saturating_sub, saturating_sub, Seen!saturating_mul, saturating_mul,
         Seen!KeeperShare, KeeperShare, Seen!split_share, split_share
<1>2. Seen(plan)!Elapsed(e) = Elapsed(e) /\ SeenAccount(e).buffer = Buffer(e)
  BY SeenOfEscrow DEF SeenAccount
<1>3. Seen(plan)!TipEnough([escrow |-> e, tip |-> tip])
        <=> tip >= Seen(plan)!RequiredTip(SeenAccount(e).buffer, Seen(plan)!Elapsed(e))
  BY DEF Seen!TipEnough
<1>4. ~IsRescue(Elapsed(e)) => RequiredTip(Buffer(e), Elapsed(e)) = 0
  BY DEF RequiredTip
<1> QED
  BY <1>1, <1>2, <1>3, <1>4 DEF jito_tip_at_least, TipTransfer

(* A swap that the program executes, with the tip transfer and over the     *)
(* account list that the SDK builds, is a transaction that may land on the  *)
(* client's chain; and its sender gains what the client and the bot reckon  *)
(* with: the keeper's share less the tip on a rescue, the tip's loss before *)
(* the TTL; one who is nobody else to the escrow, that is.  (client.ts      *)
(* 150-229 and index.ts against execute_swap.rs)                            *)
SwapsLandAndEarnAsReckoned ==
  [][\A plan \in Plans, e \in PDA, c \in Callers, tip \in Nat, swap \in SwapOutcomes :
       ExecuteSwap(c, e, TipTransfer(c, tip), swap) =>
         /\ Seen(plan)!SwapAccepted(plan[e].route, plan[e].inputMint) =>
              Seen(plan)!Lands([escrow |-> e, tip |-> tip])
         /\ c \notin {UserWallet(e), escrow[e].partner_wallet, TREASURY, JITO_TIP} =>
              lamports'[c] - lamports[c] =
                IF Seen(plan)!IsRescue(Seen(plan)!Elapsed(e))
                THEN Seen(plan)!KeeperShare(SeenAccount(e).buffer) - tip
                ELSE 0 - tip]_vars

(* Its tip and its escrow pass the checks of the chain. *)
LEMMA SwapLands ==
  ASSUME IInv, NEW plan \in Plans, NEW e \in PDA, NEW c \in Callers, NEW tip \in Nat,
         NEW swap \in SwapOutcomes, ExecuteSwap(c, e, TipTransfer(c, tip), swap),
         Seen(plan)!SwapAccepted(plan[e].route, plan[e].inputMint)
  PROVE  Seen(plan)!Lands([escrow |-> e, tip |-> tip])
<1>1. /\ Pending(e)
      /\ IsRescue(Elapsed(e))
           => jito_tip_at_least(TipTransfer(c, tip), RequiredTip(Buffer(e), Elapsed(e)))
  BY DEF ExecuteSwap, SwapAllowed
<1>2. Seen(plan)!Pending(e)
  BY <1>1, SeenOfEscrow
<1>3. Seen(plan)!TipEnough([escrow |-> e, tip |-> tip])
  BY <1>1, SeenTip
<1> QED
  BY <1>2, <1>3 DEF Seen!Lands

(* Its sender earns what the chain says. *)
LEMMA SwapEarns ==
  ASSUME IInv, NEW plan, NEW e \in PDA, NEW c \in Callers, NEW tip \in Nat,
         NEW swap \in SwapOutcomes, ExecuteSwap(c, e, TipTransfer(c, tip), swap),
         c \notin {UserWallet(e), escrow[e].partner_wallet, TREASURY, JITO_TIP}
  PROVE  lamports'[c] - lamports[c] =
           IF Seen(plan)!IsRescue(Seen(plan)!Elapsed(e))
           THEN Seen(plan)!KeeperShare(SeenAccount(e).buffer) - tip
           ELSE 0 - tip
<1> DEFINE U == UserWallet(e)
           P == escrow[e].partner_wallet
           k == KeeperShare(Buffer(e))
           paid == TipTransfer(c, tip)
<1>1. Pending(e) /\ lamports' = AfterSwap(c, e, paid)
  BY DEF ExecuteSwap, SwapAllowed
<1>2. c \in Wallets /\ lamports[c] \in Int /\ lamports[e] \in Int
  BY TypesOfState, AccountsAssumption, UserIsWallet DEF IInv, Balances, Accounts
<1>3. k \in Int
  BY <1>1, PayoutsAreNatural, SharesAreTheBuffer
<1>4. \A x \in Int : /\ Part(c, c, x) = x
                     /\ Part(c, U, x) = 0 /\ Part(c, P, x) = 0
                     /\ Part(c, TREASURY, x) = 0 /\ Part(c, JITO_TIP, x) = 0
  BY DEF Part
<1>5. /\ PartnerShare(Buffer(e)) \in Int /\ TreasuryShare(Buffer(e)) \in Int
      /\ Buffer(e) \in Int /\ tip \in Int /\ lamports[e] - Buffer(e) \in Int
  BY <1>1, <1>2, PayoutsAreNatural, SharesAreTheBuffer
<1>6. paid \in Transfer /\ paid.from = c /\ paid.to = JITO_TIP /\ paid.amount = tip
  BY <1>2, AccountsAssumption DEF TipTransfer, Transfer
<1> HIDE DEF paid
<1>7. lamports'[c] = lamports[c] - Part(c, c, tip) + Part(c, JITO_TIP, tip)
             + (IF IsRescue(Elapsed(e))
                THEN Part(c, c, k) + Part(c, P, PartnerShare(Buffer(e)))
                     + Part(c, TREASURY, TreasuryShare(Buffer(e)))
                     + Part(c, U, lamports[e] - Buffer(e))
                ELSE Part(c, U, lamports[e]))
  BY <1>1, <1>2, <1>6, AfterSwapIsExact
<1>8. lamports'[c] - lamports[c] = IF IsRescue(Elapsed(e)) THEN k - tip ELSE 0 - tip
  <2> HIDE DEF U, P, k
  <2>1. CASE IsRescue(Elapsed(e))
    <3>1. lamports'[c] = lamports[c] - tip + 0 + (k + 0 + 0 + 0)
      BY <2>1, <1>2, <1>3, <1>4, <1>5, <1>7
    <3> QED
      BY <2>1, <3>1, <1>2, <1>3, <1>5
  <2>2. CASE ~IsRescue(Elapsed(e))
    <3>1. lamports'[c] = lamports[c] - tip + 0 + 0
      BY <2>2, <1>2, <1>4, <1>5, <1>7
    <3> QED
      BY <2>2, <3>1, <1>2, <1>5
  <2> QED
    BY <2>1, <2>2
<1>9. /\ Seen(plan)!IsRescue(Seen(plan)!Elapsed(e)) = IsRescue(Elapsed(e))
      /\ Seen(plan)!KeeperShare(SeenAccount(e).buffer) = k
  <2>1. Seen(plan)!KeeperShare(Buffer(e)) = KeeperShare(Buffer(e))
    BY DEF Seen!KeeperShare, KeeperShare, Seen!split_share, split_share
  <2>2. SeenAccount(e).buffer = Buffer(e)
    BY <1>1 DEF SeenAccount
  <2> QED
    BY <1>1, <2>1, <2>2, SeenOfEscrow
<1> QED
  BY <1>8, <1>9

(* So the earnings that the keeper's theorems count with are what the program *)
(* pays, for every caller, buffer and age.  (client.ts 150-229, bot.ts 74-91) *)
THEOREM ProgramPaysAsClientsReckon == Spec => SwapsLandAndEarnAsReckoned
<1>1. ASSUME IInv
      PROVE  \A plan \in Plans, e \in PDA, c \in Callers, tip \in Nat, swap \in SwapOutcomes :
               ExecuteSwap(c, e, TipTransfer(c, tip), swap) =>
                 /\ Seen(plan)!SwapAccepted(plan[e].route, plan[e].inputMint) =>
                      Seen(plan)!Lands([escrow |-> e, tip |-> tip])
                 /\ c \notin {UserWallet(e), escrow[e].partner_wallet, TREASURY, JITO_TIP} =>
                      lamports'[c] - lamports[c] =
                        IF Seen(plan)!IsRescue(Seen(plan)!Elapsed(e))
                        THEN Seen(plan)!KeeperShare(SeenAccount(e).buffer) - tip
                        ELSE 0 - tip
  BY <1>1, SwapLands, SwapEarns
<1> QED
  BY <1>1, EscrowInvariant, PTL DEF Spec, SwapsLandAndEarnAsReckoned

=============================================================================
