---------------------------- MODULE InertiaEscrow ----------------------------
(***************************************************************************)
(* The on-chain program: escrow PDAs, the lamports they hold, the SPL      *)
(* delegations they swap with, and the five instructions.  A transaction   *)
(* is one atomic step; an instruction that fails changes nothing, so a     *)
(* failed check is a guard.  Wallet balances, the slot clock and the SPL   *)
(* token accounts belong to the Solana runtime and are modelled from how   *)
(* the program uses them.  As in TipCurve, an operator marked "mistake" is *)
(* a wrong variant of the definition after it.                             *)
(***************************************************************************)
EXTENDS TipCurve, Functions, FiniteSets

CONSTANTS
  SELF_RESCUE_SLOTS,      \* 150
  CLEANUP_SLOTS,          \* 300
  Users,                  \* wallets that create escrows
  Callers,                \* wallets that send permissionless instructions
  Partners,               \* partner wallets
  Wallets,                \* every wallet, with the four named below
  TREASURY,               \* TREASURY_PUBKEY
  JITO_TIP,               \* JITO_TIP_ACCOUNTS, taken as one account
  Nonces,                 \* client-chosen nonces
  TokenAccounts,          \* SPL token accounts of users
  TokenOwner,             \* the user that owns each of them
  InitialTokens,          \* what is in each of them at the start
  NoEscrow, NoDelegate,   \* an absent escrow account, an absent delegate
  InitialLamports,        \* wallet balances at the start
  ESCROW_RENT,            \* rent-exempt reserve of an escrow account
  WALLET_RENT_MINIMUM,    \* rent-exempt minimum of a wallet
  Inputs, Destinations,   \* the token accounts escrows are opened with
  Buffers, DynamicMinimums, InputAmounts, OutputAmounts, TopUps, Donations,
                          \* the other inputs that are tried
  Tips, TipPayers, TipTargets,
                          \* the transfers tried as a tip: how much, from and to whom
  TokenAmounts,           \* what an owner leaves in a token account
  SwapOutcomes,           \* what the pinned swap program may do: in and out
  MaxSlot,                \* bound on the slot clock
  MaxBuffer,              \* bound: top-ups take no buffer above this
  MaxTokens,              \* bound: no escrow is opened for a fuller destination
  MaxSurplus              \* bound: stray transfers to one escrow

ASSUME WindowsAssumption ==
  /\ SELF_RESCUE_SLOTS \in Nat
  /\ CLEANUP_SLOTS \in Nat
  /\ TTL_SLOTS <= SELF_RESCUE_SLOTS
  /\ SELF_RESCUE_SLOTS <= CLEANUP_SLOTS
  /\ MaxSlot \in Nat
  /\ MaxBuffer \in Nat
  /\ MaxSurplus \in Nat
  /\ MaxTokens \in Nat

PDA == Users \X Nonces

ASSUME AccountsAssumption ==
  /\ Users \subseteq Wallets
  /\ Callers \subseteq Wallets
  /\ Partners \subseteq Wallets
  /\ TREASURY \in Wallets
  /\ JITO_TIP \in Wallets
  /\ TipPayers \subseteq Wallets
  /\ TipTargets \subseteq Wallets
  /\ PDA \cap Wallets = {}
  /\ TokenOwner \in [TokenAccounts -> Users]
  /\ Inputs \subseteq TokenAccounts
  /\ Destinations \subseteq TokenAccounts
  /\ NoDelegate \notin PDA

(* There are only so many addresses. *)
ASSUME FiniteAssumption == IsFiniteSet(Wallets) /\ IsFiniteSet(PDA)

(* Somebody can send a permissionless instruction. *)
ASSUME CallersAssumption == Callers # {}

ASSUME AmountsAssumption ==
  /\ InitialLamports \in [Wallets -> Nat]
  /\ ESCROW_RENT \in Nat \ {0}
  /\ WALLET_RENT_MINIMUM \in Nat
  /\ Buffers \subseteq Nat
  /\ DynamicMinimums \subseteq Nat
  /\ InputAmounts \subseteq Nat
  /\ OutputAmounts \subseteq Nat
  /\ TopUps \subseteq Nat
  /\ Donations \subseteq Nat
  /\ Tips \subseteq Nat
  /\ InitialTokens \in Nat
  /\ TokenAmounts \subseteq Nat
  /\ SwapOutcomes \subseteq [spent : [TokenAccounts -> Nat], delivered : Nat]

(* No wallet is left between zero and its rent-exempt minimum, and an account *)
(* with data costs no less than an empty one.                                 *)
ASSUME RentAssumption ==
  /\ \A w \in Wallets : InitialLamports[w] = 0 \/ InitialLamports[w] >= WALLET_RENT_MINIMUM
  /\ WALLET_RENT_MINIMUM <= ESCROW_RENT

(* Fifteen times all the lamports there are is less than 2^64, so the tip   *)
(* curve's saturating_mul never saturates on a buffer somebody can pay.     *)
ASSUME SupplyAssumption ==
  /\ Buffers \subseteq 0 .. MaxBuffer
  /\ MaxBuffer * TIP_DECAY_SLOTS <= MAX_U64

VARIABLES
  slot,      \* Clock::get()?.slot
  escrow,    \* the account data at each PDA, NoEscrow when it is closed
  lamports,  \* the balance of every wallet and every PDA
  token,     \* the SPL token accounts
  receipt    \* history: how each PDA was last resolved, and who got what

vars == <<slot, escrow, lamports, token, receipt>>

-----------------------------------------------------------------------------
EscrowState ==
  [partner_wallet : Partners,
   user_input_token_account : TokenAccounts,
   input_amount : Nat,
   expected_destination_token_account : TokenAccounts,
   expected_output_amount : Nat,
   gas_buffer_lamports : Nat,
   creation_slot : Nat]

ASSUME NoEscrowAssumption == NoEscrow \notin EscrowState

TokenAccount ==
  [open : BOOLEAN, amount : Nat, delegate : PDA \cup {NoDelegate}, allowance : Nat]

EmptyAccount(open) == [open |-> open, amount |-> 0, delegate |-> NoDelegate, allowance |-> 0]

(* The System transfer a transaction brings along, and whether a Jito tip   *)
(* account is named among that instruction's accounts: as the recipient, or *)
(* as a further one that the transfer does not look at.                     *)
Transfer == [from : Wallets, to : Wallets, amount : Nat, named : BOOLEAN]

NoTip == [from |-> JITO_TIP, to |-> JITO_TIP, amount |-> 0, named |-> FALSE]

(* How an escrow ended: an ordinary swap, a rescue, self_rescue or cleanup; *)
(* what was in it, under which terms, and who was paid.                     *)
Outcome == {"none", "ordinary", "rescue", "self_rescue", "cleanup"}

Payout == [user : Nat, caller : Nat, partner : Nat, treasury : Nat]

Receipt ==
  [outcome : Outcome, elapsed : Nat, vault : Nat, terms : EscrowState \cup {NoEscrow},
   paid : Payout, tip : Transfer]

NoReceipt ==
  [outcome |-> "none", elapsed |-> 0, vault |-> 0, terms |-> NoEscrow,
   paid |-> [user |-> 0, caller |-> 0, partner |-> 0, treasury |-> 0],
   tip |-> NoTip]

UserWallet(e) == e[1]

(* Every handler demands a Pending escrow.  A resolved one is closed in the *)
(* same instruction, so an account that still exists is Pending.            *)
Pending(e) == escrow[e] # NoEscrow

SinceGenesis(e) == slot                \* mistake: the creation slot is forgotten

Elapsed(e) == saturating_sub(slot, escrow[e].creation_slot)

Buffer(e) == escrow[e].gas_buffer_lamports

Input(e) == escrow[e].user_input_token_account

Destination(e) == escrow[e].expected_destination_token_account

(* The escrow can still spend the user's input tokens. *)
Delegated(e) ==
  /\ token[Input(e)].open
  /\ token[Input(e)].delegate = e

-----------------------------------------------------------------------------
(* Direct debit and credit; also what a system transfer does. *)
CreditOnly(balances, from, to, amount) ==            \* mistake: no debit
  [balances EXCEPT ![to] = @ + amount]

move_lamports(balances, from, to, amount) ==
  LET debited == [balances EXCEPT ![from] = @ - amount]
  IN [debited EXCEPT ![to] = @ + amount]

(* Closing an account sweeps all it holds to the user. *)
ReserveOnly(balances, e) ==                          \* mistake: not all it holds
  move_lamports(balances, e, UserWallet(e), ESCROW_RENT)

close(balances, e) == move_lamports(balances, e, UserWallet(e), balances[e])

(* The runtime refuses a transaction that leaves a wallet above zero but   *)
(* below its rent-exempt minimum.                                          *)
RentStateOk(balances) ==
  \A w \in Wallets : balances[w] = 0 \/ balances[w] >= WALLET_RENT_MINIMUM

(* The tip transfer of the transaction, then the rescue split or the refund. *)
TipPaid(tip) == move_lamports(lamports, tip.from, tip.to, tip.amount)

PartnerPaidTwice(balances, caller, e) ==             \* mistake: treasury forgotten
  LET toKeeper  == move_lamports(balances, e, caller, KeeperShare(Buffer(e)))
  IN move_lamports(toKeeper, e, escrow[e].partner_wallet,
                   PartnerShare(Buffer(e)) + TreasuryShare(Buffer(e)))

RescueSplit(balances, caller, e) ==
  LET toKeeper  == move_lamports(balances, e, caller, KeeperShare(Buffer(e)))
      toPartner == move_lamports(toKeeper, e, escrow[e].partner_wallet, PartnerShare(Buffer(e)))
  IN move_lamports(toPartner, e, TREASURY, TreasuryShare(Buffer(e)))

OrdinaryRefund(balances, e) == move_lamports(balances, e, UserWallet(e), Buffer(e))

(* A System transfer of at least the required amount, to whomever, that     *)
(* names a Jito tip account.                                                *)
MoreThan(tip, required_amount) ==                    \* mistake: exact tip refused
  tip.named /\ tip.amount > required_amount

jito_tip_at_least(tip, required_amount) == tip.named /\ tip.amount >= required_amount

(* Approve replaces whatever delegation the token account carried. *)
ApproveOnTop(account, e, amount) ==                  \* mistake: allowances add up
  [account EXCEPT !.delegate = e, !.allowance = @ + amount]

approve(account, e, amount) == [account EXCEPT !.delegate = e, !.allowance = amount]

revoke(account) == [account EXCEPT !.delegate = NoDelegate, !.allowance = 0]

(* A delegate's transfer out lowers the allowance and drops the delegate    *)
(* with its last token.                                                     *)
drawn(account, amount) ==
  IF amount = 0 THEN account
  ELSE [account EXCEPT !.amount = @ - amount, !.allowance = @ - amount,
                       !.delegate = IF account.allowance = amount THEN NoDelegate ELSE @]

(* The call the escrow signs for hands over whatever accounts the caller    *)
(* lists: the swap program can draw on every account delegated to this PDA. *)
CpiSucceeds(e, swap) ==
  \A a \in TokenAccounts : swap.spent[a] > 0 =>
    /\ token[a].open
    /\ token[a].delegate = e
    /\ swap.spent[a] <= token[a].allowance
    /\ swap.spent[a] <= token[a].amount

AfterCpi(e, swap) ==
  LET spent == [a \in TokenAccounts |-> drawn(token[a], swap.spent[a])]
  IN [spent EXCEPT ![Destination(e)].amount = @ + swap.delivered]

received(e, swap) ==
  saturating_sub(AfterCpi(e, swap)[Destination(e)].amount, token[Destination(e)].amount)

(* The token account's owner can revoke whether or not there is a delegate. *)
OnlyWhileDelegated(e) == Delegated(e)                \* mistake: nothing to revoke fails

CanRevoke(e) == token[Input(e)].open

(* cleanup_expired_escrow names no token account at all. *)
WithTokenAccount(e) ==                               \* mistake: it does name one
  Elapsed(e) > CLEANUP_SLOTS /\ token[Input(e)].open

CleanupWindowElapsed(e) == Elapsed(e) > CLEANUP_SLOTS

(* checked_add of a top-up to the recorded buffer. *)
Overwritten(account, amount) ==                      \* mistake: not added
  [account EXCEPT !.gas_buffer_lamports = amount]

topped_up(account, amount) == [account EXCEPT !.gas_buffer_lamports = @ + amount]

(* Who gets what of everything the account holds: the user is swept the   *)
(* rest when it closes.                                                    *)
RescuePayout(e) ==
  [user |-> lamports[e] - Buffer(e), caller |-> KeeperShare(Buffer(e)),
   partner |-> PartnerShare(Buffer(e)), treasury |-> TreasuryShare(Buffer(e))]

PayoutWithBounty(e, bounty) ==
  [user |-> lamports[e] - bounty, caller |-> bounty, partner |-> 0, treasury |-> 0]

Settle(e, outcome, paid, tip) ==
  /\ escrow' = [escrow EXCEPT ![e] = NoEscrow]
  /\ receipt' = [receipt EXCEPT ![e] =
       [outcome |-> outcome, elapsed |-> Elapsed(e), vault |-> lamports[e],
        terms |-> escrow[e], paid |-> paid, tip |-> tip]]

-----------------------------------------------------------------------------
Init ==
  /\ slot = 0
  /\ escrow = [e \in PDA |-> NoEscrow]
  /\ lamports = [x \in Wallets \cup PDA |->
                   IF x \in Wallets THEN InitialLamports[x] ELSE 0]
  /\ token = [a \in TokenAccounts |->
                [EmptyAccount(TRUE) EXCEPT !.amount = InitialTokens]]
  /\ receipt = [e \in PDA |-> NoReceipt]

(* initialize_escrow: the user pays the rent and the buffer and approves    *)
(* the PDA for input_amount, which replaces any earlier approval.  Bound:   *)
(* an escrow is created only while its cleanup slot is below MaxSlot, and   *)
(* its destination not above MaxTokens.                                     *)
InitializeEscrow(e, partner, input, destination, input_amount, output, buffer, minimum) ==
  /\ ~Pending(e)
  /\ slot + CLEANUP_SLOTS < MaxSlot
  /\ TokenOwner[input] = UserWallet(e) /\ token[input].open
  /\ TokenOwner[destination] = UserWallet(e) /\ token[destination].open
  /\ token[destination].amount <= MaxTokens
  /\ buffer >= minimum
  /\ lamports[UserWallet(e)] >= ESCROW_RENT + buffer
  /\ lamports' = move_lamports(lamports, UserWallet(e), e, ESCROW_RENT + buffer)
  /\ RentStateOk(lamports')
  /\ token' = [token EXCEPT ![input] = approve(@, e, input_amount)]
  /\ escrow' = [escrow EXCEPT ![e] =
       [partner_wallet |-> partner,
        user_input_token_account |-> input,
        input_amount |-> input_amount,
        expected_destination_token_account |-> destination,
        expected_output_amount |-> output,
        gas_buffer_lamports |-> buffer,
        creation_slot |-> slot]]
  /\ UNCHANGED <<slot, receipt>>

(* execute_swap, before or after the TTL, in a transaction whose tip        *)
(* transfer comes first.                                                    *)
AfterSwap(caller, e, tip) ==
  close(IF IsRescue(Elapsed(e)) THEN RescueSplit(TipPaid(tip), caller, e)
                                ELSE OrdinaryRefund(TipPaid(tip), e), e)

SwapAllowed(caller, e, tip, swap) ==
  /\ Pending(e)
  /\ token[Input(e)].open /\ token[Destination(e)].open
  /\ lamports[tip.from] >= tip.amount
  /\ IsRescue(Elapsed(e)) => jito_tip_at_least(tip, RequiredTip(Buffer(e), Elapsed(e)))
  /\ CpiSucceeds(e, swap)
  /\ received(e, swap) >= escrow[e].expected_output_amount
  /\ lamports[e] >= Buffer(e)
  /\ RentStateOk(AfterSwap(caller, e, tip))

ExecuteSwap(caller, e, tip, swap) ==
  /\ SwapAllowed(caller, e, tip, swap)
  /\ lamports' = AfterSwap(caller, e, tip)
  /\ token' = AfterCpi(e, swap)
  /\ IF IsRescue(Elapsed(e)) THEN Settle(e, "rescue", RescuePayout(e), tip)
                             ELSE Settle(e, "ordinary", PayoutWithBounty(e, 0), tip)
  /\ UNCHANGED slot

(* self_rescue: only the user signs.  Revoke clears whatever delegation the *)
(* input token account carries.                                             *)
SelfRescueAllowed(e) ==
  /\ Pending(e)
  /\ Elapsed(e) > SELF_RESCUE_SLOTS
  /\ CanRevoke(e)
  /\ RentStateOk(close(lamports, e))

SelfRescue(e) ==
  /\ SelfRescueAllowed(e)
  /\ token' = [token EXCEPT ![Input(e)] = revoke(@)]
  /\ lamports' = close(lamports, e)
  /\ Settle(e, "self_rescue", PayoutWithBounty(e, 0), NoTip)
  /\ UNCHANGED slot

(* cleanup_expired_escrow: anyone, for a bounty.  The delegation stays.     *)
AfterCleanup(caller, e) ==
  close(move_lamports(lamports, e, caller, CleanupBounty(Buffer(e))), e)

CleanupAllowed(caller, e) ==
  /\ Pending(e)
  /\ CleanupWindowElapsed(e)
  /\ lamports[e] >= CleanupBounty(Buffer(e))
  /\ RentStateOk(AfterCleanup(caller, e))

PayBountyAndClose(caller, e) ==
  /\ CleanupAllowed(caller, e)
  /\ lamports' = AfterCleanup(caller, e)
  /\ Settle(e, "cleanup", PayoutWithBounty(e, CleanupBounty(Buffer(e))), NoTip)
  /\ UNCHANGED slot

AlsoRevokes(caller, e) ==                            \* mistake: somebody else's delegation
  /\ PayBountyAndClose(caller, e)
  /\ token' = [token EXCEPT ![Input(e)] = revoke(@)]

CleanupExpiredEscrow(caller, e) ==
  /\ PayBountyAndClose(caller, e)
  /\ UNCHANGED token

(* top_up_buffer: anyone, at any age. *)
TopUpBuffer(contributor, e, amount) ==
  /\ Pending(e)
  /\ lamports[contributor] >= amount
  /\ Buffer(e) + amount <= MAX_U64
  /\ Buffer(e) + amount <= MaxBuffer
  /\ lamports' = move_lamports(lamports, contributor, e, amount)
  /\ RentStateOk(lamports')
  /\ escrow' = [escrow EXCEPT ![e] = topped_up(@, amount)]
  /\ UNCHANGED <<slot, token, receipt>>

-----------------------------------------------------------------------------
(* The environment: plain transfers to a PDA, and what a user may do to     *)
(* their own token accounts with plain SPL instructions.                    *)
Donate(sender, e, amount) ==
  /\ Pending(e)
  /\ lamports[sender] >= amount
  /\ lamports[e] + amount <= ESCROW_RENT + Buffer(e) + MaxSurplus
  /\ lamports' = move_lamports(lamports, sender, e, amount)
  /\ RentStateOk(lamports')
  /\ UNCHANGED <<slot, escrow, token, receipt>>

RevokeDelegation(a) ==
  /\ token[a].open
  /\ token' = [token EXCEPT ![a] = revoke(@)]
  /\ UNCHANGED <<slot, escrow, lamports, receipt>>

(* What goes in and out of an account but through an escrow. *)
MoveTokens(a) ==
  /\ token[a].open
  /\ \E amount \in TokenAmounts : token' = [token EXCEPT ![a].amount = amount]
  /\ UNCHANGED <<slot, escrow, lamports, receipt>>

(* Emptied first, if need be. *)
CloseTokenAccount(a) ==
  /\ token[a].open
  /\ token' = [token EXCEPT ![a] = EmptyAccount(FALSE)]
  /\ UNCHANGED <<slot, escrow, lamports, receipt>>

ReopenTokenAccount(a) ==
  /\ ~token[a].open
  /\ token' = [token EXCEPT ![a] = EmptyAccount(TRUE)]
  /\ UNCHANGED <<slot, escrow, lamports, receipt>>

NextSlot ==
  /\ slot < MaxSlot
  /\ slot' = slot + 1
  /\ UNCHANGED <<escrow, lamports, token, receipt>>

-----------------------------------------------------------------------------
(* A transaction brings one of Tips or exactly what the program asks for. *)
TipChoices(e) ==
  {tip \in [from : TipPayers, to : TipTargets, named : BOOLEAN,
            amount : Tips \cup {RequiredTip(Buffer(e), Elapsed(e))}] :
     tip.to = JITO_TIP => tip.named}

Cleanup(e) == \E c \in Callers : CleanupExpiredEscrow(c, e)

Swap(e) ==
  /\ Pending(e)
  /\ \E c \in Callers, tip \in TipChoices(e), swap \in SwapOutcomes :
       ExecuteSwap(c, e, tip, swap)

Next ==
  \/ \E e \in PDA, p \in Partners, a \in Inputs, b \in Destinations,
        amount \in InputAmounts, output \in OutputAmounts,
        buffer \in Buffers, minimum \in DynamicMinimums :
       InitializeEscrow(e, p, a, b, amount, output, buffer, minimum)
  \/ \E e \in PDA : Swap(e)
  \/ \E e \in PDA : SelfRescue(e)
  \/ \E e \in PDA : Cleanup(e)
  \/ \E c \in Callers, e \in PDA, amount \in TopUps : TopUpBuffer(c, e, amount)
  \/ \E c \in Callers, e \in PDA, amount \in Donations : Donate(c, e, amount)
  \/ \E a \in TokenAccounts : RevokeDelegation(a)
  \/ \E a \in TokenAccounts : MoveTokens(a)
  \/ \E a \in TokenAccounts : CloseTokenAccount(a)
  \/ \E a \in TokenAccounts : ReopenTokenAccount(a)
  \/ NextSlot

Spec == Init /\ [][Next]_vars

(* Slots go on, and somebody keeps sending cleanup for what is left over    *)
(* (cleanup-stale.mjs; the bounty pays for it).                             *)
Fairness ==
  /\ WF_vars(NextSlot)
  /\ \A e \in PDA : WF_vars(Cleanup(e))

FairSpec == Spec /\ Fairness

-----------------------------------------------------------------------------
TypeOK ==
  /\ slot \in Nat
  /\ escrow \in [PDA -> EscrowState \cup {NoEscrow}]
  /\ lamports \in [Wallets \cup PDA -> Nat]
  /\ token \in [TokenAccounts -> TokenAccount]
  /\ receipt \in [PDA -> Receipt]

(* A live escrow always holds its rent and its whole recorded buffer, so   *)
(* no share, refund or bounty can ever run it dry; a closed one holds      *)
(* nothing.  (move_lamports' checked_sub never fails, util.rs 14-28)       *)
Solvent ==
  \A e \in PDA : IF Pending(e) THEN lamports[e] >= ESCROW_RENT + Buffer(e)
                               ELSE lamports[e] = 0

(* No instruction makes or loses a lamport: what wallets and escrows hold  *)
(* together, the tip included, never changes.  (util.rs 14-28, every        *)
(* handler's transfers and closes)                                          *)
LamportsConserved == SumFunction(lamports) = SumFunction(InitialLamports)

(* What ECONOMIC_DESIGN.md's table promises of the payout, in relation to  *)
(* when it happened: the user loses no lamport of the buffer before the    *)
(* TTL or through self_rescue, a tenth at most after the cleanup window,   *)
(* and the rent and any surplus never.                                     *)
PaidAsPromised(r) ==
  /\ r.elapsed <= TTL_SLOTS => r.paid.user = r.vault
  /\ r.outcome = "self_rescue" => r.paid.user = r.vault /\ r.elapsed > SELF_RESCUE_SLOTS
  /\ r.outcome = "rescue" => r.paid.user = r.vault - r.terms.gas_buffer_lamports
  /\ r.outcome = "cleanup" =>
       /\ r.elapsed > CLEANUP_SLOTS
       /\ BASIS_POINTS_DIVISOR * r.paid.caller
            <= CLEANUP_BOUNTY_BPS * r.terms.gas_buffer_lamports
       /\ r.paid.user + r.paid.caller = r.vault
  /\ r.outcome # "none" => r.paid.user >= ESCROW_RENT

PayoutsAsPromised == \A e \in PDA : PaidAsPromised(receipt[e])

(* A rescue landed in the first slot of the window whose tip is the        *)
(* transfer to a Jito tip account that the SDK builds earns its caller     *)
(* nothing beyond that tip, even if the buffer was topped up.              *)
(* (anti-snipe, execute_swap.rs 105-146, client.ts 187-193)                *)
NothingAtFirstSlot(r) ==
  r.outcome = "rescue" /\ r.elapsed = TTL_SLOTS + 1 /\ r.tip.to = JITO_TIP
    => r.paid.caller <= r.tip.amount

FirstSlotRescueEarnsNothing == \A e \in PDA : NothingAtFirstSlot(receipt[e])

(* A swap through an escrow adds what its terms ask to its destination and *)
(* takes no more than they allow from its input account, also when the PDA *)
(* or the token account served an earlier escrow; at an address that had   *)
(* none before, it takes nothing from any other account.  Another account  *)
(* can lose tokens only where an earlier escrow at the same address left   *)
(* its delegation, and that is the same user's.                            *)
(* (initialize_escrow.rs 82-111, execute_swap.rs 158-228)                  *)
Swapped(e) == Pending(e) /\ ~Pending(e)' /\ receipt'[e].outcome \in {"ordinary", "rescue"}

TradeWithinTerms ==
  [][\A e \in PDA : Swapped(e) =>
       /\ escrow[e].expected_output_amount > 0 =>
            token'[Destination(e)].amount - token[Destination(e)].amount
              >= escrow[e].expected_output_amount
       /\ token[Input(e)].amount - token'[Input(e)].amount <= escrow[e].input_amount
       /\ \A a \in TokenAccounts \ {Input(e)} :
            token'[a].amount < token[a].amount =>
              TokenOwner[a] = UserWallet(e) /\ receipt[e].outcome # "none"]_vars

(* A live escrow's delegation is worth exactly its input_amount or is gone *)
(* altogether: it is never partly used and never topped up by a leftover.  *)
(* (approve replaces, initialize_escrow.rs 82-100)                         *)
AllowanceAllOrNothing ==
  \A e \in PDA :
    Pending(e) /\ Delegated(e) => token[Input(e)].allowance = escrow[e].input_amount

(* "Not fund-losing -- self_rescue still recovers the first escrow's       *)
(* buffer regardless of delegation state" (initialize_escrow.rs 87-88):    *)
(* past its window, a user with an open token account can always take it.  *)
SelfRescueAlwaysOpen ==
  \A e \in PDA :
    Pending(e) /\ Elapsed(e) > SELF_RESCUE_SLOTS /\ token[Input(e)].open
      => ENABLED SelfRescue(e)

(* No escrow is ever stuck for good: past the cleanup window the user can  *)
(* close it alone, even with the input token account gone.                 *)
(* (cleanup_expired_escrow.rs 16-58)                                       *)
UserCanAlwaysCleanUp ==
  \A e \in PDA :
    Pending(e) /\ Elapsed(e) > CLEANUP_SLOTS
      => ENABLED CleanupExpiredEscrow(UserWallet(e), e)

(* Where every payee is funded, the delegation stands, the tokens are there *)
(* and the accounts are open, a rescue stays open from the TTL until        *)
(* somebody closes the escrow: no window shuts it.                          *)
(* (execute_swap has no upper time limit, execute_swap.rs 28-146)           *)
Tradable(e, swap) ==
  /\ swap.delivered >= escrow[e].expected_output_amount
  /\ swap.spent[Input(e)] <= escrow[e].input_amount
  /\ swap.spent[Input(e)] <= token[Input(e)].amount
  /\ \A a \in TokenAccounts \ {Input(e)} : swap.spent[a] = 0

RescueStaysOpen ==
  \A e \in PDA :
    LET tip == RequiredTip(Buffer(e), Elapsed(e)) IN
    (/\ Pending(e)
     /\ IsRescue(Elapsed(e))
     /\ Delegated(e)
     /\ Destination(e) # Input(e) /\ token[Destination(e)].open
     /\ \E swap \in SwapOutcomes : Tradable(e, swap)
     /\ \A w \in {TREASURY, JITO_TIP, escrow[e].partner_wallet} :
          lamports[w] >= WALLET_RENT_MINIMUM
     /\ \E c \in Callers \cap TipPayers : lamports[c] >= tip + WALLET_RENT_MINIMUM)
      => ENABLED Swap(e)

(* Resolving one escrow by a permissionless instruction leaves every other *)
(* live escrow able to swap: only an owner's own step can strand one.      *)
(* (execute_swap and cleanup_expired_escrow do not revoke)                 *)
NoThirdPartyStranding ==
  [][\A e, f \in PDA :
       /\ e # f
       /\ Pending(e) /\ ~Pending(e)'
       /\ receipt'[e].outcome # "self_rescue"
       /\ Pending(f) /\ Delegated(f)
       => Delegated(f)']_vars

(* The lamports each wallet really gains when an escrow is resolved are    *)
(* those of its roles in the payout and in the tip transfer -- also when   *)
(* the user, the partner or the treasury is the caller.                    *)
(* (move_lamports and close, execute_swap.rs 230-275)                      *)
WalletsGetTheirShares ==
  [][\A e \in PDA :
       Pending(e) /\ ~Pending(e)' =>
         LET r == receipt'[e]
             Gain(is, amount) == IF is THEN amount ELSE 0
         IN \E c \in Callers : \A w \in Wallets :
              lamports'[w] - lamports[w] =
                Gain(w = UserWallet(e), r.paid.user)
                + Gain(w = c, r.paid.caller)
                + Gain(w = r.terms.partner_wallet, r.paid.partner)
                + Gain(w = TREASURY, r.paid.treasury)
                + Gain(w = r.tip.to, r.tip.amount)
                - Gain(w = r.tip.from, r.tip.amount)]_vars

(* A pending escrow is only ever added to: its terms and its creation slot *)
(* stay, its buffer and its lamports never fall, until it is closed.       *)
OnlyFundedUntilClosed ==
  [][\A e \in PDA :
       Pending(e) /\ Pending(e)' =>
         /\ escrow'[e] = [escrow[e] EXCEPT !.gas_buffer_lamports = Buffer(e)']
         /\ Buffer(e)' >= Buffer(e)
         /\ lamports'[e] - Buffer(e)' >= lamports[e] - Buffer(e)]_vars

(* Every escrow is resolved in the end, whatever keepers and users do.     *)
EventuallyResolved == \A e \in PDA : Pending(e) ~> ~Pending(e)

(* RISK_REGISTER.md, "only the most recent delegation survives": while the *)
(* user sends no SPL instruction and opens no further escrow, resolving an *)
(* older escrow leaves the newest one on the same account able to swap.    *)
NewestDelegationSurvives ==
  [][\A e, f \in PDA :
       /\ Pending(e) /\ ~Pending(e)'
       /\ Pending(f) /\ e # f
       /\ escrow[f].creation_slot > escrow[e].creation_slot
       /\ Delegated(f)
       => Delegated(f)']_vars

(* The program implements its promise to the user: seen through the        *)
(* lamports of the PDA accounts alone, every instruction opens, funds or   *)
(* resolves one vault, or does nothing.                                    *)
Promise == INSTANCE EscrowPromise WITH
  Escrows <- PDA,
  TTL <- TTL_SLOTS, SELF_RESCUE <- SELF_RESCUE_SLOTS, CLEANUP <- CLEANUP_SLOTS,
  BPS <- BASIS_POINTS_DIVISOR, KEEPER_BPS <- KEEPER_SHARE_BPS,
  BOUNTY_BPS <- CLEANUP_BOUNTY_BPS, RENT <- ESCROW_RENT,
  clock <- slot,
  vault <- [e \in PDA |-> lamports[e]],
  opened <- [e \in PDA |-> IF Pending(e) THEN escrow[e].creation_slot ELSE 0],
  payout <- [e \in PDA |->
    [outcome |-> receipt[e].outcome, user |-> receipt[e].paid.user,
     caller |-> receipt[e].paid.caller,
     others |-> receipt[e].paid.partner + receipt[e].paid.treasury]]

PromiseKept == Promise!Spec

=============================================================================
