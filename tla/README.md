# Inertia Protocol in TLA+

Inertia Protocol wraps a token swap in an on-chain *escrow*: the user parks a
buffer of lamports and delegates the input tokens to a program address (a PDA).
If the user's own swap does not land within a short time to live, any keeper
may execute it and is paid from the buffer. This directory models the program
and everything around it that runs: the SDK client and its swap builders, the
keeper bot, the scripts, the dashboard and the demo page. TLC checks the models
on small instances, and TLAPS proves the properties that matter most for every
instance.

## Inventory

| Part | State | Operations | Interacts with |
|---|---|---|---|
| Escrow program (`programs/inertia-protocol`) | one `EscrowState` account per PDA (user, nonce): terms, buffer, creation slot, status; the lamports of the account | `initialize_escrow`, `execute_swap`, `self_rescue`, `cleanup_expired_escrow`, `top_up_buffer` | System Program (lamports), SPL Token (approve, revoke, delegated transfer), the pinned swap program by CPI, the slot clock |
| Buffer split and anti-snipe tip (`util.rs`, `execute_swap.rs`) | none | `split_share`, `anti_snipe_required_tip` | used by `execute_swap` and `cleanup_expired_escrow` |
| SDK tip mirror (`sdk/src/antiSnipe.ts`) | none | `splitShare`, `antiSnipeRequiredTip`, `computeRescueTip` | must equal the program's arithmetic |
| SDK client (`sdk/src/client.ts`) | none of its own; reads the account and the slot over RPC, step by step | the five instructions; `executeSwap` attaches the tip; reads answer "none" on any failure | program, one RPC node |
| Swap builders (`mockDexSwap.ts`, `orcaSwap.ts`, `raydiumCpmmSwap.ts`, `meteoraDlmmSwap.ts`) | none | `buildSwap`: the account list the program relays to the DEX | the DEX's SDK, `execute_swap`'s checks |
| Keeper bot (`keeper/src/bot.ts`, `index.ts`) | a snapshot per pass | `runOnce`, `tryRescue`, `checkProfitability` | SDK client, other keepers through the chain |
| Demo drivers (`devnet-*-demo.mjs`, `devnet-orca-live.mjs`) | what they set up on chain | fund, open a pool, open an escrow, swap, read back | SDK client, DEXes, keepers |
| Retry baseline and A/B pilot (`mainnet-retry-baseline.mjs`, `mainnet-ab-pilot.mjs`) | an attempts array; the trials' results | quote, send, confirm, retry; two arms per trial | a pool, RPC, a keeper |
| Rescue benchmark and report (`devnet-rescue-benchmark.mjs`, `devnet-rescue-report.mjs`) | pending escrows, results | open, watch, report; report after a crash | RPC, keepers |
| Dashboard (`site/app/dashboard/page.tsx`) | React state derived from signatures | scan, classify, add up | RPC |
| Demo page (`site/app/demo/page.tsx`) | React state: phase, escrow, poll count | wallet, airdrop, create, poll | wallet, RPC, SDK |
| Stale cleanup (`cleanup-stale.mjs`) | none | one cleanup per stale escrow | SDK client |
| Mock DEX (`programs/mock-dex`) | none | `swap` | called by CPI |
| Site content, tests | - | layout, animation, text; the test suites | - |

What is hard about it:

* **Ordering and races.** An escrow can end in four ways whose windows overlap:
  a rescue has no upper limit, `self_rescue` opens after 150 slots, cleanup
  after 300. Everybody may send at any time; the chain serialises.
* **Shared delegation.** SPL `approve` *replaces* the one delegation of a token
  account, `revoke` clears whatever is there, and a partial swap leaves a
  remainder. Escrows that share an account, and an address that is used again
  with the same nonce, meet each other's leftovers.
* **Money arithmetic at boundaries.** Rounding shares, the slot at which a
  refund becomes a rescue, the first slot of the tip curve, saturation; and the
  curve exists twice, in Rust and in TypeScript.
* **Stale reads.** A keeper decides on a snapshot, the client computes the tip
  from two later reads, and the transaction lands later still; the dashboard
  and the benchmark read signatures and accounts one after the other.
* **Timeouts.** A transaction given up on may still land: in the client, in the
  retry loop, at the end of a demo.
* **Failure.** Rent rules refuse a payout to an unfunded wallet, a closed token
  account blocks `self_rescue`, any RPC read may fail, and many of those
  failures are swallowed.

What makes each part correct: the program keeps every escrow solvent, pays all
of it out once, to whom and when the payout table of `docs/ECONOMIC_DESIGN.md`
says, never swaps beyond the terms, and never leaves an escrow that nobody can
close. The tip curve leaves an early sniper no profit. The SDK computes the same
tip as the program. A keeper earns at least its minimum on whatever it closes,
reports no more than it earned, and lets no failing escrow keep the others
from being tried. A script reports what happened, and a page shows it.

## Modules

| Module | Models | Extends |
|---|---|---|
| `TipCurve` | `split_share`, the three shares, the bounty, the required tip; u64 saturation at `MAX_U64` | |
| `SdkMirror` | `antiSnipe.ts` and `profitability.ts`, on unbounded integers | `TipCurve` |
| `RescueEconomics` | one waiting escrow, its top-ups and one keeper's scan | `SdkMirror` |
| `InertiaEscrow` | the five instructions, and what the environment does to the accounts they use | `TipCurve` |
| `EscrowPromise` | no code: what the program promises its user, in terms of vaults and payouts only | |
| `ChainAsSeen` | no code: the map under which the program is the chain that `InertiaClient` runs over | `InertiaEscrow`; instantiates `InertiaClient` |
| `SwapRoutes` | the account lists of the four builders, against what `execute_swap` and each DEX ask of them | |
| `InertiaClient` | `executeSwap` over a lagging, failing node and a slow network | `SdkMirror`, `SwapRoutes` |
| `Keeper` | the bot's poll loop | `InertiaClient` |
| `DemoDrivers` | the five devnet scripts, as sequences of steps | `InertiaClient` |
| `RetryBaseline`, `AbPilot` | the retry loop; the pilot's trials with both arms | |
| `EscrowHistory` | what can be read of an escrow from outside: its transactions, whether it is there | `TipCurve` |
| `Dashboard`, `RescueBenchmark`, `DemoPage` | each an observer of `EscrowHistory` | `EscrowHistory` |
| `Observers` | the three observers composed with the escrows' own life | all three |
| `TipCurveProofs`, `SdkMirrorProofs`, `RescueEconomicsProofs`, `InertiaEscrowProofs`, `KeeperProofs`, `AbPilotProofs`, `ObserversProofs`, `DemoDriversProofs` | theorems | each the module it proves about |
| `MCInertiaEscrow`, `MCRescueEconomics`, `MCKeeper`, `MCDemoDrivers`, `MCObservers` | instances for TLC | |

An operator marked `mistake` in a comment is a wrong variant of the definition
that follows it, of the kind a slip in the code would make. Each property was
seen to fail with one of them in that definition's place; `PROJECT.json` says
which.

### The program: `InertiaEscrow`

* `escrow[e]` is the `EscrowState` account at PDA `e`, `NoEscrow` when there is
  none. Every handler demands status `Pending` and every handler that changes
  the status closes the account in the same instruction, so an account that
  exists is `Pending`; the three other status values are never stored across
  instructions. `Settle` records them in the history variable `receipt`.
* `ttl_slots` is always the constant, so it is not stored again.
* `lamports` holds the balance of every wallet and PDA; `move_lamports` and
  `close` are the code's. `token` is what SPL Token keeps of each input and
  destination account: whether it is open, its tokens, its delegate and the
  allowance.
* A transaction is one step. A failed instruction changes nothing, so its
  checks are guards. The transaction that carries `execute_swap` brings one
  System transfer along, which is a parameter of the action and is carried out
  first. The program's tip check (`jito_tip_at_least`) looks for a transfer of
  enough lamports among whose accounts a Jito tip account is *named*, not for
  its recipient; so a `Transfer` has a payer, a recipient and whether it names
  one. The client's transfer goes to the Jito account (`client.ts:187-194`).
* The swap CPI is abstracted to what it draws on each token account and what it
  delivers (`SwapOutcomes`). The escrow signs for it with whatever accounts its
  caller lists, so it can draw on every account delegated to this PDA, the
  input account or another (`CpiSucceeds`): that is where an address used again
  meets a delegation left from before. What it delivers goes to the destination
  account, and what the program measures is the difference there (`received`). A
  swap with too little output is a transaction that fails; whether the accounts
  listed make a swap at all is the subject of `SwapRoutes`.
* The runtime's rent rule (`RentStateOk`) is kept because it decides whether a
  payout is possible: `tests/inertia-protocol.ts:77-81` meets it.
* Environment actions: plain transfers to a live PDA (`Donate`), the user's own
  SPL `revoke`, tokens moved in and out of an account (`MoveTokens`), closing and
  re-creating a token account, input or destination, and the slot clock.
* Transaction fees are left out: they go to validators and meet no escrow.

`receipt` is never read by an action. It relates a payout to the terms and the
age of the escrow it came from.

The checks of each resolving instruction are a definition of their own
(`SwapAllowed`, `SelfRescueAllowed`, `CleanupAllowed`), and so are the balances
it leaves (`AfterSwap`, `AfterCleanup`), so that properties and proofs can speak
of an instruction that is not refused without taking it.

`ChainAsSeen` ties the program to the client models. Those run over a chain that
has no wallets and no tokens; the map reads such a chain off the program's state
and `receipt`. That chain knows from the start what will be opened at each
address, so the map is given a *plan*, one per assignment of routes,
mints and buffers to addresses, and speaks of openings that follow it. A plan
opens an address once, as the SDK's callers do, who take a new nonce for each
escrow.

### The client and the bot: `InertiaClient`, `Keeper`

A call of `executeSwap` is `call[c]`: `readEscrow`, `readSlot`, `readAgain`
(`buildExecuteSwapInstructions` fetches the escrow a second time), `send`,
`confirm`. Every read is a step, may fail, and a failed `getEscrow` is the
`null` of a closed escrow. A caller that brings its own tip, as the demos do,
starts at the second read. A sent transaction is a record in `network`; it
lands, is refused or expires, and `GiveUp` is a confirmation that times out or
whose node fails while the transaction is still out or has already landed. The
chain under the client is what a client can tell of it: whether an escrow is
there, its recorded buffer, its age, and in the history `fate` how it ended and
what a client gained. What it cannot tell (prices, tokens, delegations, the
wallets of others) is in `Refuse`, which may happen to any transaction: none is
ever owed a landing. Somebody else's swap (`RivalSwap`) has an account list of
its own. `rpcSlot` is the node's slot; it lags behind `slot` and
never goes back, because client and bot share one connection.

A bot is `bot[b]`: the `mode` says where in `runOnce` and `tryRescue` it is,
`todo` is what is left of the snapshot with `at` its slot, and `estimate` the
profit it judged on them. Profitability is decided on the snapshot, while the
client reads again. The escrows of a pass are taken in any order. `claims`
keeps what was reported as rescued.

`SwapRoutes` keeps of an account list what the checks look at: which accounts
are in it and in which order, and who must sign. A transaction that names a
signer nobody can sign for is never sent (`Signable`); one that the relay or the
DEX refuses is sent and refused (`SwapAccepted`).

### Scripts and pages

* `DemoDrivers`: a script is a sequence of steps, each of which may fail before
  or after it changed anything; a demo ends at the first failure and leaves its
  escrow behind, and it can be started again. Keepers may swap its escrows,
  others may clean them up or top them up. `balance` counts the input tokens
  in units of one swap. Demos attach a fixed tip (`HEDGE_TIP`, 40_000_000
  lamports in the scripts) instead of reading the slot.
* `RetryBaseline`: `sent` is how each attempt's transaction stands and `record`
  what the attempts array says of it. `AbPilot` runs it alone and as one arm of
  a trial. Prices are left out: whether a transaction still meets its floor when
  it is included is a choice.
* `EscrowHistory`: each escrow is the sequence of its transactions, failed ones
  included. A rescue that fails only after its event was emitted, as one does
  whose payee would be left below the rent minimum, keeps the event in its logs
  (`logged`). Of their windows only the order is kept; the rules are those of
  `InertiaEscrow`. The three observers read it one request at a time while it
  grows.
* `Dashboard`: a scan may miss creations (its signature limit) and give up on
  reads. All escrows in it are the partner's; others are told apart by the
  creation's own bytes. `Classified` goes by instruction and logged event, as
  the page does, whether or not the transaction succeeded.
* `DemoPage`: a tick of the poll is two reads, the account and, once that is
  gone, its signatures; either may fail, and the escrow may go between them.

## Runs

All runs but three pass. Twentieths replace basis points in the small instances:
shares of 18/20, 1/20 and a bounty of 2/20 round for the buffers tried, as the
deployed rates do.

| Run | Instance | What it shows |
|---|---|---|
| `escrow` | one user, one keeper, one address, two input accounts and a destination; a buffer of 9 and, topped up, 11, one stray lamport; windows 1, 4, 5; slots to 7 | money is right in every order of instructions; the address can always be closed; a rescue stays open while delegation and tokens are there; trades stay within the terms, the second life on another input account than the first included; the program implements `EscrowPromise`, which has the payout table in it |
| `roles` | one input account, with user, keeper and partner as callers, keeper and partner as payers of the tip, the tip account and the keeper as its recipients | wallets gain exactly the sum of their roles; lamports are conserved; no step is missing from the chain the client models run over (`ClientsSeeEveryStep`: `SinceGenesis` breaks it, so there are steps that follow a plan) |
| `shared_account` | two addresses on one token account, two input amounts, partial swaps, tokens moved; slots to 7 | allowances are all or nothing, `self_rescue` stays open, no permissionless instruction strands another escrow, every escrow is resolved in the end |
| `newest_delegation` | the same, older and newer escrow | **violated**: see *Findings* |
| `deployed_escrow` | rates 9000/500/1000, floor 10000, decay 15, windows 2/150/300, real rent minima; tips to the Jito account and to the keeper | payouts at the real boundaries, at every age from 0 to 302; the first slot earns nothing beyond a tip that goes to Jito |
| `economics` | every buffer 0..24, top-ups 1, 3, 7 up to 40, floor 4, decay 5, nine slots | the curve before, during and after its decay; the mirror; the estimate |
| `keeper` | one bot, one escrow on Raydium and one whose every swap is refused; a top-up of 4; node one slot behind, one transaction given up on | the bot's tips cover, what it closes pays, its reports are true, and an escrow worth rescuing is tried until it is closed |
| `mock_route` | an escrow on the mock DEX | **violated**: see *Findings* |
| `demos` | each of the five scripts, run twice, on pools sold from either side; a top-up of 4 by others | the fixed tip covers while nobody tops up, the swaps sent on real pools can work, a report of success is true, escrows left open stay swappable, calm runs get as far as sending their swap |
| `ab_pilot` | two trials of two attempts; the retry script alone; dry runs | "landed" is true, every swap paid for can be found in the record, and trials do not overlap |
| `observers` | two interchangeable escrows of up to three transactions | an escrow counted as rescued had a rescue on record, plain histories are shown as they ended, reported closings happened, the demo page shows its own escrow |
| `dashboard_revenue` | the same | **violated**: see *Findings* |

Bounds and why they are enough:

* `MaxSlot` bounds the clock. In `InertiaEscrow` an escrow is created only while
  its cleanup slot is below it, so each escrow sees all of its windows; the
  small instances leave room for creation in two or three different slots. In
  `keeper` and `demos` it is past the cleanup window and, with a decay of two,
  past the whole curve of an escrow created in slot 0 (`LastCreation`).
* `MaxBuffer` bounds top-ups. It leaves one top-up in the small instances,
  before or after any other step: a second adds nothing that the first does not
  (a top-up only changes the buffer and the balance by the same amount).
* `MaxSurplus` bounds stray transfers to one escrow, and `MaxTokens` the tokens
  in a destination when an escrow is opened for it.
* `Inputs` and `Destinations` keep the two roles of token accounts apart;
  `TokenAmounts` is what an owner leaves in an account, no more than it had.
  `TipPayers`, `TipTargets` and `Tips` are the transfers tried: the exact tip and
  none, naming a Jito account or not.
* `UserFunds` lets the one-address instance live two lives, the second with what
  the first paid out. `KeeperFunds` covers every tip; `PartnerFunds` is above
  the rent minimum. The swap outcomes are one that delivers too little, one at
  the terms, one that draws more than they allow; in `escrow` they
  draw a part or all of the terms, on one input account or on both, or more than
  the terms. There, life one can leave a delegation behind on one account and
  life two open on the other, so that a swap does draw on both.
* `MaxElapsed` runs the curve two slots past its decay.
* `SlotLag` is how far the node is behind: one slot in `keeper` puts it on
  either side of the window; the demos never read the slot. `MaxUnawaited`
  bounds the transactions in flight that nobody waits for: one is enough to
  land during the next attempt or pass.
* `MAX_ATTEMPTS` and `TRIAL_COUNT` of two give a late landing a later attempt
  and a later trial to fall into.
* `MaxTxs` of three is a creation and two more: a failed transaction or a top-up
  before, or a late one after, the closing. `MAX_POLLS` of three lets the page
  reach its limit after, before or together with the closing.

**Assumption on supply.** `SupplyAssumption` (and `ClientSupplyAssumption`,
`EconomicsAssumption`) says that a buffer times the decay does not exceed 2^64:
all SOL in existence times 15 does not. Without it `saturating_mul` could lower
the tip of an impossible buffer.

**Fairness** is weak fairness only.

* `InertiaEscrow`: slots go on, and for each address somebody keeps sending
  `cleanup_expired_escrow`. The instruction is permissionless, pays a bounty,
  and `cleanup-stale.mjs` sends it; the user can always send it too
  (`UserCanAlwaysCleanUp`). No keeper is assumed to rescue and no user to act.
  Liveness is checked with the clock bounded at `MaxSlot`: all windows of every
  escrow open before that.
* `Keeper`: the bot's process keeps running (`index.ts` catches everything a
  pass throws and polls again), slots and the node's view of them go on, and a
  transaction does not stay in flight for ever. `CalmDown` says that node and
  network stop failing at some time, of which nothing more is known; no
  fairness is asked of other keepers, users or cleanups. Without it a node that
  fails every read keeps any bot from any attempt. A transaction may be refused
  every time, so what is claimed (`TriedUntilClosed`) is another attempt, not a
  landing.
* `DemoDrivers`: the script runs on, transactions do not stay in flight, and
  failures end in the same way; keepers and cleanups are not assumed. What is
  claimed (`CalmRunsSendTheirSwap`) is that a run that starts when nothing fails
  any more gets as far as its swap; the pool may still refuse that.

## Findings

* `docs/RISK_REGISTER.md:103` says that of escrows sharing one input account
  "only the most recent delegation survives". Run `newest_delegation` shows that
  it may not: the older escrow's `self_rescue`, which
  `initialize_escrow.rs:87-88` offers as its way out, revokes whatever
  delegation the account carries (`self_rescue.rs:41-47`), here the newer
  escrow's. No funds are lost; the newer escrow's `execute_swap` is stranded
  until the user approves again.
* `MockDexSwapBuilder` (`packages/keeper/src/mockDexSwap.ts:68-72`) passes two
  mints and the mint authority. `execute_swap.rs:180-191` requires the input
  account, the destination account and the token program among the accounts it
  relays, so every swap built for the mock DEX is refused. The keeper's
  integration test expects a rescue (`test/integration.check.mjs:155`). Run
  `mock_route` has the bot judge such an escrow profitable and send a swap that
  cannot land. The first flow of `devnet-demo.mjs` builds the same list.
* The dashboard tells a rescue by the event in the logs of an escrow's newest
  transaction (`page.tsx:203-216`) and does not look at `meta.err`.
  `execute_swap` emits the event before its transaction has succeeded; one that
  then fails, at the rent check of its payees or in a later instruction, keeps
  it. Run `dashboard_revenue` has the page show such an escrow as rescued and
  count its share among the "real lamports moved on-chain"
  (`page.tsx:356-357`), although it is still pending and the partner got
  nothing. `RevenueIsOfRescues` says what does hold.

Met on the way and not runs of their own:

* The comment on `jito_tip_at_least` speaks of a transfer "to one of the known
  Jito tip accounts" (`execute_swap.rs:280-282`); the check asks that the
  transfer names one. So "break-even" in the first slot
  (`execute_swap.rs:311-317`) is stated, and proved, for tips that go to a Jito
  account, as the SDK's do (`FirstSlotRescueEarnsNothing`).
* `cleanup_expired_escrow` and a partial swap leave a delegation behind. If the
  same user opens the same address again on another input account, a swap
  through it can also draw on the first one, up to what was left. `pda.ts`'s
  callers take a fresh nonce each time; `TradeWithinTerms` says what holds when
  one is used again.
* `received` is a balance difference on the destination account. If that is also
  the input account, what the swap drew on it is deducted; with a minimum
  output of zero no output is owed at all.
* A top-up by somebody else between a demo's opening and its swap can raise the
  tip due above the fixed one; the swap is then refused once the rescue window
  is open (`HedgeCovers` is for buffers as opened).

* A user who closed the input token account cannot `self_rescue` (the account
  must exist) and waits for the cleanup window, at the price of the bounty
  unless they send the cleanup themselves. A wallet below the rent minimum among
  partner and treasury makes small rescues fail until it is funded.
* The bot's "another keeper claimed it first" is also printed after a failed
  read of the escrow and after its own success whose confirmation was lost
  (`Recheck`); `cleanup-stale.mjs` logs a failed read as an escrow already gone.
* The retry baseline's "never-landed" means that no attempt was *seen* to land:
  one given up on may land later, so that a trade is swapped twice
  (`SwapsAreOnRecord` shows that the record says where to look).
* The dashboard takes an escrow's newest signature for its closing. A failed
  `execute_swap` that comes after a `self_rescue` or a rescue therefore shows the
  escrow as landed normally; a failed attempt on an escrow that is still pending
  does so too, unless its event was logged already (run `dashboard_revenue`).
  `PlainHistoriesReadRight` is stated for histories without one.
* The demo page calls an escrow rescued as soon as its account is gone: after a
  cleanup, and after a creation that failed on chain, since `confirmTransaction`
  does not throw for those.
* A failing quote at the start of a trial is outside every handler of the pilot:
  it ends the script without the report of the earlier trials
  (`TrialQuoteThrows`).

## Proofs

TLAPS proves every safety invariant and action property that a passing run
checks, except three that speak of `ENABLED` and whose guards are proved instead
(*The program*), for every number of users, nonces,
wallets, token accounts, bots, escrows, trials, runs and attempts, and for every
rate, window, amount, lag and bound the assumptions allow.

### The arithmetic

* `TipCurveProofs`: division and rounding lemmas; `SharesAreTheBuffer` (the
  three shares are natural numbers that add up to the buffer);
  `FirstSlotTipIsTheShare` (at the first slot of the window the required tip is
  at least the keeper's share). It also has what is needed of sums over finite
  sets of accounts or escrows: a sum splits, is monotone, and does not change
  when an amount moves from one member to another. The library's fold over a set
  says how a sum is built up, not what it is for a given set; each of these
  facts is proved by taking a smallest counterexample, which exists because the
  strict subset order on finite sets is well-founded.
* `SdkMirrorProofs`: the tip falls with age, a tip that is due is at least the
  floor (`TipAboveFloor`), the keeper's net rises with the buffer and never
  falls while a rescue waits (`NetNeverFalls`), and the SDK's estimate is that
  net less the fee. These are the facts every argument about stale data
  comes down to.
* `RescueEconomicsProofs`: all five properties of the `economics` run, from the
  invariant `PayableBuffer` and, for the scan, that what was scanned is an
  earlier age and buffer of the same escrow. The SDK computes on unbounded
  BigInts and the program with `saturating_mul` on u64, so they agree only while
  the product does not saturate (`NoSaturation`).

### The program

`InertiaEscrowProofs` goes in six stages.

* `EscrowTypes` and `EscrowSolvency`. The invariant is
  `IInv == TypeOK /\ Solvent`. Neither half is inductive alone: that a balance
  stays a natural number when an escrow pays out needs `Solvent`, and `Solvent`
  needs that amounts are natural. One lemma per instruction; those that resolve
  share `ResolutionKeepsIInv`, and payouts go through `PayFromEscrow` and
  `RescueSplitPays`.
* `EscrowPayoutsAsPromised`, `FirstSlotBreaksEven`, `EscrowAllowance`,
  `EscrowTradesWithinTerms`. The invariant `HInv` adds to `IInv` that buffers
  stay payable (so the curve does not saturate), that a live delegation is worth
  exactly its `input_amount`, that an account delegated to an address belongs to
  its user and, while no escrow at that address has ended, is the input account
  of the live one (`OnlyOwnDelegations`), and that every receipt is honest. Only
  the resolving instructions write receipts, and each writes an honest one
  because the escrow it closes is solvent and payable. What a swap may draw on
  follows from the two facts about delegations, whatever accounts are listed;
  `EscrowTradesWithinTerms` is about the token balances themselves, before and
  after.
* The action properties. `ResolutionsStrandNobody`: a swap or a cleanup touches
  the token account's delegation only if it is the closing escrow's own.
  `OpenEscrowsOnlyGrow`: each instruction either closes the escrow or leaves its
  terms alone, and moves lamports only towards it. `EscrowWalletShares`: the
  payout of each kind of closing is followed transfer by transfer, so that
  caller, user, partner and treasury may be the same wallet in any combination;
  `move_lamports` debits and then credits what the debit left, one after the
  other as the code does, so a transfer from a wallet to itself is right too.
* `EscrowImplementsPromise`: the initial states map to those of `EscrowPromise`,
  and each instruction maps to one of its steps, or to a stutter when it touches
  no vault. `HInv` is what makes the map work: only a solvent escrow holds in its
  vault what the promise says it pays out. `NoLamportMadeOrLost`: every
  instruction is a chain of transfers between accounts, and the sum over a finite
  set of accounts does not change under one (`TipCurveProofs`).
* `SelfRescueNeverRefused`, `CleanupNeverRefused`, `RescueNeverRefused`: what
  the three `ENABLED` properties say, as facts about the checks the instructions
  make. The hard check is the runtime's rent rule, which looks at every account
  after the payout. `RInv` adds to `HInv` that the rule holds now; no transaction
  can break it, so it does from the start on (`RentAssumption`). After a closing
  it holds again because the user is paid the whole rent of the escrow, which
  alone is above a wallet's minimum, however poor the user was, and everybody
  else named in the theorem was above the minimum before and only gains. The
  third theorem has the strongest condition, and the code is why: a caller, a
  partner or a treasury below the rent minimum does make a rescue fail.
* `ProgramIsTheClientsChain`, `PlannedProgramImplementsChain`: seen through
  `ChainAsSeen`, every step of the program is one of the chain under the client
  models, or none that a client could see. So what bot and scripts are proved to
  withstand of other keepers, users and cleanups is everything the program lets
  those do. `ProgramPaysAsClientsReckon` is the other direction for what a
  client does itself: a swap the program takes carries the tip the chain asks
  for (`Lands`), and its caller gains the share less the tip that
  `KeepersEarnTheirMinimum` counts with, unless the caller is also one of the
  other payees.

### The bot and the pilot

* `KeeperProofs`: `BotsAlwaysTip`, `TipCoversUntilLanding`,
  `KeepersEarnTheirMinimum`, `ReportsAreEarned`, all from `RescuesStayCovered`.
  None of the four is inductive: what a bot earns when its transaction lands was
  decided in an earlier step on a snapshot that is in no transaction. `RescueInv`
  therefore follows a rescue the whole way: what is on the snapshot is an
  earlier state of the account; the escrow being tried was judged profitable on
  it; what the client has read since is at least as old and as large; the
  transaction in flight carries the tip for that reading; and what landed, or is
  reported, is worth what was judged. It is kept because an account only *moves
  on*: it keeps its creation slot, its buffer only grows, and once closed it
  stays closed, while slots only rise. `NetNeverFalls` does the arithmetic.
  `MockRouteNeverSwaps` makes the `mock_route` finding a statement about every
  configuration: no bot ever closes an escrow on the mock DEX. Others, with an
  account list of their own, do, as `tests/inertia-protocol.ts:236-244` does.
* `AbPilotProofs`: `LandedIsReal`, `SwapsCanBeFound`, `ArmsEndWithTheirTrial`.
  `LoopInv` says that nothing ahead of the loop is sent or recorded, that every
  attempt behind it is accounted for, and that a call which is still running has
  recorded no landing.

### Scripts and pages

* `ObserversProofs`: the four properties of the `observers` run, from
  `ObserversInvariant`. A page or script reads one thing at a time while the
  escrows live on. What carries over from one read to the next is that histories
  only *grow* (`HistoriesGrow`): whatever it saw of an escrow is still on record,
  a closed escrow stays closed, and the newest transaction it saw is no newer
  than the newest there is (`SeenStaysTrue`). The invariant says of each observer
  what it has concluded so far and which entry of the history bears it out.
  `DashboardRevenueIsOfRescues` adds two sums: the rows shown as rescued are
  among the escrows of which a rescue is on record, landed or failed after its
  event, and no row claims more than the share of its escrow's buffer, the share
  being monotone.
* `DemoDriversProofs`: the four safety properties of the `demos` run, from
  `DemosInvariant`. A script is at one step at a time, and its place says what
  kind of step that is (`StepFits`: set up, open, swap, read back). Its call to the client
  is there only while it is at the swap (`Called`), so the transaction it waits
  for is its own escrow's; transactions of runs that died are in flight without
  anybody waiting. Every token account holds what its live delegate will spend
  and, besides, what the setup in progress still needs (`Stocked`), and a pending
  escrow keeps its allowance, except on the Orca demo's one WSOL account, where
  only the current escrow does (`Allowed`). `HedgeAlwaysCovers` then needs, for a
  buffer nobody topped up, that no slot asks for more than the first slot of the
  window (`HedgeIsEnough`), and `SentSwapsAlwaysCanWork` that the relay and each real DEX accept the account
  list its builder makes, position by position, for a pool sold from either side
  (`OrcaAccepted`, `RaydiumAccepted`, `MeteoraAccepted`).
  `ScriptsFindWhatTheyNeed` says that the setup steps find the tokens they put
  into the pool, the route finds the pool and the escrow a free address
  (`NothingIsMissing`), so a script stops only for a failing node or network or
  for a swap that is refused.

### Assumptions

| Assumption | Says |
|---|---|
| `RatesAssumption`, `TipAssumption` | shares fit in the divisor; floor, decay and TTL have their types |
| `WindowsAssumption` | TTL, self-rescue and cleanup windows in that order |
| `AccountsAssumption`, `NoEscrowAssumption` | PDAs are not wallets; the treasury and the tip account are wallets |
| `FiniteAssumption`, `HistoryAssumption` | there are finitely many accounts and escrows, so that sums over them exist |
| `CallersAssumption` | somebody may send transactions |
| `AmountsAssumption` | amounts are natural, the rent is positive |
| `RentAssumption` | no wallet starts between zero and its rent minimum, and an account with data costs at least as much rent as an empty one |
| `SupplyAssumption`, `ClientSupplyAssumption`, `EconomicsAssumption` | a buffer times the decay fits in 2^64 |
| `KeeperConfigAssumption`, `KeeperAssumption` | fee and minimum profit are natural; a bot is configured for Orca and Raydium routes |
| `ClientAssumption` | there is an escrow, clients have names of their own, orders and bounds have their types |
| `RetryAssumption`, `PageAssumption` | attempts, trials and polls are positive numbers |
| `DemoAssumption` | the programs are among the five, one client runs them, the WSOL account is no escrow |
| `HedgeAssumption` | the fixed tip is at least the floor and the keeper's whole share of every buffer ordered: "above the 36,000,000-lamport worst case" (`devnet-orca-demo.mjs:120`) |

TLC evaluates them in every run of the module that declares them.
`BotsAlwaysTip` also assumes a tip floor above zero, as the deployed one is.

### What only TLC checks

* Liveness, which this prover cannot state: `EventuallyResolved`,
  `TriedUntilClosed`, `CalmRunsSendTheirSwap`.
* The properties with `ENABLED`: `SelfRescueAlwaysOpen`,
  `UserCanAlwaysCleanUp`, `RescueStaysOpen`. That the guards hold is proved
  (`SelfRescueNeverRefused`, `CleanupNeverRefused`, `RescueNeverRefused`); that an
  action whose guard holds is enabled is what TLC adds.
* The three violated properties, which are no theorems.

## Not modelled

* The site's layout, animation (`RescueHero`) and text, and the tests.
* Borsh, IDL and instruction-data layout; Jito's tip accounts as eight rather
  than one; transaction fees, except as the keeper's estimate; transactions with
  more than one `execute_swap`, for which one tip transfer counts.
* What further signers of a transaction let the swap program do with accounts of
  their own, an `approve` of a PDA that a user sends by hand, frozen token
  accounts, and lamports sent to a PDA before it is opened.
* Prices and pool reserves: a swap delivers enough or it does not.
* Flows 2 to 4 of `devnet-demo.mjs`, which the script does not reach (see
  *Findings*), and the log of `cleanup-stale.mjs`, whose transaction is
  `Cleanup` of `InertiaEscrow`.
* Several RPC nodes behind one connection, whose slots could go back between two
  reads: `KeeperProofs` rests on a slot that does not.

## Plan

What is left, in this order:

1. A connection that balances over several nodes, to see which of the keeper's
   properties need the slot to be monotone.
2. Flows 2 to 4 of `devnet-demo.mjs`, once the mock DEX's account list lets the
   script reach them.
3. The client models over `InertiaEscrow` itself instead of over the chain it
   implements, so that a keeper's wallet can run out of lamports for tips.
