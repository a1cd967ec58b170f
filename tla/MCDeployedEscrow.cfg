SPECIFICATION Spec
CONSTANTS
  BASIS_POINTS_DIVISOR = 10000
  KEEPER_SHARE_BPS = 9000
  PARTNER_SHARE_BPS = 500
  CLEANUP_BOUNTY_BPS = 1000
  MIN_JITO_TIP_LAMPORTS = 10000
  TIP_DECAY_SLOTS = 15
  TTL_SLOTS = 2
  SELF_RESCUE_SLOTS = 150
  CLEANUP_SLOTS = 300
  MAX_U64 = 2147483647
  u1 = u1
  u2 = u2
  k1 = k1
  p1 = p1
  treasury = treasury
  jito = jito
  a1 = a1
  a2 = a2
  a3 = a3
  KeeperFunds = 2000000
  UserFunds = 5000000
  PartnerFunds = 1000000
  Users = {u1}
  Callers = {k1}
  Partners = {p1}
  Wallets <- MCWallets
  TREASURY = treasury
  JITO_TIP = jito
  Nonces = {1}
  TokenAccounts = {a1, a3}
  Inputs = {a1}
  Destinations = {a3}
  InitialTokens = 4
  TokenAmounts = {}
  TokenOwner <- MCTokenOwner
  NoEscrow = NoEscrow
  NoDelegate = NoDelegate
  InitialLamports <- MCInitialLamports
  ESCROW_RENT = 2700000
  WALLET_RENT_MINIMUM = 890880
  Buffers = {12345, 200003}
  DynamicMinimums = {0}
  InputAmounts = {2}
  OutputAmounts = {5}
  TopUps = {}
  Donations = {}
  Tips = {0}
  TipPayers = {k1}
  TipTargets = {jito, k1}
  SwapOutcomes <- MCSwapOutcomes
  MaxSlot = 302
  MaxBuffer = 1000000
  MaxTokens = 4
  MaxSurplus = 0
INVARIANTS
  PayoutsAsPromised
  FirstSlotRescueEarnsNothing
