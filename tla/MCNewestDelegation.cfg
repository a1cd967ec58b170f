SPECIFICATION Spec
CONSTANTS
  BASIS_POINTS_DIVISOR = 20
  KEEPER_SHARE_BPS = 18
  PARTNER_SHARE_BPS = 1
  CLEANUP_BOUNTY_BPS = 2
  MIN_JITO_TIP_LAMPORTS = 2
  TIP_DECAY_SLOTS = 2
  TTL_SLOTS = 1
  SELF_RESCUE_SLOTS = 4
  CLEANUP_SLOTS = 5
  MAX_U64 = 1000
  u1 = u1
  u2 = u2
  k1 = k1
  p1 = p1
  treasury = treasury
  jito = jito
  a1 = a1
  a2 = a2
  a3 = a3
  KeeperFunds = 30
  UserFunds = 40
  PartnerFunds = 5
  Users = {u1}
  Callers = {k1}
  Partners = {p1}
  Wallets <- MCWallets
  TREASURY = treasury
  JITO_TIP = jito
  Nonces = {1, 2}
  TokenAccounts = {a1, a3}
  Inputs = {a1}
  Destinations = {a3}
  InitialTokens = 4
  TokenAmounts = {}
  TokenOwner <- MCTokenOwner
  NoEscrow = NoEscrow
  NoDelegate = NoDelegate
  InitialLamports <- MCInitialLamports
  ESCROW_RENT = 3
  WALLET_RENT_MINIMUM = 2
  Buffers = {11}
  DynamicMinimums = {0}
  InputAmounts = {2}
  OutputAmounts = {5}
  TopUps = {}
  Donations = {}
  Tips = {0}
  TipPayers = {k1}
  TipTargets = {jito}
  SwapOutcomes <- MCSwapOutcomes
  MaxSlot = 8
  MaxBuffer = 20
  MaxTokens = 4
  MaxSurplus = 0
PROPERTIES
  NewestDelegationSurvives
CHECK_DEADLOCK FALSE
