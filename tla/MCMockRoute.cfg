SPECIFICATION Spec
CONSTANTS
  BASIS_POINTS_DIVISOR = 20
  KEEPER_SHARE_BPS = 18
  PARTNER_SHARE_BPS = 1
  CLEANUP_BOUNTY_BPS = 2
  MIN_JITO_TIP_LAMPORTS = 4
  TIP_DECAY_SLOTS = 2
  TTL_SLOTS = 1
  SELF_RESCUE_SLOTS = 2
  CLEANUP_SLOTS = 3
  MAX_U64 = 1000
  EstimatedTxFeeLamports = 1
  MinProfitLamports = 2
  Clients = {b1}
  Escrows = {e1, e2}
  e1 = e1
  e2 = e2
  Orders <- MCKeeperOrders
  TopUps = {4}
  MaxSlot = 4
  MaxBuffer = 24
  SlotLag = 1
  MaxUnawaited = 1
  ConfiguredRoutes = {"orca", "raydium"}
  LastCreation = 0
INVARIANT EverySwapAccepted
