SPECIFICATION FairSpec
CONSTANTS
  BASIS_POINTS_DIVISOR = 20
  KEEPER_SHARE_BPS = 18
  PARTNER_SHARE_BPS = 1
  CLEANUP_BOUNTY_BPS = 2
  MIN_JITO_TIP_LAMPORTS = 4
  TIP_DECAY_SLOTS = 2
  TTL_SLOTS = 1
  SELF_RESCUE_SLOTS = 2
  CLEANUP_SLOTS = 3
  MAX_U64 = 1000
  EstimatedTxFeeLamports = 1
  MinProfitLamports = 2
  Clients = {driver}
  Escrows = {e1, e2}
  Orders <- MCOrders
  TopUps = {4}
  MaxSlot = 4
  MaxBuffer = 24
  SlotLag = 4
  MaxUnawaited = 1
  Programs = {"mockDemo", "orcaDemo", "raydiumDemo", "meteoraDemo", "orcaLive"}
  HEDGE_TIP = 20
  WsolAta = wsolAta
  NoDelegate = none
CHECK_DEADLOCK FALSE
INVARIANTS
  HedgeCovers
  SentSwapsCanWork
  FinishedMeansSwapped
  LeftEscrowsStaySwappable
PROPERTIES
  CalmRunsSendTheirSwap
