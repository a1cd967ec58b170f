SPECIFICATION Spec
CONSTANTS
  BASIS_POINTS_DIVISOR = 20
  KEEPER_SHARE_BPS = 18
  PARTNER_SHARE_BPS = 1
  CLEANUP_BOUNTY_BPS = 2
  MIN_JITO_TIP_LAMPORTS = 4
  TIP_DECAY_SLOTS = 5
  TTL_SLOTS = 2
  MAX_U64 = 1000
  Buffers <- MCBuffers
  TopUps <- MCTopUps
  MaxBuffer = 40
  MaxElapsed = 9
  EstimatedTxFeeLamports = 1
  MinProfitLamports = 2
INVARIANTS
  EarlyRescueEarnsLittle
  SdkMirrorsProgram
  ScannedProfitIsLowerBound
PROPERTIES
  TipNeverRisesWhileWaiting
  TopUpNeverDeters
