SPECIFICATION Spec
CONSTANTS
  BASIS_POINTS_DIVISOR = 20
  KEEPER_SHARE_BPS = 18
  PARTNER_SHARE_BPS = 1
  CLEANUP_BOUNTY_BPS = 2
  MIN_JITO_TIP_LAMPORTS = 4
  TIP_DECAY_SLOTS = 2
  TTL_SLOTS = 1
  MAX_U64 = 1000
  Escrows = {e1, e2}
  Buffer = 45
  TopUp = 15
  MaxTxs = 3
  MAX_POLLS = 3
CHECK_DEADLOCK FALSE
SYMMETRY Symmetry
INVARIANTS
  RevenueIsOfRescues
  PlainHistoriesReadRight
  ReportedClosingsHappened
  PageShowsItsOwnEscrow
