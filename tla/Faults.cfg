CONSTANTS
  Workers = {w1, w2}
  NoWorker = NoWorker
  InvoiceIds = {1, 2, 3, 4}
  SubPerMicro = 2
  LegacyBalances = {0, 41}
  UsdtBalances = {0}
  LnFees = {0, 2, 8}
  Payments = {20}
  DepositWallets = {}
  MinPayable = 1
  MinFixedInvoice = 2
  Tolerance = 3
  StaleMeansDead = TRUE
  Bounds <- faults
SPECIFICATION Spec
SYMMETRY symmetry
CHECK_DEADLOCK FALSE
INVARIANT IInv
INVARIANT MoveOnce
INVARIANT CompleteIsWhole
INVARIANT RolledBackIsWhole
INVARIANT CompletePointsToUsdt
INVARIANT TreasuryExposure
PROPERTY ImplementsLedger
PROPERTY RecordedIdsStay
