CONSTANTS
  Workers = {w1, w2}
  NoWorker = NoWorker
  InvoiceIds = {1, 2, 3, 4}
  SubPerMicro = 2
  LegacyBalances = {0, 41}
  UsdtBalances = {0}
  LnFees = {0, 2, 6}
  Payments = {20}
  DepositWallets = {}
  MinPayable = 1
  MinFixedInvoice = 2
  Tolerance = 3
  StaleMeansDead = FALSE
  Bounds <- overtaken
SPECIFICATION Spec
SYMMETRY symmetry
CHECK_DEADLOCK FALSE
INVARIANT RecordedMeansPaid
INVARIANT RollbackIsOneWay
INVARIANT FeeOnce
